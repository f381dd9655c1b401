-------------------------- MODULE Recovery_proofs ---------------------------
(***************************************************************************)
(* Proofs about modules BlendPool and Recovery: the pool's answers are     *)
(* predicted exactly, every position can be closed, an unwind does not     *)
(* trade, and no call adds risk beyond the limits; for any rates not below *)
(* one, any marks, plans and unwinds.                                      *)
(*                                                                         *)
(* The type invariant is inductive and all the rest follows from it and    *)
(* from the rounding of mul_div.                                           *)
(***************************************************************************)
EXTENDS Recovery, VaultMath_proofs, SequenceTheorems

-----------------------------------------------------------------------------
(* Rounding, as the pool and the vault rely on it.                         *)

\* A product is monotone in each factor.
LEMMA Monotone ==
    ASSUME NEW a \in Nat, NEW b \in Nat, NEW c \in Nat, a <= b
    PROVE  a * c <= b * c
  OBVIOUS

\* What is at most a ratio is at most its floor.
LEMMA FloorIsLargest ==
    ASSUME NEW a \in Nat, NEW b \in Nat, NEW d \in Nat \ {0}, NEW q \in Nat,
           q * d <= a * b
    PROVE  q <= MulDivFloor(a, b, d)
<1> DEFINE f == MulDivFloor(a, b, d)
<1>1. f \in Nat /\ a * b < (f + 1) * d
  BY FloorBounds
<1> HIDE DEF f
<1>2. ASSUME f + 1 <= q PROVE FALSE
  <2>1. (f + 1) * d <= q * d
    BY <1>1, <1>2, Monotone
  <2> QED
    BY <1>1, <2>1
<1> QED
  BY <1>1, <1>2 DEF f

\* What covers a ratio covers its ceiling.
LEMMA CeilIsSmallest ==
    ASSUME NEW a \in Nat, NEW b \in Nat, NEW d \in Nat \ {0}, NEW q \in Nat,
           a * b <= q * d
    PROVE  MulDivCeil(a, b, d) <= q
<1> DEFINE c == MulDivCeil(a, b, d)
<1>1. c \in Nat /\ c * d < a * b + d
  BY CeilBounds
<1> HIDE DEF c
<1>2. ASSUME q + 1 <= c PROVE FALSE
  <2>1. (q + 1) * d <= c * d
    BY <1>1, <1>2, Monotone
  <2>2. (q + 1) * d = q * d + d
    OBVIOUS
  <2> QED
    BY <1>1, <2>1, <2>2
<1> QED
  BY <1>1, <1>2 DEF c

LEMMA FloorMonotone ==
    ASSUME NEW a \in Nat, NEW b \in Nat, NEW c \in Nat, NEW d \in Nat \ {0}, a <= b
    PROVE  MulDivFloor(a, c, d) <= MulDivFloor(b, c, d)
<1>1. MulDivFloor(a, c, d) \in Nat /\ MulDivFloor(a, c, d) * d <= a * c
  BY FloorBounds
<1>2. a * c <= b * c
  BY Monotone
<1> DEFINE f == MulDivFloor(a, c, d)
<1> HIDE DEF f
<1>3. f * d <= b * c
  BY <1>1, <1>2 DEF f
<1> QED
  BY <1>1, <1>3, FloorIsLargest DEF f

LEMMA CeilMonotone ==
    ASSUME NEW a \in Nat, NEW b \in Nat, NEW c \in Nat, NEW d \in Nat \ {0}, a <= b
    PROVE  MulDivCeil(a, c, d) <= MulDivCeil(b, c, d)
<1> DEFINE g == MulDivCeil(b, c, d)
<1>1. g \in Nat /\ b * c <= g * d
  BY CeilBounds
<1>2. a * c <= b * c
  BY Monotone
<1> HIDE DEF g
<1>3. a * c <= g * d
  BY <1>1, <1>2
<1> QED
  BY <1>1, <1>3, CeilIsSmallest DEF g

\* Tokens split in two are worth at least the sum of what each part is worth as
\* a claim, at most the sum of what each part is worth as a debt.
LEMMA FloorSplits ==
    ASSUME NEW a \in Nat, NEW b \in Nat, NEW c \in Nat, NEW d \in Nat \ {0}
    PROVE  MulDivFloor(a, c, d) + MulDivFloor(b, c, d) <= MulDivFloor(a + b, c, d)
<1> DEFINE f == MulDivFloor(a, c, d)
           g == MulDivFloor(b, c, d)
<1>1. f \in Nat /\ g \in Nat /\ f * d <= a * c /\ g * d <= b * c
  BY FloorBounds
<1> HIDE DEF f, g
<1>2. (f + g) * d = f * d + g * d /\ (a + b) * c = a * c + b * c
  BY <1>1
<1>3. /\ f * d \in Int /\ g * d \in Int /\ a * c \in Int /\ b * c \in Int
  BY <1>1
<1>4. (f + g) * d <= (a + b) * c
  BY <1>1, <1>2, <1>3
<1>5. f + g \in Nat /\ a + b \in Nat
  BY <1>1
<1> QED
  BY <1>4, <1>5, FloorIsLargest DEF f, g

LEMMA CeilSplits ==
    ASSUME NEW a \in Nat, NEW b \in Nat, NEW c \in Nat, NEW d \in Nat \ {0}
    PROVE  MulDivCeil(a + b, c, d) <= MulDivCeil(a, c, d) + MulDivCeil(b, c, d)
<1> DEFINE f == MulDivCeil(a, c, d)
           g == MulDivCeil(b, c, d)
<1>1. f \in Nat /\ g \in Nat /\ a * c <= f * d /\ b * c <= g * d
  BY CeilBounds
<1> HIDE DEF f, g
<1>2. (f + g) * d = f * d + g * d /\ (a + b) * c = a * c + b * c
  BY <1>1
<1>3. /\ f * d \in Int /\ g * d \in Int /\ a * c \in Int /\ b * c \in Int
  BY <1>1
<1>4. (a + b) * c <= (f + g) * d
  BY <1>1, <1>2, <1>3
<1>5. f + g \in Nat /\ a + b \in Nat
  BY <1>1
<1> QED
  BY <1>4, <1>5, CeilIsSmallest DEF f, g

-----------------------------------------------------------------------------
(* One token is worth at least one atom: r >= s.                           *)

\* The tokens that all of a claim is worth are all of its tokens.
LEMMA ClaimCloses ==
    ASSUME NEW old \in Nat, NEW s \in Nat \ {0}, NEW r \in Nat \ {0}, s <= r
    PROVE  /\ MulDivFloor(old, r, s) \in Nat /\ old <= MulDivFloor(old, r, s)
           /\ MulDivCeil(MulDivFloor(old, r, s), s, r) = old
<1> DEFINE v == MulDivFloor(old, r, s)
           t == MulDivCeil(v, s, r)
<1>1. v \in Nat /\ v * s <= old * r /\ old * r < (v + 1) * s
  BY FloorBounds
<1>2. old * s <= old * r
  OBVIOUS
<1>3. old <= v
  BY <1>2, FloorIsLargest
<1> HIDE DEF v
<1>4. t \in Nat /\ v * s <= t * r
  BY <1>1, CeilBounds
<1>5. t <= old
  BY <1>1, CeilIsSmallest
<1> HIDE DEF t
<1>6. ASSUME t + 1 <= old PROVE FALSE
  <2>1. (t + 1) * r <= old * r
    BY <1>4, <1>6, Monotone
  <2>2. (t + 1) * r = t * r + r /\ (v + 1) * s = v * s + s
    BY <1>1, <1>4
  <2>3. t * r \in Int /\ v * s \in Int /\ old * r \in Int
    BY <1>1, <1>4
  <2> QED
    BY <1>1, <1>4, <2>1, <2>2, <2>3
<1>7. t = old
  BY <1>4, <1>5, <1>6
<1> QED
  BY <1>1, <1>3, <1>7 DEF t, v

\* The tokens that all of a debt is worth are all of its tokens.
LEMMA DebtCloses ==
    ASSUME NEW old \in Nat, NEW s \in Nat \ {0}, NEW r \in Nat \ {0}, s <= r
    PROVE  /\ MulDivCeil(old, r, s) \in Nat /\ old <= MulDivCeil(old, r, s)
           /\ MulDivFloor(MulDivCeil(old, r, s), s, r) = old
<1> DEFINE v == MulDivCeil(old, r, s)
           t == MulDivFloor(v, s, r)
<1>1. v \in Nat /\ old * r <= v * s /\ v * s < old * r + s
  BY CeilBounds
<1> HIDE DEF v
<1>2. old * s <= old * r
  OBVIOUS
<1>3. ASSUME v + 1 <= old PROVE FALSE
  <2>1. (v + 1) * s <= old * s
    BY <1>1, <1>3, Monotone
  <2>2. (v + 1) * s = v * s + s
    BY <1>1
  <2>3. v * s \in Int /\ old * s \in Int /\ old * r \in Int
    BY <1>1
  <2> QED
    BY <1>1, <1>2, <2>1, <2>2, <2>3
<1>4. t \in Nat /\ t * r <= v * s
  BY <1>1, FloorBounds
<1>5. old <= t
  BY <1>1, FloorIsLargest
<1> HIDE DEF t
<1>6. ASSUME old + 1 <= t PROVE FALSE
  <2>1. (old + 1) * r <= t * r
    BY <1>4, <1>6, Monotone
  <2>2. (old + 1) * r = old * r + r
    OBVIOUS
  <2>3. v * s \in Int /\ t * r \in Int /\ old * r \in Int
    BY <1>1, <1>4
  <2> QED
    BY <1>1, <1>4, <2>1, <2>2, <2>3
<1>7. t = old
  BY <1>4, <1>5, <1>6
<1> QED
  BY <1>1, <1>3, <1>7 DEF t, v

\* A withdrawal needs no more tokens than the position has exactly when it asks
\* for no more than the position is worth.
LEMMA ClaimCovers ==
    ASSUME NEW old \in Nat, NEW s \in Nat \ {0}, NEW r \in Nat \ {0}, NEW n \in Nat
    PROVE  MulDivCeil(n, s, r) <= old <=> n <= MulDivFloor(old, r, s)
<1>1. ASSUME MulDivCeil(n, s, r) <= old PROVE n <= MulDivFloor(old, r, s)
  <2> DEFINE t == MulDivCeil(n, s, r)
  <2>1. t \in Nat /\ n * s <= t * r /\ t <= old
    BY <1>1, CeilBounds
  <2> HIDE DEF t
  <2>2. t * r <= old * r
    BY <2>1, Monotone
  <2>3. n * s <= old * r
    BY <2>1, <2>2
  <2> QED
    BY <2>3, FloorIsLargest
<1>2. ASSUME n <= MulDivFloor(old, r, s) PROVE MulDivCeil(n, s, r) <= old
  <2> DEFINE v == MulDivFloor(old, r, s)
  <2>1. v \in Nat /\ v * s <= old * r /\ n <= v
    BY <1>2, FloorBounds
  <2> HIDE DEF v
  <2>2. n * s <= v * s
    BY <2>1, Monotone
  <2>3. n * s <= old * r
    BY <2>1, <2>2
  <2> QED
    BY <2>3, CeilIsSmallest
<1> QED
  BY <1>1, <1>2

-----------------------------------------------------------------------------
(* The pool's answers.                                                     *)

RateSet == {rate \in [b : Nat, d : Nat] : rate.b >= RATE_SCALE /\ rate.d >= RATE_SCALE}

LEMMA RateFacts ==
    ASSUME NEW rate \in RateSet, NEW kind \in PoolKind
    PROVE  /\ RATE_SCALE \in Nat \ {0}
           /\ RateOf(kind, rate) \in Nat \ {0} /\ RATE_SCALE <= RateOf(kind, rate)
           /\ rate.b \in Nat \ {0} /\ RATE_SCALE <= rate.b
           /\ rate.d \in Nat \ {0} /\ RATE_SCALE <= rate.d
<1>1. /\ RATE_SCALE \in Nat \ {0} /\ rate.b \in Nat /\ rate.d \in Nat
      /\ rate.b >= RATE_SCALE /\ rate.d >= RATE_SCALE
  BY RateAssumption DEF RateSet
<1> QED
  BY <1>1 DEF RateOf

LEMMA Kinds ==
    /\ PoolKind = {"withdraw", "supply", "collateral", "release", "borrow", "repay"}
    /\ Side["withdraw"] = "supply" /\ Side["supply"] = "supply"
    /\ Side["collateral"] = "collateral" /\ Side["release"] = "collateral"
    /\ Side["borrow"] = "debt" /\ Side["repay"] = "debt"
  BY DEF PoolKind, Side

\* The vault predicts the pool's answer to every request it makes.
LEMMA AnswerIsExpected ==
    ASSUME NEW kind \in PoolKind, NEW old \in Nat, NEW rate \in RateSet, NEW amount \in Nat
    PROVE  Submit(kind, old, rate, Requested(kind, old, rate, amount))
             = Expected(kind, old, rate, amount)
<1> DEFINE r == RateOf(kind, rate)
           s == RATE_SCALE
           expected == Expected(kind, old, rate, amount)
           asked == Requested(kind, old, rate, amount)
           answer == Submit(kind, old, rate, asked)
<1>1. s \in Nat \ {0} /\ r \in Nat \ {0} /\ s <= r
  BY RateFacts
<1>2. CASE kind \in Lends \cup {"borrow"}
  BY <1>2 DEF Submit, Expected, Requested, TokensOf, Lends, Withdraws
<1>3. CASE kind \in Withdraws
  <2> DEFINE value == ClaimValue(old, rate)
             t == MulDivCeil(amount, s, r)
  <2>1. /\ value = MulDivFloor(old, r, s) /\ value \in Nat
        /\ MulDivCeil(value, s, r) = old
        /\ t \in Nat /\ (t <= old <=> amount <= value)
    <3>1. r = rate.b
      BY <1>3, Kinds DEF RateOf, Withdraws
    <3>2. value = MulDivFloor(old, r, s)
      BY <3>1 DEF ClaimValue
    <3>3. /\ MulDivFloor(old, r, s) \in Nat
          /\ MulDivCeil(MulDivFloor(old, r, s), s, r) = old
      BY <1>1, ClaimCloses
    <3>4. t \in Nat
      BY <1>1, CeilBounds
    <3>5. t <= old <=> amount <= MulDivFloor(old, r, s)
      BY <1>1, ClaimCovers
    <3> HIDE DEF value, t, r, s
    <3> QED
      BY <3>2, <3>3, <3>4, <3>5
  <2>2. /\ asked = amount /\ TokensOf(kind, rate, amount) = t
        /\ kind \notin Lends /\ kind \notin {"repay", "borrow"}
    BY <1>3 DEF Requested, Withdraws, TokensOf, Lends
  <2> DEFINE n == Least(amount, value)
  <2>3. answer = [moved |-> n, tokens |-> old - MulDivCeil(n, s, r)]
    BY <1>3, <2>2 DEF Submit
  <2>4. expected = [moved |-> IF t > old THEN value ELSE amount,
                    tokens |-> old - Least(t, old)]
    BY <1>3, <2>2 DEF Expected
  <2>5. CASE t <= old
    <3>1. n = amount /\ Least(t, old) = t
      BY <2>1, <2>5 DEF Least
    <3> QED
      BY <2>1, <2>3, <2>4, <2>5, <3>1
  <2>6. CASE t > old
    <3>1. n = value /\ Least(t, old) = old
      BY <2>1, <2>6 DEF Least
    <3> QED
      BY <2>1, <2>3, <2>4, <2>6, <3>1
  <2> QED
    BY <2>1, <2>5, <2>6
<1>4. CASE kind = "repay"
  <2> DEFINE value == DebtValue(old, rate)
             n == Least(amount, value)
             t == MulDivFloor(n, s, r)
  <2>1. /\ value \in Nat /\ MulDivFloor(value, s, r) = old
    <3>1. r = rate.d
      BY <1>4, Kinds DEF RateOf
    <3>2. value = MulDivCeil(old, r, s)
      BY <3>1 DEF DebtValue
    <3> QED
      BY <1>1, <3>2, DebtCloses
  <2>2. n \in Nat /\ n <= value /\ Least(n, value) = n
    BY <2>1 DEF Least
  <2>3. t \in Nat /\ t <= old
    <3> HIDE DEF n, value, s, r
    <3> QED
      BY <1>1, <2>1, <2>2, FloorBounds, FloorMonotone
  <2>4. Least(t, old) = t
    BY <2>3 DEF Least
  <2>5. asked = n /\ TokensOf(kind, rate, n) = t
    BY <1>4 DEF Requested, TokensOf, Withdraws
  <2>6. answer = [moved |-> n, tokens |-> old - t]
    BY <1>4, <2>2, <2>5 DEF Submit, Lends, Withdraws
  <2>7. expected = [moved |-> n, tokens |-> old - t]
    BY <1>4, <2>4, <2>5 DEF Expected, Withdraws
  <2> QED
    BY <2>6, <2>7
<1> QED
  BY <1>2, <1>3, <1>4, Kinds DEF Lends, Withdraws

LEMMA ExpectedType ==
    ASSUME NEW kind \in PoolKind, NEW old \in Nat, NEW rate \in RateSet, NEW amount \in Nat
    PROVE  /\ Expected(kind, old, rate, amount).moved \in Nat
           /\ Expected(kind, old, rate, amount).tokens \in Nat
<1> DEFINE n == Requested(kind, old, rate, amount)
           t == TokensOf(kind, rate, n)
<1>1. /\ RATE_SCALE \in Nat \ {0} /\ RateOf(kind, rate) \in Nat \ {0}
      /\ rate.b \in Nat /\ rate.d \in Nat
  BY RateFacts
<1>2. DebtValue(old, rate) \in Nat /\ ClaimValue(old, rate) \in Nat
  BY <1>1, FloorBounds, CeilBounds DEF DebtValue, ClaimValue
<1>3. n \in Nat
  BY <1>2 DEF Requested, Least
<1> HIDE DEF n
<1>4. t \in Nat
  BY <1>1, <1>3, FloorBounds, CeilBounds DEF TokensOf
<1>5. Expected(kind, old, rate, amount) =
        [moved  |-> IF kind \in Withdraws /\ t > old THEN ClaimValue(old, rate) ELSE n,
         tokens |-> IF kind \in Withdraws \cup {"repay"} THEN old - Least(t, old)
                    ELSE old + t]
  BY DEF Expected, n
<1> HIDE DEF t
<1> QED
  BY <1>2, <1>3, <1>4, <1>5 DEF Least

\* Asking for all of a claim closes the position.
LEMMA WithdrawalCloses ==
    ASSUME NEW kind \in Withdraws, NEW old \in Nat \ {0}, NEW rate \in RateSet
    PROVE  /\ ClaimValue(old, rate) \in Nat \ {0}
           /\ Expected(kind, old, rate, ClaimValue(old, rate))
                = [moved |-> ClaimValue(old, rate), tokens |-> 0]
           /\ Requestable(kind, old, rate, ClaimValue(old, rate))
<1> DEFINE value == ClaimValue(old, rate)
<1>1. kind \in PoolKind /\ RateOf(kind, rate) = rate.b /\ kind # "repay"
  BY Kinds DEF Withdraws, RateOf
<1>2. value \in Nat /\ old <= value /\ MulDivCeil(value, RATE_SCALE, rate.b) = old
  BY <1>1, RateFacts, ClaimCloses DEF ClaimValue
<1> HIDE DEF value
<1>3. Requested(kind, old, rate, value) = value /\ TokensOf(kind, rate, value) = old
  BY <1>1, <1>2 DEF Requested, TokensOf
<1>4. Expected(kind, old, rate, value) = [moved |-> value, tokens |-> 0]
  BY <1>3 DEF Expected, Least
<1>5. value > 0
  BY <1>2
<1> QED
  BY <1>2, <1>3, <1>4, <1>5 DEF value, Requestable

\* Asking for all of a debt closes it.
LEMMA RepaymentCloses ==
    ASSUME NEW old \in Nat \ {0}, NEW rate \in RateSet
    PROVE  /\ DebtValue(old, rate) \in Nat \ {0}
           /\ Expected("repay", old, rate, DebtValue(old, rate))
                = [moved |-> DebtValue(old, rate), tokens |-> 0]
           /\ Requestable("repay", old, rate, DebtValue(old, rate))
<1> DEFINE value == DebtValue(old, rate)
<1>1. "repay" \in PoolKind /\ RateOf("repay", rate) = rate.d /\ "repay" \notin Withdraws
  BY Kinds DEF Withdraws, RateOf
<1>2. value \in Nat /\ old <= value /\ MulDivFloor(value, RATE_SCALE, rate.d) = old
  BY <1>1, RateFacts, DebtCloses DEF DebtValue
<1>3. Requested("repay", old, rate, value) = value
  BY <1>2 DEF Requested, Least
<1> HIDE DEF value
<1>4. TokensOf("repay", rate, value) = old
  BY <1>1, <1>2 DEF TokensOf
<1>5. Expected("repay", old, rate, value) = [moved |-> value, tokens |-> 0]
  BY <1>1, <1>3, <1>4 DEF Expected, Least
<1>6. value > 0
  BY <1>2
<1> QED
  BY <1>2, <1>3, <1>5, <1>6 DEF value, Requestable

\* A withdrawal takes no more than the claim falls by.
LEMMA WithdrawalIsCovered ==
    ASSUME NEW kind \in Withdraws, NEW old \in Nat, NEW rate \in RateSet, NEW amount \in Nat,
           NEW new, new = Expected(kind, old, rate, amount)
    PROVE  /\ new.moved \in Nat /\ new.tokens \in Nat /\ new.tokens <= old
           /\ ClaimValue(new.tokens, rate) + new.moved <= ClaimValue(old, rate)
<1> DEFINE s == RATE_SCALE
           r == rate.b
           value == ClaimValue(old, rate)
           t == MulDivCeil(amount, s, r)
<1>1. kind \in PoolKind /\ RateOf(kind, rate) = rate.b /\ kind # "repay"
  BY Kinds DEF Withdraws, RateOf
<1>2. s \in Nat \ {0} /\ r \in Nat \ {0}
  BY <1>1, RateFacts
<1>3. new = [moved |-> IF t > old THEN value ELSE amount, tokens |-> old - Least(t, old)]
  BY <1>1 DEF Expected, Requested, TokensOf
<1>4. value \in Nat /\ t \in Nat /\ amount * s <= t * r
  BY <1>2, FloorBounds, CeilBounds DEF ClaimValue
<1>5. CASE t > old
  <2>1. new.moved = value /\ new.tokens = 0
    BY <1>3, <1>4, <1>5 DEF Least
  <2>2. ClaimValue(0, rate) = 0
    <3>1. 0 * r = 0 /\ 0 \div s = 0
      BY <1>2
    <3> QED
      BY <3>1 DEF ClaimValue, MulDivFloor
  <2> QED
    BY <1>4, <2>1, <2>2
<1>6. CASE t <= old
  <2>1. new.moved = amount /\ new.tokens = old - t
    BY <1>3, <1>4, <1>6 DEF Least
  <2>2. amount <= MulDivFloor(t, r, s)
    BY <1>2, <1>4, FloorIsLargest
  <2>3. old - t \in Nat /\ (old - t) + t = old
    BY <1>4, <1>6
  <2>4. MulDivFloor(old - t, r, s) + MulDivFloor(t, r, s) <= MulDivFloor(old, r, s)
    BY <1>2, <1>4, <2>3, FloorSplits
  <2>5. /\ MulDivFloor(old - t, r, s) \in Nat /\ MulDivFloor(t, r, s) \in Nat
        /\ MulDivFloor(old, r, s) \in Nat
    BY <1>2, <1>4, <2>3, FloorBounds
  <2> HIDE DEF t
  <2> QED
    BY <2>1, <2>2, <2>3, <2>4, <2>5, <1>4 DEF ClaimValue
<1> QED
  BY <1>4, <1>5, <1>6

\* A repayment lowers the debt by at most what it costs.
LEMMA RepaymentIsCovered ==
    ASSUME NEW old \in Nat, NEW rate \in RateSet, NEW amount \in Nat,
           NEW new, new = Expected("repay", old, rate, amount)
    PROVE  /\ new.moved \in Nat /\ new.tokens \in Nat /\ new.tokens <= old
           /\ DebtValue(old, rate) <= DebtValue(new.tokens, rate) + new.moved
<1> DEFINE s == RATE_SCALE
           r == rate.d
           value == DebtValue(old, rate)
           n == Least(amount, value)
           t == MulDivFloor(n, s, r)
<1>1. "repay" \in PoolKind /\ RateOf("repay", rate) = rate.d /\ "repay" \notin Withdraws
  BY Kinds DEF Withdraws, RateOf
<1>2. s \in Nat \ {0} /\ r \in Nat \ {0} /\ s <= r
  BY <1>1, RateFacts
<1>3. value \in Nat /\ MulDivFloor(value, s, r) = old
  BY <1>2, DebtCloses DEF ClaimValue, DebtValue
<1>4. n \in Nat /\ n <= value
  BY <1>3 DEF Least
<1>5. t \in Nat /\ t <= old /\ t * r <= n * s
  <2> HIDE DEF n, value, s, r
  <2> QED
    BY <1>2, <1>3, <1>4, FloorBounds, FloorMonotone
<1>6. new = [moved |-> n, tokens |-> old - Least(t, old)]
  BY <1>1 DEF Expected, Requested, TokensOf
<1> HIDE DEF t, n
<1>7. new.moved = n /\ new.tokens = old - t
  BY <1>5, <1>6 DEF Least
<1>8. MulDivCeil(t, r, s) <= n /\ MulDivCeil(t, r, s) \in Nat
  BY <1>2, <1>4, <1>5, CeilIsSmallest, CeilBounds
<1>9. old - t \in Nat /\ (old - t) + t = old
  BY <1>5
<1>10. /\ MulDivCeil(old, r, s) <= MulDivCeil(old - t, r, s) + MulDivCeil(t, r, s)
       /\ MulDivCeil(old - t, r, s) \in Nat /\ MulDivCeil(old, r, s) \in Nat
  <2> DEFINE rest == old - t
  <2>1. rest \in Nat /\ rest + t = old
    BY <1>9
  <2> HIDE DEF rest
  <2>2. MulDivCeil(rest + t, r, s) <= MulDivCeil(rest, r, s) + MulDivCeil(t, r, s)
    BY <1>2, <1>5, <2>1, CeilSplits
  <2> QED
    BY <1>2, <2>1, <2>2, CeilBounds DEF rest
<1> QED
  BY <1>4, <1>5, <1>7, <1>8, <1>9, <1>10 DEF DebtValue

-----------------------------------------------------------------------------
(* Legs.                                                                   *)

StateSet == [spot : [Asset -> Nat], positions : [Asset -> PositionSet], bought : Nat]

LEMMA Typed ==
    ASSUME RecoveryTypeOK
    PROVE  /\ spot \in [Asset -> Nat] /\ positions \in [Asset -> PositionSet]
           /\ Now \in StateSet /\ price \in Nat /\ oracle \in Nat
           /\ rates \in [Asset -> RateSet]
<1>1. /\ rates \in [Asset -> [b : Nat, d : Nat]] /\ price \in Nat /\ oracle \in Nat
      /\ \A a \in Asset : rates[a].b >= RATE_SCALE /\ rates[a].d >= RATE_SCALE
  BY RecoveryAssumption DEF RecoveryTypeOK
<1> QED
  BY <1>1 DEF RecoveryTypeOK, Now, StateSet, RateSet

\* A state whose spot of one asset and whose side of one position are replaced.
Moved(x, a, cash, side, tokens) ==
    [x EXCEPT !.spot[a] = @ + cash, !.positions[a][side] = tokens]

LEMMA MovedFacts ==
    ASSUME NEW x \in StateSet, NEW a \in Asset, NEW cash \in Int, x.spot[a] + cash \in Nat,
           NEW side \in {"supply", "collateral", "debt"}, NEW tokens \in Nat,
           NEW y, y = Moved(x, a, cash, side, tokens)
    PROVE  /\ y \in StateSet /\ y.bought = x.bought
           /\ y.spot[a] = x.spot[a] + cash
           /\ y.positions[a][side] = tokens
           /\ \A s \in {"supply", "collateral", "debt"} \ {side} :
                 y.positions[a][s] = x.positions[a][s]
           /\ \A b \in Asset \ {a} :
                 y.spot[b] = x.spot[b] /\ y.positions[b] = x.positions[b]
<1> DEFINE p == [x.positions EXCEPT ![a] = [@ EXCEPT ![side] = tokens]]
           q == [x.spot EXCEPT ![a] = @ + cash]
<1>1. x.spot \in [Asset -> Nat] /\ x.positions \in [Asset -> PositionSet] /\ x.bought \in Nat
  BY DEF StateSet
<1>2. y = [x EXCEPT !.spot = q, !.positions = p]
  BY DEF Moved
<1>3. y.spot = q /\ y.positions = p /\ y.bought = x.bought
      /\ y = [spot |-> q, positions |-> p, bought |-> x.bought]
  BY <1>2 DEF StateSet
<1>4. q \in [Asset -> Nat] /\ q[a] = x.spot[a] + cash
      /\ \A b \in Asset \ {a} : q[b] = x.spot[b]
  BY <1>1
<1>5. x.positions[a] \in PositionSet
  BY <1>1
<1>6. /\ [x.positions[a] EXCEPT ![side] = tokens] \in PositionSet
      /\ [x.positions[a] EXCEPT ![side] = tokens][side] = tokens
      /\ \A s \in {"supply", "collateral", "debt"} \ {side} :
            [x.positions[a] EXCEPT ![side] = tokens][s] = x.positions[a][s]
  <2>1. CASE side = "supply"
    BY <1>5, <2>1 DEF PositionSet
  <2>2. CASE side = "collateral"
    BY <1>5, <2>2 DEF PositionSet
  <2>3. CASE side = "debt"
    BY <1>5, <2>3 DEF PositionSet
  <2> QED
    BY <2>1, <2>2, <2>3
<1>7. p \in [Asset -> PositionSet] /\ p[a] = [x.positions[a] EXCEPT ![side] = tokens]
      /\ \A b \in Asset \ {a} : p[b] = x.positions[b]
  BY <1>1, <1>6
<1> HIDE DEF p, q
<1> QED
  BY <1>1, <1>3, <1>4, <1>6, <1>7 DEF StateSet

\* What the pool answers a leg, and the cash that brings the vault.
Answer(x, leg) ==
    Expected(leg.kind, x.positions[leg.asset][Side[leg.kind]], rates[leg.asset], leg.amount)

CashFlow(x, leg) ==
    IF leg.kind \in Lends \cup {"repay"} THEN -Answer(x, leg).moved ELSE Answer(x, leg).moved

\* What pool_action leaves: the pool's answer, which is the expected one.
LEMMA PoolFacts ==
    ASSUME RecoveryTypeOK, NEW x \in StateSet,
           NEW leg, leg.kind \in PoolKind, leg.asset \in Asset, leg.amount \in Nat,
           NEW y \in PoolResults(x, leg)
    PROVE  /\ Answer(x, leg).moved \in Nat /\ Answer(x, leg).tokens \in Nat
           /\ y \in StateSet /\ y.bought = x.bought
           /\ y.spot[leg.asset] = x.spot[leg.asset] + CashFlow(x, leg)
           /\ y.positions[leg.asset][Side[leg.kind]] = Answer(x, leg).tokens
           /\ \A s \in {"supply", "collateral", "debt"} \ {Side[leg.kind]} :
                 y.positions[leg.asset][s] = x.positions[leg.asset][s]
           /\ \A b \in Asset \ {leg.asset} :
                 y.spot[b] = x.spot[b] /\ y.positions[b] = x.positions[b]
<1> DEFINE a      == leg.asset
           side   == Side[leg.kind]
           cash   == CashFlow(x, leg)
           moved  == Answer(x, leg).moved
           tokens == Answer(x, leg).tokens
<1>1. side \in {"supply", "collateral", "debt"} /\ a \in Asset
      /\ x.positions[a][side] \in Nat /\ x.spot[a] \in Nat /\ rates[a] \in RateSet
  BY Kinds, Typed DEF StateSet, PositionSet
<1>2. moved \in Nat /\ tokens \in Nat
  BY <1>1, ExpectedType DEF Answer
<1>3. cash = -moved \/ cash = moved
  BY Zenon DEF CashFlow
<1>4. x.spot[a] >= -cash /\ y = Moved(x, a, cash, side, tokens)
  BY DEF PoolResults, Moved, Affords, Answer, CashFlow
<1> HIDE DEF a, side, cash, moved, tokens
<1>5. cash \in Int
  BY <1>2, <1>3
<1>6. x.spot[a] + cash \in Nat
  BY <1>1, <1>4, <1>5
<1>7. /\ y \in StateSet /\ y.bought = x.bought
      /\ y.spot[a] = x.spot[a] + cash
      /\ y.positions[a][side] = tokens
      /\ \A s \in {"supply", "collateral", "debt"} \ {side} :
            y.positions[a][s] = x.positions[a][s]
      /\ \A b \in Asset \ {a} : y.spot[b] = x.spot[b] /\ y.positions[b] = x.positions[b]
  BY <1>1, <1>2, <1>4, <1>5, <1>6, MovedFacts
<1> QED
  BY <1>2, <1>7 DEF a, side, cash, moved, tokens

\* pool_action takes a request it can make whenever the vault can pay for it.
LEMMA PoolAccepts ==
    ASSUME RecoveryTypeOK, NEW x \in StateSet, NEW kind \in PoolKind, NEW a \in Asset,
           NEW amount \in Nat, kind # "supply",
           NEW side, side = Side[kind],
           NEW new, new = Expected(kind, x.positions[a][side], rates[a], amount),
           NEW cash, cash = IF kind \in Lends \cup {"repay"} THEN -new.moved ELSE new.moved,
           Requestable(kind, x.positions[a][side], rates[a], amount),
           x.spot[a] >= -cash
    PROVE  Moved(x, a, cash, side, new.tokens)
             \in PoolResults(x, [kind |-> kind, asset |-> a, amount |-> amount])
<1> DEFINE leg  == [kind |-> kind, asset |-> a, amount |-> amount]
<1>1. leg.kind = kind /\ leg.asset = a /\ leg.amount = amount
  OBVIOUS
<1>2. rates[a] \in RateSet
  BY Typed
<1>3. side \in {"supply", "collateral", "debt"} /\ x.positions[a][side] \in Nat
      /\ x.spot[a] \in Nat
  BY Kinds DEF StateSet, PositionSet
<1>4. Submit(kind, x.positions[a][side], rates[a],
             Requested(kind, x.positions[a][side], rates[a], amount)) = new
  BY <1>2, <1>3, AnswerIsExpected
<1> HIDE DEF leg
<1>5. Affords(x, a, -cash)
  BY DEF Affords
<1>6. /\ Side[leg.kind] = side /\ leg.asset = a
      /\ Expected(leg.kind, x.positions[leg.asset][side], rates[leg.asset], leg.amount)
           = new
      /\ (IF leg.kind \in Lends \cup {"repay"} THEN -new.moved ELSE new.moved) = cash
      /\ Requestable(leg.kind, x.positions[leg.asset][side], rates[leg.asset], leg.amount)
      /\ leg.kind # "supply" /\ Affords(x, leg.asset, -cash)
      /\ Submit(leg.kind, x.positions[leg.asset][side], rates[leg.asset],
                Requested(leg.kind, x.positions[leg.asset][side], rates[leg.asset],
                          leg.amount)) = new
  BY <1>1, <1>4, <1>5
<1>7. PoolResults(x, leg) = {Moved(x, a, cash, side, new.tokens)}
  BY <1>6 DEF PoolResults, Moved
<1> QED
  BY <1>7 DEF leg

\* A swap moves spot balances, and only the capped purchase counts as bought.
LEMMA SwapFacts ==
    ASSUME RecoveryTypeOK, NEW x \in StateSet, NEW leg \in LegSet, NEW recovery \in BOOLEAN,
           NEW y \in SwapResults(x, leg, recovery)
    PROVE  /\ y \in StateSet /\ y.positions = x.positions
           /\ recovery => y.spot[Other] + x.bought <= x.spot[Other] + y.bought
<1> DEFINE out    == IF leg.asset = Usdc THEN Other ELSE Usdc
           capped == recovery /\ out # Usdc
           q(n)   == [x.spot EXCEPT ![leg.asset] = @ - leg.amount, ![out] = @ + n]
<1>1. /\ Usdc # Other /\ Usdc \in Asset /\ Other \in Asset
      /\ leg.asset \in {Usdc, Other} /\ leg.amount \in Nat
      /\ x.spot \in [Asset -> Nat] /\ x.bought \in Nat /\ x.positions \in [Asset -> PositionSet]
  BY RecoveryAssumption DEF Asset, LegSet, StateSet
<1>2. x.spot[leg.asset] >= leg.amount
  BY DEF SwapResults, Affords
<1>3. PICK n \in Nat :
        y = [x EXCEPT !.spot = q(n), !.bought = IF capped THEN @ + n ELSE @]
  <2>1. PICK n \in Fills(MulDivCeil(leg.amount, MarkOf(leg.asset), PRICE_SCALE), out) :
          y = [x EXCEPT !.spot[leg.asset] = @ - leg.amount,
                        !.spot[out]       = @ + n,
                        !.bought          = IF capped THEN @ + n ELSE @]
    BY DEF SwapResults
  <2>2. n \in Nat
    BY <2>1 DEF Fills
  <2> QED
    BY <2>1, <2>2
<1> DEFINE spent == q(n)
<1>4. /\ spent \in [Asset -> Nat]
      /\ spent[leg.asset] = x.spot[leg.asset] - leg.amount
      /\ spent[out] = x.spot[out] + n
  BY <1>1, <1>2, <1>3
<1> HIDE DEF spent, q
<1>5. y = [spot |-> spent, positions |-> x.positions,
           bought |-> IF capped THEN x.bought + n ELSE x.bought]
  BY <1>3 DEF StateSet, spent
<1>6. y \in StateSet /\ y.positions = x.positions /\ y.spot = spent
      /\ y.bought = IF capped THEN x.bought + n ELSE x.bought
  <2> DEFINE total == IF capped THEN x.bought + n ELSE x.bought
  <2>1. total \in Nat
    BY <1>1, <1>3
  <2>2. y = [spot |-> spent, positions |-> x.positions, bought |-> total]
    BY <1>5
  <2> HIDE DEF total
  <2>3. y \in StateSet /\ y.positions = x.positions /\ y.spot = spent /\ y.bought = total
    BY <1>1, <1>4, <2>1, <2>2 DEF StateSet
  <2> QED
    BY <2>3 DEF total
<1>7. ASSUME recovery PROVE y.spot[Other] + x.bought <= x.spot[Other] + y.bought
  <2>1. x.spot[Other] \in Nat /\ x.spot[leg.asset] \in Nat
    BY <1>1
  <2>2. CASE leg.asset = Usdc
    BY <1>1, <1>3, <1>4, <1>6, <1>7, <2>1, <2>2
  <2>3. CASE leg.asset = Other
    BY <1>1, <1>3, <1>4, <1>6, <1>7, <2>1, <2>3
  <2> QED
    BY <1>1, <2>2, <2>3
<1> QED
  BY <1>6, <1>7

-----------------------------------------------------------------------------
(* What a whole run of legs keeps.                                         *)

\* Of the other asset the vault holds no more than it held, less what it repaid
\* of it, plus what it bought of it.
Balanced(x, y) ==
    Gross(y, Other) + Owed(x, Other) + x.bought <= Gross(x, Other) + Owed(y, Other) + y.bought

Frugal(legs) == \A i \in DOMAIN legs : legs[i].kind \in {"swap", "repay"} \cup Withdraws

LEMMA ValuesAreNat ==
    ASSUME RecoveryTypeOK, NEW x \in StateSet, NEW a \in Asset
    PROVE  /\ Supplied(x, a) \in Nat /\ Pledged(x, a) \in Nat /\ Owed(x, a) \in Nat
           /\ Gross(x, a) \in Nat
           /\ x.spot[a] \in Nat /\ x.bought \in Nat
           /\ x.positions[a].supply \in Nat /\ x.positions[a].collateral \in Nat
           /\ x.positions[a].debt \in Nat
<1>1. rates[a] \in RateSet /\ RATE_SCALE \in Nat \ {0}
  BY Typed, RateAssumption
<1>2. rates[a].b \in Nat /\ rates[a].d \in Nat
  BY <1>1 DEF RateSet
<1>3. /\ x.positions[a].supply \in Nat /\ x.positions[a].collateral \in Nat
      /\ x.positions[a].debt \in Nat /\ x.spot[a] \in Nat /\ x.bought \in Nat
  BY DEF StateSet, PositionSet
<1>4. Supplied(x, a) \in Nat /\ Pledged(x, a) \in Nat /\ Owed(x, a) \in Nat
  BY <1>1, <1>2, <1>3, FloorBounds, CeilBounds
     DEF Supplied, Pledged, Owed, ClaimValue, DebtValue
<1> QED
  BY <1>3, <1>4 DEF Gross

LEMMA LegKeepsType ==
    ASSUME RecoveryTypeOK, NEW x \in StateSet, NEW leg \in LegSet, NEW recovery \in BOOLEAN,
           NEW y \in LegResults(x, leg, recovery)
    PROVE  y \in StateSet
<1>1. CASE leg.kind = "swap"
  BY <1>1, SwapFacts DEF LegResults
<1>2. CASE leg.kind # "swap"
  <2>1. /\ leg.kind \in PoolKind /\ leg.asset \in Asset /\ leg.amount \in Nat
        /\ y \in PoolResults(x, leg)
    <3>1. leg.kind \in PoolKind /\ leg.asset \in Asset /\ leg.amount \in Nat
      BY <1>2 DEF LegSet
    <3>2. y \in PoolResults(x, leg)
      BY <1>2 DEF LegResults
    <3> QED
      BY <3>1, <3>2
  <2> QED
    BY <2>1, PoolFacts
<1> QED
  BY <1>1, <1>2

LEMMA LegTrades ==
    ASSUME RecoveryTypeOK, NEW x \in StateSet, NEW leg \in LegSet,
           leg.kind \in {"swap", "repay"} \cup Withdraws,
           NEW y \in LegResults(x, leg, TRUE)
    PROVE  Balanced(x, y)
<1>0. Usdc # Other /\ Usdc \in Asset /\ Other \in Asset /\ leg.asset \in Asset
  BY RecoveryAssumption DEF Asset, LegSet
<1>1. y \in StateSet
  BY LegKeepsType
<1>2. /\ \A z \in {x, y} : /\ Supplied(z, Other) \in Nat /\ Pledged(z, Other) \in Nat
                           /\ Owed(z, Other) \in Nat /\ z.spot[Other] \in Nat
                           /\ z.bought \in Nat
  BY <1>0, <1>1, ValuesAreNat
<1>3. CASE leg.kind = "swap"
  <2>1. y.positions = x.positions /\ y.spot[Other] + x.bought <= x.spot[Other] + y.bought
    BY <1>3, SwapFacts DEF LegResults
  <2>2. /\ Supplied(y, Other) = Supplied(x, Other) /\ Pledged(y, Other) = Pledged(x, Other)
        /\ Owed(y, Other) = Owed(x, Other)
    BY <2>1 DEF Supplied, Pledged, Owed
  <2> QED
    BY <1>2, <2>1, <2>2 DEF Balanced, Gross
<1>4. CASE leg.kind # "swap"
  <2>1. /\ leg.kind \in Withdraws \cup {"repay"} /\ leg.kind \in PoolKind
        /\ leg.amount \in Nat /\ y \in PoolResults(x, leg)
    <3>1. /\ leg.kind \in Withdraws \cup {"repay"} /\ leg.kind \in PoolKind
          /\ leg.amount \in Nat
      BY <1>4 DEF LegSet
    <3>2. y \in PoolResults(x, leg)
      BY <1>4 DEF LegResults
    <3> QED
      BY <3>1, <3>2
  <2> DEFINE a    == leg.asset
             side == Side[leg.kind]
             old  == x.positions[a][side]
             new  == Answer(x, leg)
             cash == CashFlow(x, leg)
  <2>2. /\ new.moved \in Nat /\ y.bought = x.bought
        /\ y.spot[a] = x.spot[a] + cash
        /\ y.positions[a][side] = new.tokens
        /\ \A s \in {"supply", "collateral", "debt"} \ {side} :
              y.positions[a][s] = x.positions[a][s]
        /\ \A b \in Asset \ {a} :
              y.spot[b] = x.spot[b] /\ y.positions[b] = x.positions[b]
    BY <1>0, <2>1, PoolFacts
  <2>3. side \in {"supply", "collateral", "debt"}
    BY <2>1, Kinds
  <2>4. old \in Nat /\ rates[a] \in RateSet
    BY <1>0, <2>3, Typed DEF StateSet, PositionSet
  <2>5. leg.kind \in Withdraws =>
          /\ cash = new.moved
          /\ ClaimValue(new.tokens, rates[a]) + new.moved <= ClaimValue(old, rates[a])
    BY <2>1, <2>4, WithdrawalIsCovered DEF Lends, Withdraws, Answer, CashFlow
  <2>6. leg.kind = "repay" =>
          /\ cash = -new.moved
          /\ DebtValue(old, rates[a]) <= DebtValue(new.tokens, rates[a]) + new.moved
    <3> DEFINE paid == Expected("repay", old, rates[a], leg.amount)
    <3>1. DebtValue(old, rates[a]) <= DebtValue(paid.tokens, rates[a]) + paid.moved
      BY <2>1, <2>4, RepaymentIsCovered
    <3> QED
      BY <3>1 DEF Answer, CashFlow
  <2> HIDE DEF new, cash
  <2>8. CASE a # Other
    <3>1. y.spot[Other] = x.spot[Other] /\ y.positions[Other] = x.positions[Other]
      BY <1>0, <2>2, <2>8
    <3>2. /\ Supplied(y, Other) = Supplied(x, Other) /\ Pledged(y, Other) = Pledged(x, Other)
          /\ Owed(y, Other) = Owed(x, Other)
      BY <3>1 DEF Supplied, Pledged, Owed
    <3> QED
      BY <1>2, <2>2, <3>1, <3>2 DEF Balanced, Gross
  <2>9. CASE a = Other
    <3>1. CASE leg.kind = "withdraw"
      <4>1. /\ side = "supply" /\ y.positions[Other].collateral = x.positions[Other].collateral
            /\ y.positions[Other].debt = x.positions[Other].debt
            /\ y.positions[Other].supply = new.tokens /\ x.positions[Other].supply = old
        BY <2>2, <2>9, <3>1, Kinds
      <4>2. /\ Supplied(y, Other) + new.moved <= Supplied(x, Other)
            /\ Pledged(y, Other) = Pledged(x, Other) /\ Owed(y, Other) = Owed(x, Other)
            /\ y.spot[Other] = x.spot[Other] + new.moved
        BY <2>5, <2>2, <2>9, <3>1, <4>1 DEF Supplied, Pledged, Owed, Withdraws
      <4> QED
        BY <1>2, <2>2, <4>2 DEF Balanced, Gross
    <3>2. CASE leg.kind = "release"
      <4>1. /\ side = "collateral" /\ y.positions[Other].supply = x.positions[Other].supply
            /\ y.positions[Other].debt = x.positions[Other].debt
            /\ y.positions[Other].collateral = new.tokens
            /\ x.positions[Other].collateral = old
        BY <2>2, <2>9, <3>2, Kinds
      <4>2. /\ Pledged(y, Other) + new.moved <= Pledged(x, Other)
            /\ Supplied(y, Other) = Supplied(x, Other) /\ Owed(y, Other) = Owed(x, Other)
            /\ y.spot[Other] = x.spot[Other] + new.moved
        BY <2>5, <2>2, <2>9, <3>2, <4>1 DEF Supplied, Pledged, Owed, Withdraws
      <4> QED
        BY <1>2, <2>2, <4>2 DEF Balanced, Gross
    <3>3. CASE leg.kind = "repay"
      <4>1. /\ side = "debt" /\ y.positions[Other].supply = x.positions[Other].supply
            /\ y.positions[Other].collateral = x.positions[Other].collateral
            /\ y.positions[Other].debt = new.tokens /\ x.positions[Other].debt = old
        BY <2>2, <2>9, <3>3, Kinds
      <4>2. /\ Owed(x, Other) <= Owed(y, Other) + new.moved
            /\ Supplied(y, Other) = Supplied(x, Other)
            /\ Pledged(y, Other) = Pledged(x, Other)
            /\ y.spot[Other] = x.spot[Other] - new.moved
        BY <1>2, <2>2, <2>6, <2>2, <2>9, <3>3, <4>1 DEF Supplied, Pledged, Owed
      <4> QED
        BY <1>2, <2>2, <4>2 DEF Balanced, Gross
    <3> QED
      BY <2>1, <3>1, <3>2, <3>3 DEF Withdraws
  <2> QED
    BY <2>8, <2>9
<1> QED
  BY <1>3, <1>4

-----------------------------------------------------------------------------
(* Runs.                                                                   *)

Stages(g, legs, recovery, n) ==
    g = [i \in 0 .. n |->
           IF i = 0 THEN {Now}
           ELSE UNION {LegResults(x, legs[i], recovery) : x \in g[i - 1]}]

LEMMA StagesExist ==
    ASSUME NEW legs, NEW recovery, NEW n \in Nat
    PROVE  \E g : Stages(g, legs, recovery, n)
<1> DEFINE S == {m \in Nat : \E g : Stages(g, legs, recovery, m)}
<1>1. 0 \in S
  <2> DEFINE g == [i \in 0 .. 0 |-> {Now}]
  <2>1. Stages(g, legs, recovery, 0)
    BY DEF Stages
  <2> QED
    BY <2>1
<1>2. ASSUME NEW m \in Nat, m \in S PROVE m + 1 \in S
  <2>1. PICK g : Stages(g, legs, recovery, m)
    BY <1>2
  <2> DEFINE last == UNION {LegResults(x, legs[m + 1], recovery) : x \in g[m]}
             k == [i \in 0 .. m + 1 |-> IF i = m + 1 THEN last ELSE g[i]]
  <2>2. \A i \in 0 .. m + 1 :
          k[i] = IF i = 0 THEN {Now}
                 ELSE UNION {LegResults(x, legs[i], recovery) : x \in k[i - 1]}
    <3> TAKE i \in 0 .. m + 1
    <3>1. CASE i = 0
      BY <2>1, <3>1 DEF Stages
    <3>2. CASE i = m + 1
      <4>1. k[i] = last /\ k[i - 1] = g[m] /\ i # 0
        BY <3>2
      <4> QED
        BY <3>2, <4>1
    <3>3. CASE i \in 1 .. m
      <4>1. k[i] = g[i] /\ k[i - 1] = g[i - 1] /\ i # 0
        BY <3>3
      <4>2. g[i] = UNION {LegResults(x, legs[i], recovery) : x \in g[i - 1]}
        BY <2>1, <3>3 DEF Stages
      <4> QED
        BY <4>1, <4>2
    <3> QED
      BY <3>1, <3>2, <3>3
  <2>3. k = [i \in 0 .. m + 1 |-> k[i]]
    OBVIOUS
  <2> HIDE DEF k
  <2>4. Stages(k, legs, recovery, m + 1)
    BY <2>2, <2>3 DEF Stages
  <2> QED
    BY <2>4
<1> HIDE DEF S
<1>3. Nat \subseteq S
  BY <1>1, <1>2, Induct
<1> QED
  BY <1>3 DEF S

LEMMA NowIsState ==
    ASSUME RecoveryTypeOK
    PROVE  Now \in StateSet /\ Now.spot = spot /\ Now.positions = positions /\ Now.bought = 0
  BY Typed DEF Now

LEMMA BalancedChains ==
    ASSUME RecoveryTypeOK, NEW x \in StateSet, NEW y \in StateSet, NEW z \in StateSet,
           Balanced(x, y), Balanced(y, z)
    PROVE  Balanced(x, z)
<1> DEFINE gx == Gross(x, Other)
           gy == Gross(y, Other)
           gz == Gross(z, Other)
           ox == Owed(x, Other)
           oy == Owed(y, Other)
           oz == Owed(z, Other)
           bx == x.bought
           by == y.bought
           bz == z.bought
<1>1. Other \in Asset
  BY DEF Asset
<1>2. /\ gx \in Nat /\ gy \in Nat /\ gz \in Nat /\ ox \in Nat /\ oy \in Nat /\ oz \in Nat
      /\ bx \in Nat /\ by \in Nat /\ bz \in Nat
  BY <1>1, ValuesAreNat
<1>3. gy + ox + bx <= gx + oy + by /\ gz + oy + by <= gy + oz + bz
  BY DEF Balanced
<1> HIDE DEF gx, gy, gz, ox, oy, oz, bx, by, bz
<1>4. gz + ox + bx <= gx + oz + bz
  BY <1>2, <1>3
<1> QED
  BY <1>4 DEF Balanced, gx, gz, ox, oz, bx, bz

LEMMA RunFacts ==
    ASSUME RecoveryTypeOK, NEW legs \in Seq(LegSet), NEW recovery \in BOOLEAN,
           NEW y \in Run(legs, recovery)
    PROVE  /\ y \in StateSet
           /\ (recovery /\ Frugal(legs)) => Balanced(Now, y)
<1> DEFINE n == Len(legs)
           after == CHOOSE g :
                      g = [i \in 0 .. n |->
                             IF i = 0 THEN {Now}
                             ELSE UNION {LegResults(x, legs[i], recovery) : x \in g[i - 1]}]
           frugal == recovery /\ Frugal(legs)
           Fine(x) == x \in StateSet /\ (frugal => Balanced(Now, x))
<1>1. n \in Nat /\ DOMAIN legs = 1 .. n /\ \A i \in 1 .. n : legs[i] \in LegSet
  BY ElementOfSeq, LenProperties
<1>2. Stages(after, legs, recovery, n)
  <2>1. \E g : Stages(g, legs, recovery, n)
    BY <1>1, StagesExist
  <2>2. after = CHOOSE g : Stages(g, legs, recovery, n)
    BY Zenon DEF Stages
  <2> HIDE DEF after
  <2> QED
    BY <2>1, <2>2
<1>3. y \in after[n]
  BY DEF Run
<1> HIDE DEF after, n
<1> DEFINE S == {i \in Nat : i <= n => \A x \in after[i] : Fine(x)}
<1>4. 0 \in S
  <2>1. after[0] = {Now}
    BY <1>1, <1>2 DEF Stages
  <2>2. Now \in StateSet /\ Balanced(Now, Now)
    <3>1. Other \in Asset
      BY DEF Asset
    <3> QED
      BY <3>1, NowIsState, ValuesAreNat DEF Balanced
  <2> QED
    BY <2>1, <2>2
<1>5. ASSUME NEW i \in Nat, i \in S PROVE i + 1 \in S
  <2> SUFFICES ASSUME i + 1 <= n, NEW z \in after[i + 1] PROVE Fine(z)
    OBVIOUS
  <2>1. i + 1 \in 1 .. n /\ (i + 1) - 1 = i /\ i <= n /\ i + 1 \in 0 .. n /\ i + 1 # 0
    BY <1>1
  <2>2. after[i + 1] = UNION {LegResults(x, legs[i + 1], recovery) : x \in after[i]}
    BY <1>2, <2>1 DEF Stages
  <2>3. PICK x \in after[i] : z \in LegResults(x, legs[i + 1], recovery)
    BY <2>2
  <2>4. Fine(x) /\ legs[i + 1] \in LegSet
    BY <1>1, <1>5, <2>1
  <2>5. z \in StateSet
    BY <2>3, <2>4, LegKeepsType
  <2>6. ASSUME frugal PROVE Balanced(Now, z)
    <3>1. legs[i + 1].kind \in {"swap", "repay"} \cup Withdraws
      BY <1>1, <2>1, <2>6 DEF Frugal
    <3>2. Balanced(x, z)
      BY <2>3, <2>4, <2>6, <3>1, LegTrades
    <3>3. Balanced(Now, x) /\ Other \in Asset
      BY <2>4, <2>6 DEF Asset
    <3> QED
      BY <2>4, <2>5, <3>2, <3>3, NowIsState, BalancedChains
  <2> QED
    BY <2>5, <2>6
<1>6. n \in S
  <2> HIDE DEF S
  <2> QED
    BY <1>1, <1>4, <1>5, Induct
<1>7. Fine(y)
  BY <1>1, <1>3, <1>6
<1> QED
  BY <1>7

-----------------------------------------------------------------------------
(* Types.                                                                  *)

LEMMA BecomesKeepsType ==
    ASSUME RecoveryTypeOK, NEW x \in StateSet, Becomes(x) PROVE RecoveryTypeOK'
  BY DEF RecoveryTypeOK, Becomes, StateSet

\* recover_supply and repay as requests to the pool.
LEMMA RequestKeepsType ==
    ASSUME RecoveryTypeOK, NEW kind \in PoolKind, NEW a \in Asset, NEW amount \in Nat,
           NEW y \in PoolResults(Now, [kind |-> kind, asset |-> a, amount |-> amount])
    PROVE  y \in StateSet
<1> DEFINE leg == [kind |-> kind, asset |-> a, amount |-> amount]
<1>1. leg \in LegSet /\ leg.kind # "swap"
  BY Kinds DEF LegSet
<1>2. y \in LegResults(Now, leg, FALSE)
  BY <1>1 DEF LegResults
<1> HIDE DEF leg
<1> QED
  BY <1>1, <1>2, NowIsState, LegKeepsType

LEMMA TypeStep ==
    ASSUME RecoveryTypeOK, [Next]_vars PROVE RecoveryTypeOK'
<1>1. ASSUME NEW legs \in Plans, Execute(legs) PROVE RecoveryTypeOK'
  <2>1. PICK x \in Run(legs, FALSE) : Becomes(x)
    BY <1>1 DEF Execute
  <2>2. legs \in Seq(LegSet)
    BY RecoveryAssumption
  <2> QED
    BY <2>1, <2>2, RunFacts, BecomesKeepsType
<1>2. ASSUME NEW legs \in Unwinds, Unwind(legs) PROVE RecoveryTypeOK'
  <2>1. PICK x \in Run(legs, TRUE) : Becomes(x)
    BY <1>2 DEF Unwind
  <2>2. legs \in Seq(LegSet)
    BY RecoveryAssumption
  <2> QED
    BY <2>1, <2>2, RunFacts, BecomesKeepsType
<1>3. ASSUME NEW a \in Asset, NEW amount \in Amounts, RecoverSupply(a, amount)
      PROVE  RecoveryTypeOK'
  <2>1. PICK x \in PoolResults(Now, [kind |-> "withdraw", asset |-> a, amount |-> amount]) :
          Becomes(x)
    BY <1>3 DEF RecoverSupply
  <2>2. amount \in Nat /\ "withdraw" \in PoolKind
    BY RecoveryAssumption, Kinds
  <2> QED
    BY <2>1, <2>2, RequestKeepsType, BecomesKeepsType
<1>4. ASSUME NEW a \in Asset, NEW amount \in Amounts, Repay(a, amount)
      PROVE  RecoveryTypeOK'
  <2>1. PICK x \in PoolResults(Now, [kind |-> "repay", asset |-> a, amount |-> amount]) :
          Becomes(x)
    BY <1>4 DEF Repay
  <2>2. amount \in Nat /\ "repay" \in PoolKind
    BY RecoveryAssumption, Kinds
  <2> QED
    BY <2>1, <2>2, RequestKeepsType, BecomesKeepsType
<1>5. CASE ClaimRewards
  BY <1>5 DEF ClaimRewards, RecoveryTypeOK
<1>6. ASSUME NEW rs \in Rates, Accrue(rs) PROVE RecoveryTypeOK'
  BY <1>6 DEF Accrue, RecoveryTypeOK
<1>7. ASSUME NEW p \in Prices, NEW q \in OraclePrices, Move(p, q) PROVE RecoveryTypeOK'
  BY <1>7 DEF Move, RecoveryTypeOK
<1>8. ASSUME NEW id \in RewardIds, Emit(id) PROVE RecoveryTypeOK'
  BY <1>8 DEF Emit, RecoveryTypeOK
<1>9. CASE UNCHANGED vars
  BY <1>9 DEF vars, RecoveryTypeOK
<1> QED
  BY <1>1, <1>2, <1>3, <1>4, <1>5, <1>6, <1>7, <1>8, <1>9 DEF Next, Public, Environment

\* Whatever plans, unwinds, recoveries and repayments run between the moves of
\* rates, marks and rewards, no spot balance and no pool position of the vault
\* goes negative (execution.rs run, swap and pool_action).
THEOREM RecoveryTypeCorrect == Spec => []RecoveryTypeOK
<1>1. Init => RecoveryTypeOK
  BY RecoveryAssumption DEF Init, RecoveryTypeOK, NoPosition, PositionSet
<1>2. RecoveryTypeOK /\ [Next]_vars => RecoveryTypeOK'
  BY TypeStep
<1> QED
  BY <1>1, <1>2, PTL DEF Spec

-----------------------------------------------------------------------------
(* The pool answers as predicted, and closes any position.                 *)

\* At every rate not below one and for every position, the position and the
\* transfer that pool_action computes beforehand are the pool's (execution.rs
\* pool_action against testutils.rs PoolFixture::submit).
THEOREM PredictionsAreExact == Spec => []ExpectationsExact
<1>1. RecoveryTypeOK => ExpectationsExact
  <2> SUFFICES ASSUME RecoveryTypeOK, NEW a \in Asset, NEW kind \in PoolKind,
                      NEW amount \in Amounts
               PROVE  LET old == positions[a][Side[kind]]
                      IN  Submit(kind, old, rates[a], Requested(kind, old, rates[a], amount))
                            = Expected(kind, old, rates[a], amount)
    BY DEF ExpectationsExact
  <2>1. amount \in Nat /\ rates[a] \in RateSet
    BY Typed, RecoveryAssumption
  <2>2. positions[a][Side[kind]] \in Nat
    <3>1. positions[a] \in PositionSet /\ Side[kind] \in {"supply", "collateral", "debt"}
      BY Typed, Kinds
    <3> QED
      BY <3>1 DEF PositionSet
  <2> QED
    BY <2>1, <2>2, AnswerIsExpected
<1> QED
  BY <1>1, RecoveryTypeCorrect, PTL

LEMMA SupplyCloses ==
    ASSUME RecoveryTypeOK, NEW a \in Asset, positions[a].supply > 0
    PROVE  \E x \in PoolResults(Now, [kind |-> "withdraw", asset |-> a,
                                       amount |-> Supplied(Now, a)]) :
              Recovered(a, x) /\ x.positions[a].supply = 0
<1> DEFINE old == positions[a].supply
           value == ClaimValue(old, rates[a])
           x == Moved(Now, a, value, "supply", 0)
<1>1. old \in Nat \ {0} /\ rates[a] \in RateSet /\ spot[a] \in Nat
  BY Typed DEF PositionSet
<1>2. Now.positions[a]["supply"] = old /\ Now.spot[a] = spot[a] /\ Now \in StateSet
      /\ Supplied(Now, a) = value
  BY NowIsState DEF Supplied
<1>3. "withdraw" \in Withdraws /\ "withdraw" \in PoolKind /\ Side["withdraw"] = "supply"
      /\ "withdraw" \notin Lends \cup {"repay"}
  BY Kinds DEF Withdraws, Lends
<1>4. /\ value \in Nat \ {0}
      /\ Expected("withdraw", old, rates[a], value) = [moved |-> value, tokens |-> 0]
      /\ Requestable("withdraw", old, rates[a], value)
  BY <1>1, <1>3, WithdrawalCloses
<1> DEFINE new == Expected("withdraw", old, rates[a], value)
<1>5. new.moved = value /\ new.tokens = 0
  BY <1>4
<1> HIDE DEF value, old
<1>6. x \in PoolResults(Now, [kind |-> "withdraw", asset |-> a, amount |-> value])
  <2>1. Now.spot[a] >= -value
    BY <1>1, <1>2, <1>4
  <2>2. \A n, c : (n = new /\ c = value) =>
          Moved(Now, a, c, "supply", n.tokens)
            \in PoolResults(Now, [kind |-> "withdraw", asset |-> a, amount |-> value])
    BY <1>2, <1>3, <1>4, <1>5, <2>1, PoolAccepts
  <2> QED
    BY <1>5, <2>2
<1>7. x.spot[a] = spot[a] + value /\ x.positions[a]["supply"] = 0
  <2>1. value \in Int /\ Now.spot[a] + value \in Nat
    BY <1>1, <1>2, <1>4
  <2> HIDE DEF x
  <2>2. x = Moved(Now, a, value, "supply", 0)
    BY DEF x
  <2> QED
    BY <1>2, <2>1, <2>2, MovedFacts
<1> HIDE DEF x
<1>8. Supplied(x, a) = 0
  <2>1. x.positions[a].supply = 0 /\ RATE_SCALE \in Nat \ {0} /\ rates[a].b \in Nat
    BY <1>1, <1>7, RateAssumption DEF RateSet
  <2>2. 0 * rates[a].b = 0 /\ 0 \div RATE_SCALE = 0
    BY <2>1
  <2> QED
    BY <2>1, <2>2 DEF Supplied, ClaimValue, MulDivFloor
<1>9. Recovered(a, x)
  BY <1>1, <1>2, <1>4, <1>7, <1>8 DEF Recovered
<1> QED
  BY <1>2, <1>6, <1>7, <1>9

LEMMA DebtClosesAtOnce ==
    ASSUME RecoveryTypeOK, NEW a \in Asset, positions[a].debt > 0, spot[a] >= Owed(Now, a)
    PROVE  \E x \in PoolResults(Now, [kind |-> "repay", asset |-> a,
                                       amount |-> Owed(Now, a)]) :
              Repaid(a, x) /\ x.positions[a].debt = 0
<1> DEFINE old == positions[a].debt
           value == DebtValue(old, rates[a])
           x == Moved(Now, a, -value, "debt", 0)
<1>1. old \in Nat \ {0} /\ rates[a] \in RateSet /\ spot[a] \in Nat
  BY Typed DEF PositionSet
<1>2. Now.positions[a]["debt"] = old /\ Now.spot[a] = spot[a] /\ Now \in StateSet
      /\ Owed(Now, a) = value
  BY NowIsState DEF Owed
<1>3. "repay" \in PoolKind /\ Side["repay"] = "debt" /\ "repay" \in Lends \cup {"repay"}
  BY Kinds
<1>4. /\ value \in Nat \ {0}
      /\ Expected("repay", old, rates[a], value) = [moved |-> value, tokens |-> 0]
      /\ Requestable("repay", old, rates[a], value)
  BY <1>1, RepaymentCloses
<1> DEFINE new == Expected("repay", old, rates[a], value)
<1>5. new.moved = value /\ new.tokens = 0
  BY <1>4
<1> HIDE DEF value, old
<1>6. x \in PoolResults(Now, [kind |-> "repay", asset |-> a, amount |-> value])
  <2>1. Now.spot[a] >= -(-value)
    BY <1>1, <1>2, <1>4
  <2>2. \A n, c : (n = new /\ c = -value) =>
          Moved(Now, a, c, "debt", n.tokens)
            \in PoolResults(Now, [kind |-> "repay", asset |-> a, amount |-> value])
    BY <1>2, <1>3, <1>4, <1>5, <2>1, PoolAccepts
  <2> QED
    BY <1>5, <2>2
<1>7. x.spot[a] = spot[a] - value /\ x.positions[a]["debt"] = 0
  <2>1. -value \in Int /\ Now.spot[a] + (-value) \in Nat
        /\ Now.spot[a] + (-value) = spot[a] - value
    BY <1>1, <1>2, <1>4
  <2> HIDE DEF x
  <2>2. x = Moved(Now, a, -value, "debt", 0)
    BY DEF x
  <2>3. x.spot[a] = Now.spot[a] + (-value) /\ x.positions[a]["debt"] = 0
    BY <1>2, <2>1, <2>2, MovedFacts
  <2> QED
    BY <2>1, <2>3
<1> HIDE DEF x
<1>8. Owed(x, a) = 0
  <2>1. x.positions[a].debt = 0 /\ RATE_SCALE \in Nat \ {0} /\ rates[a].d \in Nat
    BY <1>1, <1>7, RateAssumption DEF RateSet
  <2>2. 0 * rates[a].d = 0 /\ 0 \div RATE_SCALE = 0 /\ 0 % RATE_SCALE = 0
    BY <2>1
  <2> QED
    BY <2>1, <2>2 DEF Owed, DebtValue, MulDivCeil, MulDivFloor
<1>9. Repaid(a, x)
  BY <1>1, <1>2, <1>4, <1>7, <1>8 DEF Repaid
<1> QED
  BY <1>2, <1>6, <1>7, <1>9

\* Any position can be closed in one call, however small it is and whatever rates
\* interest has led to (execution.rs recover_supply and repay).
THEOREM PositionsClose == Spec => []FullRecoveryAccepted
<1>1. RecoveryTypeOK => FullRecoveryAccepted
  BY SupplyCloses, DebtClosesAtOnce DEF FullRecoveryAccepted
<1> QED
  BY <1>1, RecoveryTypeCorrect, PTL

-----------------------------------------------------------------------------
(* An unwind does not trade.                                               *)

\* What a call leaves is measured as the run measured it.
LEMMA AfterCall ==
    ASSUME NEW x, Becomes(x)
    PROVE  /\ \A a \in Asset : Gross(Now, a)' = Gross(x, a) /\ Owed(Now, a)' = Owed(x, a)
           /\ Debt(Now)' = Debt(x) /\ Equity(Now)' = Equity(x) /\ Health(Now)' = Health(x)
<1>1. /\ Now.spot' = x.spot /\ Now.positions' = x.positions
      /\ rates' = rates /\ price' = price /\ oracle' = oracle
  BY DEF Becomes, Now
<1>2. \A a \in Asset : /\ Supplied(Now, a)' = Supplied(x, a) /\ Pledged(Now, a)' = Pledged(x, a)
                       /\ Owed(Now, a)' = Owed(x, a)
  BY <1>1 DEF Supplied, Pledged, Owed
<1>3. \A a \in Asset : Gross(Now, a)' = Gross(x, a)
  BY <1>1, <1>2 DEF Gross
<1>4. \A a \in Asset : MarkOf(a)' = MarkOf(a) /\ OracleOf(a)' = OracleOf(a)
  BY <1>1 DEF MarkOf, OracleOf
<1>5. Usdc \in Asset /\ Other \in Asset
  BY DEF Asset
<1>6. Debt(Now)' = Debt(x)
  BY <1>2, <1>4, <1>5 DEF Debt
<1>7. Equity(Now)' = Equity(x)
  BY <1>3, <1>4, <1>5, <1>6 DEF Equity
<1>8. Indebted(Now)' = Indebted(x)
  BY <1>1 DEF Indebted
<1>9. \A a \in Asset : /\ WeightedCollateral(Now, a)' = WeightedCollateral(x, a)
                       /\ WeightedDebt(Now, a)' = WeightedDebt(x, a)
  BY <1>2, <1>4 DEF WeightedCollateral, WeightedDebt
<1>10. Health(Now)' = Health(x)
  BY <1>5, <1>8, <1>9 DEF Health
<1> QED
  BY <1>2, <1>3, <1>6, <1>7, <1>10

LEMMA UnwindKeepsGross ==
    ASSUME RecoveryTypeOK, NEW legs \in Unwinds, Unwind(legs)
    PROVE  Gross(Now, Other)' <= Gross(Now, Other) + 1
<1>1. PICK x \in Run(legs, TRUE) :
        Becomes(x) /\ Consumes(x) /\ \A a \in Asset : Owed(x, a) <= Owed(Now, a)
  BY DEF Unwind
<1>2. legs \in Seq(LegSet) /\ Frugal(legs) /\ Other \in Asset
  BY RecoveryAssumption DEF Unwind, Frugal, Asset
<1>3. x \in StateSet /\ Balanced(Now, x)
  BY <1>1, <1>2, RunFacts
<1> DEFINE g  == Gross(Now, Other)
           gx == Gross(x, Other)
           o  == Owed(Now, Other)
           ox == Owed(x, Other)
           b  == x.bought
<1>4. g \in Nat /\ gx \in Nat /\ o \in Nat /\ ox \in Nat /\ b \in Nat
  BY <1>2, <1>3, NowIsState, ValuesAreNat
<1>5. gx + o <= g + ox + b
  <2>1. Now.bought = 0
    BY NowIsState
  <2> QED
    BY <1>3, <1>4, <2>1 DEF Balanced
<1>6. ox <= o /\ (b > 0 => b <= o - ox + 1)
  BY <1>1, <1>2 DEF Consumes
<1>7. Gross(Now, Other)' = gx
  BY <1>1, <1>2, AfterCall
<1> HIDE DEF g, gx, o, ox, b
<1>8. gx <= g + 1
  BY <1>4, <1>5, <1>6
<1> QED
  BY <1>7, <1>8 DEF g

\* In whatever order an unwind swaps, withdraws, releases and repays, it leaves at
\* most one atom more of the borrowed asset than it found, whatever the marks,
\* rates and slippage (execution.rs unwind, the bought-versus-repaid check).
THEOREM UnwindsDoNotTrade == Spec => UnwindBuysNothing
<1>1. RecoveryTypeOK /\ [Next]_vars =>
        [(UNCHANGED price /\ Gross(Now, Other)' > Gross(Now, Other) + 1) =>
           ~\E legs \in Unwinds : Unwind(legs)]_vars
  <2> SUFFICES ASSUME RecoveryTypeOK, Gross(Now, Other)' > Gross(Now, Other) + 1,
                      NEW legs \in Unwinds, Unwind(legs)
               PROVE  FALSE
    OBVIOUS
  <2>1. PICK x \in Run(legs, TRUE) : Becomes(x)
    BY DEF Unwind
  <2>2. legs \in Seq(LegSet) /\ Other \in Asset
    BY RecoveryAssumption DEF Asset
  <2>3. x \in StateSet
    BY <2>1, <2>2, RunFacts
  <2>4. Gross(Now, Other)' \in Nat /\ Gross(Now, Other) \in Nat
    BY <2>1, <2>2, <2>3, AfterCall, NowIsState, ValuesAreNat
  <2> QED
    BY <2>4, UnwindKeepsGross
<1> QED
  BY <1>1, RecoveryTypeCorrect, PTL DEF Spec, UnwindBuysNothing

-----------------------------------------------------------------------------
(* Calls do not add risk.                                                  *)

\* Comparisons with a rounded ratio, multiplied out.
LEMMA CrossFloor ==
    ASSUME NEW a \in Nat, NEW b \in Nat, NEW d \in Nat \ {0}, NEW q \in Nat,
           q <= MulDivFloor(a, b, d)
    PROVE  q * d <= a * b
<1> DEFINE f == MulDivFloor(a, b, d)
<1>1. f \in Nat /\ f * d <= a * b
  BY FloorBounds
<1> HIDE DEF f
<1>2. q * d <= f * d
  BY <1>1, Monotone DEF f
<1> QED
  BY <1>1, <1>2

LEMMA CrossCeil ==
    ASSUME NEW a \in Nat, NEW b \in Nat, NEW d \in Nat \ {0}, NEW q \in Nat
    PROVE  /\ q >= MulDivCeil(a, b, d) => q * d >= a * b
           /\ q < MulDivCeil(a, b, d) => q * d < a * b
<1> DEFINE c == MulDivCeil(a, b, d)
<1>1. c \in Nat /\ a * b <= c * d /\ c * d < a * b + d
  BY CeilBounds
<1> HIDE DEF c
<1>2. ASSUME q >= c PROVE q * d >= a * b
  <2>1. c * d <= q * d
    BY <1>1, <1>2, Monotone
  <2> QED
    BY <1>1, <2>1
<1>3. ASSUME q < c PROVE q * d < a * b
  <2>1. (q + 1) * d <= c * d
    BY <1>1, <1>3, Monotone
  <2>2. (q + 1) * d = q * d + d
    OBVIOUS
  <2> QED
    BY <1>1, <2>1, <2>2
<1> QED
  BY <1>2, <1>3 DEF c

LEMMA RiskTypes ==
    ASSUME RecoveryTypeOK, NEW x \in StateSet
    PROVE  /\ Debt(x) \in Nat /\ Equity(x) \in Int
           /\ Health(x).collateral \in Nat /\ Health(x).debt \in Nat
           /\ \A a \in Asset : WeightedCollateral(x, a) \in Nat /\ WeightedDebt(x, a) \in Nat
<1>1. /\ Usdc \in Asset /\ Other \in Asset /\ PRICE_SCALE \in Nat \ {0}
      /\ FACTOR_SCALE \in Nat \ {0} /\ C_FACTOR \in Nat /\ L_FACTOR \in Nat \ {0}
  BY RecoveryAssumption DEF Asset
<1>2. \A a \in Asset : MarkOf(a) \in Nat /\ OracleOf(a) \in Nat
  BY <1>1, Typed DEF MarkOf, OracleOf
<1>3. \A a \in Asset : /\ Gross(x, a) \in Nat /\ Pledged(x, a) \in Nat
                       /\ Owed(x, a) \in Nat
  BY ValuesAreNat
<1>4. Debt(x) \in Nat
  <2>1. /\ MulDivCeil(Owed(x, Usdc), MarkOf(Usdc), PRICE_SCALE) \in Nat
        /\ MulDivCeil(Owed(x, Other), MarkOf(Other), PRICE_SCALE) \in Nat
    BY <1>1, <1>2, <1>3, CeilBounds
  <2> QED
    BY <2>1 DEF Debt
<1>5. Equity(x) \in Int
  <2>1. /\ MulDivFloor(Gross(x, Usdc), MarkOf(Usdc), PRICE_SCALE) \in Nat
        /\ MulDivFloor(Gross(x, Other), MarkOf(Other), PRICE_SCALE) \in Nat
    BY <1>1, <1>2, <1>3, FloorBounds
  <2> QED
    BY <1>4, <2>1 DEF Equity
<1>6. \A a \in Asset : WeightedCollateral(x, a) \in Nat /\ WeightedDebt(x, a) \in Nat
  <2> TAKE a \in Asset
  <2>1. /\ MulDivFloor(Pledged(x, a), C_FACTOR, FACTOR_SCALE) \in Nat
        /\ MulDivCeil(Owed(x, a), FACTOR_SCALE, L_FACTOR) \in Nat
    BY <1>1, <1>3, FloorBounds, CeilBounds
  <2> QED
    BY <1>1, <1>2, <2>1, FloorBounds, CeilBounds DEF WeightedCollateral, WeightedDebt
<1>7. Health(x).collateral \in Nat /\ Health(x).debt \in Nat
  <2>1. CASE ~Indebted(x)
    BY <2>1 DEF Health
  <2>2. CASE Indebted(x)
    <3>1. Health(x) = [collateral |-> WeightedCollateral(x, Usdc) + WeightedCollateral(x, Other),
                       debt       |-> WeightedDebt(x, Usdc) + WeightedDebt(x, Other)]
      BY <2>2 DEF Health
    <3> QED
      BY <1>1, <1>6, <3>1
  <2> QED
    BY <2>1, <2>2
<1> QED
  BY <1>4, <1>5, <1>6, <1>7

\* An ordinary plan ends within both limits.
LEMMA ExecuteEndsWithin ==
    ASSUME RecoveryTypeOK, NEW legs \in Plans, Execute(legs)
    PROVE  ~Outside(Debt(Now)', Equity(Now)', Health(Now)')
<1>1. PICK x \in Run(legs, FALSE) :
        /\ Equity(x) > 0 /\ WithinDebtLimit(x) /\ Healthy(x) /\ Becomes(x)
  BY DEF Execute
<1>2. legs \in Seq(LegSet)
  BY RecoveryAssumption
<1>3. x \in StateSet
  BY <1>1, <1>2, RunFacts
<1> DEFINE debt == Debt(x)
           equity == Equity(x)
           coll == Health(x).collateral
           owed == Health(x).debt
<1>4. debt \in Nat /\ equity \in Nat /\ coll \in Nat /\ owed \in Nat
  BY <1>1, <1>3, RiskTypes
<1>5. BPS \in Nat \ {0} /\ MAX_DEBT_BPS \in Nat /\ MIN_HEALTH_BPS \in Nat
  BY RecoveryAssumption
<1>6. debt <= MulDivFloor(equity, MAX_DEBT_BPS, BPS)
      /\ (owed > 0 => MIN_HEALTH_BPS <= MulDivFloor(coll, BPS, owed))
  <2>1. owed > 0 => MulDivFloor(coll, BPS, owed) >= MIN_HEALTH_BPS
    BY <1>1 DEF Healthy
  <2>2. owed > 0 => MulDivFloor(coll, BPS, owed) \in Nat
    <3> HIDE DEF owed, coll
    <3>1. owed > 0 => owed \in Nat \ {0}
      BY <1>4
    <3> QED
      BY <1>4, <1>5, <3>1, FloorBounds
  <2>3. debt <= MulDivFloor(equity, MAX_DEBT_BPS, BPS)
    BY <1>1 DEF WithinDebtLimit
  <2> HIDE DEF owed, coll, debt, equity
  <2> QED
    BY <1>5, <2>1, <2>2, <2>3
<1> HIDE DEF debt, equity, coll, owed
<1>7. debt * BPS <= equity * MAX_DEBT_BPS
  BY <1>4, <1>5, <1>6, CrossFloor
<1>8. owed * MIN_HEALTH_BPS <= coll * BPS
  <2>1. CASE owed > 0
    <3>1. MIN_HEALTH_BPS * owed <= coll * BPS
      BY <1>4, <1>5, <1>6, <2>1, CrossFloor
    <3> QED
      BY <1>4, <1>5, <3>1
  <2>2. CASE owed = 0
    <3>1. coll * BPS \in Nat /\ 0 * MIN_HEALTH_BPS = 0
      BY <1>4, <1>5
    <3> QED
      BY <2>2, <3>1
  <2> QED
    BY <1>4, <2>1, <2>2
<1>9. ~Outside(debt, equity, Health(x))
  <2>1. debt * BPS \in Nat /\ equity * MAX_DEBT_BPS \in Nat
        /\ owed * MIN_HEALTH_BPS \in Nat /\ coll * BPS \in Nat
    BY <1>4, <1>5
  <2>2. ~(debt * BPS > equity * MAX_DEBT_BPS) /\ ~(coll * BPS < owed * MIN_HEALTH_BPS)
    BY <1>7, <1>8, <2>1
  <2> QED
    BY <2>2 DEF Outside, coll, owed
<1> QED
  BY <1>1, <1>9, AfterCall DEF debt, equity

\* An unwind that ends outside a limit has improved both ratios.
LEMMA UnwindImproves ==
    ASSUME RecoveryTypeOK, NEW legs \in Unwinds, Unwind(legs),
           Outside(Debt(Now)', Equity(Now)', Health(Now)')
    PROVE  /\ Debt(Now)' <= Debt(Now)
           /\ Health(Now)'.collateral * Health(Now).debt
                >= Health(Now).collateral * Health(Now)'.debt
           /\ ~(Debt(Now)' * Equity(Now) >= Debt(Now) * Equity(Now)')
<1>1. PICK x \in Run(legs, TRUE) : Equity(x) > 0 /\ Recovers(x) /\ Becomes(x)
  BY DEF Unwind
<1>2. legs \in Seq(LegSet) /\ Equity(Now) > 0
  BY RecoveryAssumption DEF Unwind
<1>3. x \in StateSet /\ Now \in StateSet
  BY <1>1, <1>2, RunFacts, NowIsState
<1> DEFINE debt == Debt(x)
           equity == Equity(x)
           coll == Health(x).collateral
           owed == Health(x).debt
           debt0 == Debt(Now)
           equity0 == Equity(Now)
           coll0 == Health(Now).collateral
           owed0 == Health(Now).debt
<1>4. /\ debt \in Nat /\ equity \in Nat /\ coll \in Nat /\ owed \in Nat
      /\ debt0 \in Nat /\ equity0 \in Nat \ {0} /\ coll0 \in Nat /\ owed0 \in Nat
  BY <1>1, <1>2, <1>3, RiskTypes
<1>5. BPS \in Nat \ {0} /\ MAX_DEBT_BPS \in Nat /\ MIN_HEALTH_BPS \in Nat
  BY RecoveryAssumption
<1>6. /\ Debt(Now)' = debt /\ Equity(Now)' = equity
      /\ Health(Now)'.collateral = coll /\ Health(Now)'.debt = owed
      /\ Outside(debt, equity, Health(x))
  BY <1>1, AfterCall
<1>7. debt * BPS > equity * MAX_DEBT_BPS \/ coll * BPS < owed * MIN_HEALTH_BPS
  BY <1>6 DEF Outside
<1>8. (~(debt <= MulDivFloor(equity, MAX_DEBT_BPS, BPS))
         \/ coll < MulDivCeil(owed, MIN_HEALTH_BPS, BPS)) =>
        /\ debt < debt0
        /\ debt < MulDivCeil(debt0, equity, equity0)
        /\ owed0 # 0 /\ coll >= MulDivCeil(coll0, owed, owed0)
  BY <1>1 DEF Recovers, WithinDebtLimit
<1> HIDE DEF debt, equity, coll, owed, debt0, equity0, coll0, owed0
<1>9. ~(debt <= MulDivFloor(equity, MAX_DEBT_BPS, BPS))
        \/ coll < MulDivCeil(owed, MIN_HEALTH_BPS, BPS)
  <2>1. CASE debt * BPS > equity * MAX_DEBT_BPS
    <3>1. debt * BPS \in Nat /\ equity * MAX_DEBT_BPS \in Nat
      BY <1>4, <1>5
    <3>2. ~(debt * BPS <= equity * MAX_DEBT_BPS)
      BY <2>1, <3>1
    <3> QED
      BY <1>4, <1>5, <3>2, CrossFloor
  <2>2. CASE coll * BPS < owed * MIN_HEALTH_BPS
    <3>1. coll * BPS \in Nat /\ owed * MIN_HEALTH_BPS \in Nat
      BY <1>4, <1>5
    <3>2. ~(coll * BPS >= owed * MIN_HEALTH_BPS)
      BY <2>2, <3>1
    <3>3. MulDivCeil(owed, MIN_HEALTH_BPS, BPS) \in Nat
      BY <1>4, <1>5, CeilBounds
    <3>4. ~(coll >= MulDivCeil(owed, MIN_HEALTH_BPS, BPS))
      BY <1>4, <1>5, <3>2, CrossCeil
    <3> QED
      BY <1>4, <3>3, <3>4
  <2> QED
    BY <1>7, <2>1, <2>2
<1>10. /\ debt < debt0 /\ owed0 # 0
       /\ debt * equity0 < debt0 * equity
       /\ coll * owed0 >= coll0 * owed
  <2>1. /\ debt < debt0 /\ debt < MulDivCeil(debt0, equity, equity0)
        /\ owed0 # 0 /\ coll >= MulDivCeil(coll0, owed, owed0)
    BY <1>8, <1>9
  <2>2. debt * equity0 < debt0 * equity
    BY <1>4, <2>1, CrossCeil
  <2>3. owed0 \in Nat \ {0}
    BY <1>4, <2>1
  <2>4. coll * owed0 >= coll0 * owed
    BY <1>4, <2>1, <2>3, CrossCeil
  <2> QED
    BY <2>1, <2>2, <2>4
<1>11. debt <= debt0 /\ ~(debt * equity0 >= debt0 * equity)
  <2>1. debt * equity0 \in Nat /\ debt0 * equity \in Nat
    BY <1>4
  <2> QED
    BY <1>4, <1>10, <2>1
<1> QED
  BY <1>6, <1>10, <1>11 DEF debt0, equity0, coll0, owed0

\* Paying debt back with the collateral untouched improves both ratios.
LEMMA ReliefImproves ==
    ASSUME RecoveryTypeOK, NEW x \in StateSet, NEW y \in StateSet,
           \A a \in Asset : /\ y.positions[a].collateral = x.positions[a].collateral
                            /\ y.positions[a].debt <= x.positions[a].debt
    PROVE  /\ Debt(y) <= Debt(x)
           /\ Health(y).collateral * Health(x).debt >= Health(x).collateral * Health(y).debt
<1>1. /\ Usdc \in Asset /\ Other \in Asset /\ PRICE_SCALE \in Nat \ {0}
      /\ FACTOR_SCALE \in Nat \ {0} /\ C_FACTOR \in Nat /\ L_FACTOR \in Nat \ {0}
      /\ RATE_SCALE \in Nat \ {0}
  BY RecoveryAssumption, RateAssumption DEF Asset
<1>2. \A a \in Asset : MarkOf(a) \in Nat /\ OracleOf(a) \in Nat
  BY <1>1, Typed DEF MarkOf, OracleOf
<1>3. \A a \in Asset : /\ Owed(x, a) \in Nat /\ Owed(y, a) \in Nat
                       /\ Owed(y, a) <= Owed(x, a)
                       /\ Pledged(y, a) = Pledged(x, a)
  <2> TAKE a \in Asset
  <2>1. /\ x.positions[a].debt \in Nat /\ y.positions[a].debt \in Nat
        /\ Owed(x, a) \in Nat /\ Owed(y, a) \in Nat
    BY ValuesAreNat
  <2>2. rates[a].d \in Nat
    BY Typed DEF RateSet
  <2>3. Owed(y, a) <= Owed(x, a)
    BY <1>1, <2>1, <2>2, CeilMonotone DEF Owed, DebtValue
  <2> QED
    BY <2>1, <2>3 DEF Pledged
<1>4. Debt(y) <= Debt(x)
  <2>1. \A a \in Asset :
          /\ MulDivCeil(Owed(y, a), MarkOf(a), PRICE_SCALE)
               <= MulDivCeil(Owed(x, a), MarkOf(a), PRICE_SCALE)
          /\ MulDivCeil(Owed(y, a), MarkOf(a), PRICE_SCALE) \in Nat
          /\ MulDivCeil(Owed(x, a), MarkOf(a), PRICE_SCALE) \in Nat
    BY <1>1, <1>2, <1>3, CeilMonotone, CeilBounds
  <2> DEFINE u(z, a) == MulDivCeil(Owed(z, a), MarkOf(a), PRICE_SCALE)
  <2>2. Debt(y) = u(y, Usdc) + u(y, Other) /\ Debt(x) = u(x, Usdc) + u(x, Other)
    BY DEF Debt
  <2>3. /\ u(y, Usdc) <= u(x, Usdc) /\ u(y, Other) <= u(x, Other)
        /\ u(y, Usdc) \in Nat /\ u(x, Usdc) \in Nat
        /\ u(y, Other) \in Nat /\ u(x, Other) \in Nat
    BY <1>1, <2>1
  <2> HIDE DEF u
  <2> QED
    BY <2>2, <2>3
<1>5. \A a \in Asset : /\ WeightedCollateral(y, a) = WeightedCollateral(x, a)
                       /\ WeightedCollateral(x, a) \in Nat
                       /\ WeightedDebt(y, a) <= WeightedDebt(x, a)
                       /\ WeightedDebt(x, a) \in Nat /\ WeightedDebt(y, a) \in Nat
  <2> TAKE a \in Asset
  <2>1. WeightedCollateral(y, a) = WeightedCollateral(x, a)
    BY <1>3 DEF WeightedCollateral
  <2> DEFINE w(z) == MulDivCeil(Owed(z, a), FACTOR_SCALE, L_FACTOR)
  <2>2. w(y) \in Nat /\ w(x) \in Nat /\ w(y) <= w(x)
    BY <1>1, <1>3, CeilMonotone, CeilBounds
  <2>3. WeightedDebt(y, a) = MulDivCeil(w(y), OracleOf(a), PRICE_SCALE)
        /\ WeightedDebt(x, a) = MulDivCeil(w(x), OracleOf(a), PRICE_SCALE)
    BY DEF WeightedDebt
  <2> HIDE DEF w
  <2>4. WeightedDebt(y, a) <= WeightedDebt(x, a)
    BY <1>1, <1>2, <2>2, <2>3, CeilMonotone
  <2> QED
    BY <2>1, <2>4, RiskTypes
<1>6. Indebted(y) => Indebted(x)
  <2> SUFFICES ASSUME NEW a \in Asset, y.positions[a].debt > 0 PROVE x.positions[a].debt > 0
    BY DEF Indebted
  <2>1. x.positions[a].debt \in Nat /\ y.positions[a].debt \in Nat
        /\ y.positions[a].debt <= x.positions[a].debt
    BY ValuesAreNat
  <2> QED
    BY <2>1
<1>7. Health(y).collateral * Health(x).debt >= Health(x).collateral * Health(y).debt
  <2>1. /\ Health(x).collateral \in Nat /\ Health(x).debt \in Nat
        /\ Health(y).collateral \in Nat /\ Health(y).debt \in Nat
    BY RiskTypes
  <2>2. CASE ~Indebted(y)
    <3>1. Health(y).collateral = 0 /\ Health(y).debt = 0
      BY <2>2 DEF Health
    <3>2. 0 * Health(x).debt = 0 /\ Health(x).collateral * 0 = 0
      BY <2>1
    <3> QED
      BY <3>1, <3>2
  <2>3. CASE Indebted(y)
    <3>1. /\ Health(y).collateral = Health(x).collateral
          /\ Health(y).debt <= Health(x).debt
      <4>1. /\ Health(y) = [collateral |-> WeightedCollateral(y, Usdc)
                                             + WeightedCollateral(y, Other),
                            debt       |-> WeightedDebt(y, Usdc) + WeightedDebt(y, Other)]
            /\ Health(x) = [collateral |-> WeightedCollateral(x, Usdc)
                                             + WeightedCollateral(x, Other),
                            debt       |-> WeightedDebt(x, Usdc) + WeightedDebt(x, Other)]
        BY <1>6, <2>3 DEF Health
      <4> QED
        BY <1>1, <1>5, <4>1
    <3> DEFINE c == Health(x).collateral
               d == Health(x).debt
               e == Health(y).debt
    <3>2. c \in Nat /\ d \in Nat /\ e \in Nat /\ e <= d /\ Health(y).collateral = c
      BY <2>1, <3>1
    <3> HIDE DEF c, d, e
    <3>3. e * c <= d * c /\ e * c = c * e /\ d * c = c * d
      BY <3>2, Monotone
    <3>4. c * d >= c * e
      BY <3>2, <3>3
    <3> QED
      BY <3>2, <3>4 DEF c, d, e
  <2> QED
    BY <2>2, <2>3
<1> QED
  BY <1>4, <1>7

\* recover_supply and repay leave the collateral and raise no debt.
LEMMA RequestsRelieve ==
    ASSUME RecoveryTypeOK, NEW kind \in {"withdraw", "repay"}, NEW a \in Asset,
           NEW amount \in Nat,
           NEW y \in PoolResults(Now, [kind |-> kind, asset |-> a, amount |-> amount])
    PROVE  /\ y \in StateSet
           /\ \A b \in Asset :
                 /\ y.positions[b].collateral = Now.positions[b].collateral
                 /\ y.positions[b].debt <= Now.positions[b].debt
<1>1. kind \in PoolKind /\ Side[kind] \in {"supply", "debt"} /\ Now \in StateSet
      /\ (kind = "withdraw" <=> Side[kind] = "supply")
  BY Kinds, NowIsState
<1> DEFINE leg  == [kind |-> kind, asset |-> a, amount |-> amount]
           side == Side[kind]
           old  == Now.positions[a][side]
           tokens == Answer(Now, leg).tokens
<1>2. /\ y \in StateSet /\ y.positions[a][side] = tokens /\ tokens \in Nat
      /\ \A s \in {"supply", "collateral", "debt"} \ {side} :
            y.positions[a][s] = Now.positions[a][s]
      /\ \A b \in Asset \ {a} : y.positions[b] = Now.positions[b]
  <2>1. /\ leg.kind = kind /\ leg.asset = a /\ leg.amount = amount
        /\ y \in PoolResults(Now, leg)
    OBVIOUS
  <2> HIDE DEF leg
  <2> QED
    BY <1>1, <2>1, PoolFacts
<1>3. \A b \in Asset : /\ Now.positions[b].collateral \in Nat
                       /\ Now.positions[b].debt \in Nat
                       /\ Now.positions[b].supply \in Nat
  BY <1>1, ValuesAreNat
<1>4. old \in Nat /\ rates[a] \in RateSet
  BY <1>1, <1>3, Typed
<1>5. kind = "repay" => tokens <= old
  <2> DEFINE paid == Expected("repay", old, rates[a], amount)
  <2>1. paid.tokens <= old
    BY <1>4, RepaymentIsCovered
  <2> QED
    BY <2>1 DEF Answer
<1> HIDE DEF tokens
<1>6. /\ y.positions[a].collateral = Now.positions[a].collateral
      /\ y.positions[a].debt <= Now.positions[a].debt
  <2>1. y.positions[a].collateral = Now.positions[a].collateral
    BY <1>1, <1>2
  <2>2. CASE kind = "withdraw"
    BY <1>1, <1>2, <1>3, <2>1, <2>2
  <2>3. CASE kind = "repay"
    <3>1. side = "debt"
      BY <1>1, <2>3
    <3> QED
      BY <1>2, <1>5, <2>1, <2>3, <3>1
  <2> QED
    BY <2>2, <2>3
<1> QED
  BY <1>2, <1>3, <1>6

LEMMA CallsImprove ==
    ASSUME RecoveryTypeOK, [Next]_vars, Call,
           Outside(Debt(Now)', Equity(Now)', Health(Now)')
    PROVE  /\ Debt(Now)' <= Debt(Now)
           /\ Health(Now)'.collateral * Health(Now).debt
                >= Health(Now).collateral * Health(Now)'.debt
<1> DEFINE Improved ==
             /\ Debt(Now)' <= Debt(Now)
             /\ Health(Now)'.collateral * Health(Now).debt
                  >= Health(Now).collateral * Health(Now)'.debt
<1>0. /\ Debt(Now) \in Nat /\ Health(Now).collateral \in Nat /\ Health(Now).debt \in Nat
  BY NowIsState, RiskTypes
<1>1. ASSUME UNCHANGED <<spot, positions>> PROVE Improved
  <2>1. /\ Now' = Now /\ rates' = rates /\ price' = price /\ oracle' = oracle
    BY <1>1 DEF Now, Call
  <2>2. Debt(Now)' = Debt(Now) /\ Health(Now)' = Health(Now)
    BY <2>1 DEF Debt, Health, Indebted, WeightedCollateral, WeightedDebt, Pledged, Owed,
                MarkOf, OracleOf
  <2> QED
    BY <1>0, <2>2
<1>2. ASSUME NEW y \in StateSet, Becomes(y),
             \A b \in Asset : /\ y.positions[b].collateral = Now.positions[b].collateral
                              /\ y.positions[b].debt <= Now.positions[b].debt
      PROVE  Improved
  <2>1. /\ Debt(y) <= Debt(Now)
        /\ Health(y).collateral * Health(Now).debt >= Health(Now).collateral * Health(y).debt
    BY <1>2, NowIsState, ReliefImproves
  <2> QED
    BY <1>2, <2>1, AfterCall
<1>3. ASSUME NEW legs \in Plans, Execute(legs) PROVE Improved
  BY <1>3, ExecuteEndsWithin
<1>4. ASSUME NEW legs \in Unwinds, Unwind(legs) PROVE Improved
  BY <1>4, UnwindImproves
<1>5. ASSUME NEW a \in Asset, NEW amount \in Amounts, RecoverSupply(a, amount) PROVE Improved
  <2>1. PICK y \in PoolResults(Now, [kind |-> "withdraw", asset |-> a, amount |-> amount]) :
          Becomes(y)
    BY <1>5 DEF RecoverSupply
  <2>2. amount \in Nat
    BY RecoveryAssumption
  <2> HIDE DEF Improved
  <2> QED
    BY <1>2, <2>1, <2>2, RequestsRelieve
<1>6. ASSUME NEW a \in Asset, NEW amount \in Amounts, Repay(a, amount) PROVE Improved
  <2>1. PICK y \in PoolResults(Now, [kind |-> "repay", asset |-> a, amount |-> amount]) :
          Becomes(y)
    BY <1>6 DEF Repay
  <2>2. amount \in Nat
    BY RecoveryAssumption
  <2> HIDE DEF Improved
  <2> QED
    BY <1>2, <2>1, <2>2, RequestsRelieve
<1>7. ASSUME ClaimRewards PROVE Improved
  BY <1>1, <1>7 DEF ClaimRewards
<1>8. ASSUME NEW rs \in Rates, Accrue(rs) PROVE Improved
  BY <1>1, <1>8 DEF Accrue
<1>9. ASSUME NEW p \in Prices, NEW q \in OraclePrices, Move(p, q) PROVE Improved
  BY <1>1, <1>9 DEF Move
<1>10. ASSUME NEW id \in RewardIds, Emit(id) PROVE Improved
  BY <1>1, <1>10 DEF Emit
<1>11. ASSUME UNCHANGED vars PROVE Improved
  BY <1>1, <1>11 DEF vars
<1> HIDE DEF Improved
<1>12. ASSUME Public PROVE Improved
  BY <1>4, <1>5, <1>6, <1>7, <1>12 DEF Public
<1>13. ASSUME Environment PROVE Improved
  BY <1>8, <1>9, <1>10, <1>13 DEF Environment
<1>14. Improved
  BY <1>3, <1>11, <1>12, <1>13 DEF Next
<1> QED
  BY <1>14 DEF Improved

\* Only marks and interest bring the vault outside its debt and health limits: a
\* plan that ends outside them is refused, and an unwind, a recovery or a repayment
\* that ends there has improved debt and health, the unwind also debt per equity,
\* compared exactly (execution.rs check_positions and check_recovery, blend.rs
\* check_health).
THEOREM CallsAddNoRisk == Spec => OnlyMarketsAddRisk
<1>1. RecoveryTypeOK /\ [Next]_vars =>
        [(Call /\ Measurable /\ Outside(Debt(Now)', Equity(Now)', Health(Now)')) =>
          /\ Debt(Now)' <= Debt(Now)
          /\ Health(Now)'.collateral * Health(Now).debt
               >= Health(Now).collateral * Health(Now)'.debt
          /\ Debt(Now)' * Equity(Now) >= Debt(Now) * Equity(Now)' =>
               ~\E legs \in Unwinds : Unwind(legs)]_vars
  <2> SUFFICES ASSUME RecoveryTypeOK, [Next]_vars, Call,
                      Outside(Debt(Now)', Equity(Now)', Health(Now)')
               PROVE  /\ Debt(Now)' <= Debt(Now)
                      /\ Health(Now)'.collateral * Health(Now).debt
                           >= Health(Now).collateral * Health(Now)'.debt
                      /\ Debt(Now)' * Equity(Now) >= Debt(Now) * Equity(Now)' =>
                           ~\E legs \in Unwinds : Unwind(legs)
    OBVIOUS
  <2> QED
    BY CallsImprove, UnwindImproves
<1> QED
  BY <1>1, RecoveryTypeCorrect, PTL DEF Spec, OnlyMarketsAddRisk

=============================================================================
