-------------------------- MODULE Execution_proofs --------------------------
(***************************************************************************)
(* Proofs about module Execution: the plans, the rebalance budget, the     *)
(* targets and the promise of the governance slot.                         *)
(*                                                                         *)
(* The inductive invariant is ExecutionInv: types, solvency of what the    *)
(* ledger knows, signed and stale plans behind the nonces of the book, and *)
(* the history of charges that the sliding budget follows from.            *)
(***************************************************************************)
EXTENDS Execution, Governance_proofs, SequenceTheorems

-----------------------------------------------------------------------------
(* Legs.  What a leg makes of priced holdings is priced holdings.          *)

LegSet == [kind : {"buy", "sell", "supply", "withdraw"}, amount : Nat \ {0}]

LEMMA LegFacts ==
    ASSUME NEW leg \in LegSet, price \in Nat
    PROVE  leg.amount \in Nat \ {0} /\ LegValue(leg) \in Nat
  BY CeilBounds, ShareAssumption DEF LegSet, LegValue

\* A leg never invents a position: what it takes was there.
LEMMA OutcomeFacts ==
    ASSUME NEW h \in HoldingSet, NEW leg \in LegSet, price \in Nat,
           NEW g \in Outcomes(h, leg)
    PROVE  /\ g \in HoldingSet
           /\ Priced(h) => Priced(g)
           /\ RecoveryKind(leg) => g.asset <= h.asset
<1>1. /\ leg.amount \in Nat \ {0} /\ LegValue(leg) \in Nat
      /\ h.usdc \in Nat /\ h.asset \in Nat /\ h.supply \in Nat
      /\ MAX_AMOUNT \in Nat /\ Rounding \in Nat
  BY LegFacts, ShareAssumption, ExecutionAssumption DEF HoldingSet
<1>2. CASE leg.kind = "buy"
  <2>1. PICK n \in 1 .. MAX_AMOUNT :
          /\ h.usdc >= leg.amount /\ price > 0
          /\ g = [h EXCEPT !.usdc = @ - leg.amount, !.asset = @ + n]
    BY <1>2 DEF Outcomes
  <2>2. h.usdc - leg.amount \in Nat /\ h.asset + n \in Nat
    BY <1>1, <2>1
  <2> QED
    BY <1>2, <2>1, <2>2 DEF HoldingSet, Priced, RecoveryKind
<1>3. CASE leg.kind = "sell"
  <2>1. PICK n \in Fills(LegValue(leg)) :
          /\ h.asset >= leg.amount /\ price > 0 /\ n > 0
          /\ g = [h EXCEPT !.asset = @ - leg.amount, !.usdc = @ + n]
    BY <1>3 DEF Outcomes
  <2>2. n \in Int
    BY DEF Fills
  <2>3. h.asset - leg.amount \in Nat /\ h.usdc + n \in Nat
        /\ h.asset - leg.amount <= h.asset
    BY <1>1, <2>1, <2>2
  <2> QED
    BY <2>1, <2>3 DEF HoldingSet, Priced
<1>4. CASE leg.kind = "supply"
  <2>1. PICK l \in 0 .. Rounding :
          /\ h.usdc >= leg.amount /\ l < leg.amount
          /\ g = [h EXCEPT !.usdc = @ - leg.amount, !.supply = @ + leg.amount - l]
    BY <1>4 DEF Outcomes
  <2>2. h.usdc - leg.amount \in Nat /\ h.supply + leg.amount - l \in Nat
    BY <1>1, <2>1
  <2>3. g.asset = h.asset /\ g \in HoldingSet
    BY <2>1, <2>2 DEF HoldingSet
  <2> QED
    BY <1>1, <2>3 DEF Priced
<1>5. CASE leg.kind = "withdraw"
  <2> DEFINE paid == Paid(h, leg.amount)
  <2>1. PICK l \in 0 .. Rounding :
          /\ l > 0 => paid + l <= h.supply
          /\ g = [h EXCEPT !.usdc = @ + paid, !.supply = @ - paid - l]
    BY <1>5 DEF Outcomes
  <2>2. paid \in Nat /\ paid <= h.supply
    BY <1>1 DEF Paid, Least
  <2> HIDE DEF paid
  <2>3. h.usdc + paid \in Nat /\ h.supply - paid - l \in Nat
    BY <1>1, <2>1, <2>2
  <2>4. g.asset = h.asset /\ g \in HoldingSet
    BY <2>1, <2>3 DEF HoldingSet
  <2> QED
    BY <1>1, <2>4 DEF Priced
<1> QED
  BY <1>2, <1>3, <1>4, <1>5 DEF LegSet

-----------------------------------------------------------------------------
(* Runs, as induction over their legs.                                     *)

Sums(g, legs, n) ==
    g = [i \in 0 .. n |-> IF i = 0 THEN 0 ELSE g[i - 1] + LegValue(legs[i])]

LEMMA SumsExist == ASSUME NEW legs, NEW n \in Nat PROVE \E g : Sums(g, legs, n)
<1> DEFINE S == {m \in Nat : \E g : Sums(g, legs, m)}
<1>1. 0 \in S
  <2> DEFINE g == [i \in 0 .. 0 |-> 0]
  <2>1. Sums(g, legs, 0)
    BY DEF Sums
  <2> QED
    BY <2>1
<1>2. ASSUME NEW m \in Nat, m \in S PROVE m + 1 \in S
  <2>1. PICK g : Sums(g, legs, m)
    BY <1>2
  <2> DEFINE k == [i \in 0 .. m + 1 |->
                     IF i = m + 1 THEN g[m] + LegValue(legs[m + 1]) ELSE g[i]]
  <2>2. \A i \in 0 .. m + 1 :
          k[i] = IF i = 0 THEN 0 ELSE k[i - 1] + LegValue(legs[i])
    <3> TAKE i \in 0 .. m + 1
    <3>1. CASE i = 0
      BY <2>1, <3>1 DEF Sums
    <3>2. CASE i = m + 1
      BY <2>1, <3>2 DEF Sums
    <3>3. CASE i \in 1 .. m
      BY <2>1, <3>3 DEF Sums
    <3> QED
      BY <3>1, <3>2, <3>3
  <2>3. k = [i \in 0 .. m + 1 |-> k[i]]
    OBVIOUS
  <2> HIDE DEF k
  <2>4. Sums(k, legs, m + 1)
    BY <2>2, <2>3 DEF Sums
  <2> QED
    BY <2>4
<1> QED
  BY <1>1, <1>2, Induct

\* The turnover of a route is a natural number.
LEMMA TurnoverNat ==
    ASSUME NEW legs \in Seq(LegSet), price \in Nat PROVE Turnover(legs) \in Nat
<1> DEFINE n == Len(legs)
           sum == CHOOSE g : g = [i \in 0 .. n |->
                     IF i = 0 THEN 0 ELSE g[i - 1] + LegValue(legs[i])]
<1>1. n \in Nat /\ \A i \in 1 .. n : LegValue(legs[i]) \in Nat
  BY LegFacts, ElementOfSeq
<1>2. Sums(sum, legs, n)
  BY <1>1, SumsExist DEF Sums
<1>3. Turnover(legs) = sum[n]
  BY DEF Turnover
<1> HIDE DEF sum, n
<1> DEFINE S == {i \in Nat : i <= n => sum[i] \in Nat}
<1>4. 0 \in S
  BY <1>1, <1>2 DEF Sums
<1>5. ASSUME NEW i \in Nat, i \in S PROVE i + 1 \in S
  <2> SUFFICES ASSUME i + 1 <= n PROVE sum[i + 1] \in Nat
    OBVIOUS
  <2>1. i + 1 \in 1 .. n /\ (i + 1) - 1 = i /\ sum[i] \in Nat
    BY <1>1, <1>5
  <2>2. sum[i + 1] = sum[i] + LegValue(legs[i + 1])
    BY <1>1, <1>2, <2>1 DEF Sums
  <2> QED
    BY <1>1, <2>1, <2>2
<1>6. n \in S
  <2> HIDE DEF S
  <2> QED
    BY <1>1, <1>4, <1>5, Induct
<1> QED
  BY <1>1, <1>3, <1>6

Runs(g, h, legs, n) ==
    g = [i \in 0 .. n |-> IF i = 0 THEN {h}
                          ELSE UNION {Outcomes(x, legs[i]) : x \in g[i - 1]}]

LEMMA RunsExist == ASSUME NEW h, NEW legs, NEW n \in Nat PROVE \E g : Runs(g, h, legs, n)
<1> DEFINE S == {m \in Nat : \E g : Runs(g, h, legs, m)}
<1>1. 0 \in S
  <2> DEFINE g == [i \in 0 .. 0 |-> {h}]
  <2>1. Runs(g, h, legs, 0)
    BY DEF Runs
  <2> QED
    BY <2>1
<1>2. ASSUME NEW m \in Nat, m \in S PROVE m + 1 \in S
  <2>1. PICK g : Runs(g, h, legs, m)
    BY <1>2
  <2> DEFINE last == UNION {Outcomes(x, legs[m + 1]) : x \in g[m]}
             k == [i \in 0 .. m + 1 |-> IF i = m + 1 THEN last ELSE g[i]]
  <2>2. \A i \in 0 .. m + 1 :
          k[i] = IF i = 0 THEN {h}
                 ELSE UNION {Outcomes(x, legs[i]) : x \in k[i - 1]}
    <3> TAKE i \in 0 .. m + 1
    <3>1. CASE i = 0
      BY <2>1, <3>1 DEF Runs
    <3>2. CASE i = m + 1
      <4>1. k[i] = last /\ k[i - 1] = g[m] /\ i # 0
        BY <3>2
      <4> QED
        BY <3>2, <4>1
    <3>3. CASE i \in 1 .. m
      <4>1. k[i] = g[i] /\ k[i - 1] = g[i - 1] /\ i # 0
        BY <3>3
      <4>2. g[i] = UNION {Outcomes(x, legs[i]) : x \in g[i - 1]}
        BY <2>1, <3>3 DEF Runs
      <4> QED
        BY <4>1, <4>2
    <3> QED
      BY <3>1, <3>2, <3>3
  <2>3. k = [i \in 0 .. m + 1 |-> k[i]]
    OBVIOUS
  <2> HIDE DEF k
  <2>4. Runs(k, h, legs, m + 1)
    BY <2>2, <2>3 DEF Runs
  <2> QED
    BY <2>4
<1> QED
  BY <1>1, <1>2, Induct

\* Whatever a run leaves behind is a priced portfolio, and recovery legs leave
\* no more of the other asset than there was.
LEMMA RunFacts ==
    ASSUME NEW h \in HoldingSet, Priced(h), NEW legs \in Seq(LegSet), price \in Nat,
           NEW r \in Run(h, legs)
    PROVE  /\ r \in HoldingSet /\ Priced(r)
           /\ (\A i \in DOMAIN legs : RecoveryKind(legs[i])) => r.asset <= h.asset
<1> DEFINE n == Len(legs)
           recovery == \A i \in DOMAIN legs : RecoveryKind(legs[i])
           after == CHOOSE g : g = [i \in 0 .. n |->
                       IF i = 0 THEN {h}
                       ELSE UNION {Outcomes(x, legs[i]) : x \in g[i - 1]}]
           Fine(g) == /\ g \in HoldingSet /\ Priced(g)
                      /\ recovery => g.asset <= h.asset
<1>1. n \in Nat /\ DOMAIN legs = 1 .. n /\ \A i \in 1 .. n : legs[i] \in LegSet
  BY ElementOfSeq
<1>2. Runs(after, h, legs, n)
  <2>1. \E g : Runs(g, h, legs, n)
    BY <1>1, RunsExist
  <2> QED
    BY <2>1, Zenon DEF Runs
<1>3. r \in after[n]
  BY DEF Run
<1> HIDE DEF after, n, recovery
<1>4. \A g : Fine(g) => g.asset \in Nat /\ h.asset \in Nat
  BY DEF HoldingSet
<1> DEFINE S == {i \in Nat : i <= n => \A g \in after[i] : Fine(g)}
<1>5. 0 \in S
  <2>1. after[0] = {h} /\ h.asset <= h.asset
    BY <1>1, <1>2 DEF Runs, HoldingSet
  <2> QED
    BY <2>1
<1>6. ASSUME NEW i \in Nat, i \in S PROVE i + 1 \in S
  <2> SUFFICES ASSUME i + 1 <= n, NEW g \in after[i + 1] PROVE Fine(g)
    OBVIOUS
  <2>1. /\ i + 1 \in 1 .. n /\ (i + 1) - 1 = i /\ i <= n
        /\ \A x \in after[i] : Fine(x)
    BY <1>1, <1>6
  <2>2. after[i + 1] = UNION {Outcomes(x, legs[i + 1]) : x \in after[i]}
    BY <1>1, <1>2, <2>1 DEF Runs
  <2>3. PICK x \in after[i] : g \in Outcomes(x, legs[i + 1])
    BY <2>2
  <2>4. Fine(x) /\ legs[i + 1] \in LegSet
    BY <1>1, <2>1
  <2>5. /\ g \in HoldingSet /\ Priced(g)
        /\ RecoveryKind(legs[i + 1]) => g.asset <= x.asset
    BY <2>3, <2>4, OutcomeFacts
  <2>6. recovery => g.asset <= h.asset
    <3>1. g.asset \in Nat /\ x.asset \in Nat /\ h.asset \in Nat
      BY <2>4, <2>5 DEF HoldingSet
    <3> QED
      BY <1>1, <2>1, <2>4, <2>5, <3>1 DEF recovery
  <2> QED
    BY <2>5, <2>6
<1>7. n \in S
  <2> HIDE DEF S
  <2> QED
    BY <1>1, <1>5, <1>6, Induct
<1>8. Fine(r)
  BY <1>1, <1>3, <1>7
<1> QED
  BY <1>8 DEF recovery

-----------------------------------------------------------------------------
(* The invariant.                                                          *)

\* A signed plan belongs to the past or the present, a stale one to the past.
PlansBehind ==
    /\ \A plan \in signed :
          /\ plan.nonce <= book.nonce /\ plan.version <= version
          /\ target # NoTarget /\ plan.target.epoch <= target.epoch
    /\ \A plan \in stale :
          \/ plan.nonce < book.nonce \/ plan.version < version
          \/ plan.target.epoch < target.epoch

\* The charges after the m-th are the book's window; of those before, as many as
\* can still matter fit the last baseline of the window before.
WindowOpened(field, bps, m) ==
    /\ book[field] = Total(field, Len(spent)) - Total(field, m)
    /\ m < Len(spent) => book[field] <= Portion(spent[Len(spent)].base, bps)
    /\ \A i \in 1 .. m :
          spent[i].at > book.window_ledger - WINDOW =>
            Total(field, m) - Total(field, i - 1) <= Portion(spent[m].base, bps)

Growing(field) ==
    \A j \in 0 .. Len(spent) : \A i \in 0 .. j : Total(field, i) <= Total(field, j)

BudgetInv ==
    /\ book.window_ledger <= now
    /\ \A i \in 1 .. Len(spent) : spent[i].at <= now
    /\ Growing("loss") /\ Growing("turnover")
    /\ \E m \in 0 .. Len(spent) :
         /\ \A i \in 1 .. m : spent[i].at <= book.window_ledger
         /\ WindowOpened("loss", MAX_LOSS_BPS, m)
         /\ WindowOpened("turnover", MAX_TURNOVER_BPS, m)

ExecutionInv ==
    /\ GovernedInv /\ ExecutionTypeOK
    /\ PlansBehind
    /\ BudgetInv /\ SlidingBudget

ChargeSet == [at : Nat, base : Nat, turnover : Nat, loss : Nat]

LEMMA BookFacts ==
    ASSUME ExecutionTypeOK
    PROVE  /\ spent \in Seq(ChargeSet) /\ Len(spent) \in Nat
           /\ DOMAIN spent = 1 .. Len(spent)
           /\ \A i \in 1 .. Len(spent) :
                /\ spent[i] \in ChargeSet
                /\ spent[i].at \in Nat /\ spent[i].base \in Nat
                /\ spent[i].turnover \in Nat /\ spent[i].loss \in Nat
           /\ book.nonce \in Nat /\ book.last_execution \in Nat
           /\ book.window_ledger \in Nat
           /\ book.turnover \in Nat /\ book.loss \in Nat
<1>1. spent \in Seq(ChargeSet)
  BY DEF ExecutionTypeOK, ChargeSet
<1>2. \A i \in 1 .. Len(spent) : spent[i] \in ChargeSet
  BY <1>1, ElementOfSeq
<1>3. /\ book.nonce \in Nat /\ book.last_execution \in Nat
      /\ book.window_ledger \in Nat
      /\ book.turnover \in Nat /\ book.loss \in Nat
  BY DEF ExecutionTypeOK
<1>4. \A c \in ChargeSet : c.at \in Nat /\ c.base \in Nat /\ c.turnover \in Nat /\ c.loss \in Nat
  BY DEF ChargeSet
<1>5. Len(spent) \in Nat /\ DOMAIN spent = 1 .. Len(spent)
  BY <1>1
<1> QED
  BY <1>1, <1>2, <1>3, <1>4, <1>5

LEMMA TotalNat ==
    ASSUME ExecutionTypeOK, NEW field \in {"turnover", "loss"}, NEW i \in 0 .. Len(spent)
    PROVE  Total(field, i) \in Nat
<1>1. CASE i = 0
  BY <1>1 DEF Total
<1>2. CASE i # 0
  <2>1. i \in 1 .. Len(spent)
    BY <1>2, BookFacts
  <2> QED
    BY <1>2, <2>1, BookFacts DEF Total
<1> QED
  BY <1>1, <1>2

LEMMA PortionNat ==
    ASSUME NEW base \in Nat, NEW bps \in Nat PROVE Portion(base, bps) \in Nat
  BY FloorBounds, FeeScaleAssumption DEF Portion

-----------------------------------------------------------------------------
(* The budget.                                                             *)

\* Charges x so far of which y before the window, z before a sliding window.
LEMMA Stretches ==
    ASSUME NEW x \in Int, NEW y \in Int, NEW z \in Int, NEW a \in Int,
           NEW p \in Nat, NEW q \in Nat
    PROVE  /\ (x - y) + a <= q /\ y - z <= p => (x + a) - z <= p + q
           /\ a <= q /\ x - z <= p => (x + a) - z <= p + q
           /\ (x - y) + a <= q /\ y <= z => (x + a) - z <= q + q
  OBVIOUS

\* One field of the budget after one more charge.
LEMMA FieldCharged ==
    ASSUME ExecutionTypeOK, now \in Nat,
           NEW field \in {"turnover", "loss"}, NEW bps \in Nat,
           Growing(field), book.window_ledger <= now,
           \A i \in 1 .. Len(spent) : spent[i].at <= now,
           NEW n, n = Len(spent), NEW m \in 0 .. n,
           \A i \in 1 .. m : spent[i].at <= book.window_ledger,
           WindowOpened(field, bps, m),
           NEW e \in ChargeSet, e.at = now, spent' = Append(spent, e),
           NEW amount \in Nat, e[field] = Total(field, Len(spent)) + amount,
           book'.window_ledger = IF WindowOver(now) THEN now ELSE book.window_ledger,
           book'[field] = (IF WindowOver(now) THEN 0 ELSE book[field]) + amount,
           book'[field] <= Portion(e.base, bps)
    PROVE  /\ Growing(field)'
           /\ IF WindowOver(now) THEN WindowOpened(field, bps, n)'
              ELSE WindowOpened(field, bps, m)'
           /\ \A i \in 1 .. n + 1 :
                now - spent'[i].at < WINDOW => WithinTwo(field, bps, i, n + 1)'
<1> DEFINE T(i) == Total(field, i)
           w == book.window_ledger
           P(i) == Portion(spent[i].base, bps)
<1>1. /\ n \in Nat /\ w \in Nat /\ WINDOW \in Nat \ {0} /\ now \in Nat /\ m \in 0 .. n
      /\ e.base \in Nat /\ Portion(e.base, bps) \in Nat
  BY BookFacts, ExecutionAssumption, PortionNat DEF ChargeSet
<1>2. /\ \A i \in 0 .. n : T(i) \in Nat
      /\ \A j \in 0 .. n : \A i \in 0 .. j : T(i) <= T(j)
  BY TotalNat DEF Growing
<1>3. \A i \in 1 .. n : P(i) \in Nat /\ spent[i].at \in Nat
  BY BookFacts, PortionNat
<1>4. /\ Len(spent') = n + 1 /\ spent'[n + 1] = e
      /\ \A i \in 1 .. n : spent'[i] = spent[i]
  BY BookFacts, AppendProperties
<1>5. /\ \A i \in 0 .. n : Total(field, i)' = T(i)
      /\ Total(field, n + 1)' = T(n) + amount
  <2>1. \A i \in 0 .. n : i = 0 \/ i \in 1 .. n
    BY <1>1
  <2>2. n + 1 # 0
    BY <1>1
  <2> QED
    BY <1>1, <1>4, <2>1, <2>2 DEF Total
<1>6. /\ \A i \in 1 .. n : Portion(spent'[i].base, bps) = P(i)
      /\ Portion(spent'[n + 1].base, bps) = Portion(e.base, bps)
  BY <1>4
<1>7. /\ book[field] = T(n) - T(m)
      /\ m < n => book[field] <= P(n)
      /\ \A i \in 1 .. m : spent[i].at > w - WINDOW => T(m) - T(i - 1) <= P(m)
  BY DEF WindowOpened
<1> HIDE DEF T, P, w
<1>8. Growing(field)'
  <2> SUFFICES ASSUME NEW j \in 0 .. n + 1, NEW i \in 0 .. j
               PROVE  Total(field, i)' <= Total(field, j)'
    BY <1>4 DEF Growing
  <2>1. CASE j \in 0 .. n
    <3>1. i \in 0 .. n
      BY <1>1, <2>1
    <3> QED
      BY <1>2, <1>5, <2>1, <3>1
  <2>2. CASE j = n + 1 /\ i \in 0 .. n
    <3>1. T(i) <= T(n) /\ T(i) \in Nat /\ T(n) \in Nat
      BY <1>1, <1>2, <2>2
    <3> QED
      BY <1>5, <2>2, <3>1
  <2>3. CASE j = n + 1 /\ i = n + 1
    <3>1. T(n) + amount \in Nat
      BY <1>1, <1>2
    <3> QED
      BY <1>5, <2>3, <3>1
  <2> QED
    BY <1>1, <2>1, <2>2, <2>3
<1>9. CASE WindowOver(now)
  <2>1. now - w >= WINDOW /\ book'.window_ledger = now /\ book'[field] = amount
    BY <1>9 DEF WindowOver, w
  <2>2. \A i \in 1 .. n :
          spent[i].at > now - WINDOW => T(n) - T(i - 1) <= P(n)
    <3> SUFFICES ASSUME NEW i \in 1 .. n, spent[i].at > now - WINDOW
                 PROVE  T(n) - T(i - 1) <= P(n)
      OBVIOUS
    <3>1. ~(i \in 1 .. m)
      <4>1. spent[i].at > w
        BY <1>1, <1>3, <2>1
      <4> QED
        BY <1>1, <1>3, <4>1 DEF w
    <3>2. m < n /\ i - 1 \in m .. n /\ m \in 0 .. i - 1 /\ i - 1 \in 0 .. n
      BY <1>1, <3>1
    <3>3. T(m) <= T(i - 1) /\ T(m) \in Nat /\ T(i - 1) \in Nat /\ T(n) \in Nat
      BY <1>1, <1>2, <3>2
    <3>4. T(n) - T(m) <= P(n) /\ P(n) \in Nat
      BY <1>1, <1>3, <1>7, <3>2
    <3> QED
      BY <3>3, <3>4
  <2>3. WindowOpened(field, bps, n)'
    <3>1. book'[field] = Total(field, Len(spent))' - Total(field, n)'
      <4>1. T(n) \in Nat /\ n \in 0 .. n
        BY <1>1, <1>2
      <4> QED
        BY <1>4, <1>5, <2>1, <4>1
    <3>2. book'[field] <= Portion(spent'[Len(spent')].base, bps)
      BY <1>4
    <3>3. ASSUME NEW i \in 1 .. n, spent'[i].at > book'.window_ledger - WINDOW
          PROVE  Total(field, n)' - Total(field, i - 1)' <= Portion(spent'[n].base, bps)
      <4>1. i - 1 \in 0 .. n /\ n \in 0 .. n /\ n \in 1 .. n
        BY <1>1
      <4>2. spent[i].at > now - WINDOW
        BY <1>4, <2>1, <3>3
      <4> QED
        BY <1>5, <1>6, <2>2, <4>1, <4>2
    <3> QED
      BY <3>1, <3>2, <3>3 DEF WindowOpened
  <2>4. ASSUME NEW i \in 1 .. n + 1, now - spent'[i].at < WINDOW
        PROVE  WithinTwo(field, bps, i, n + 1)'
    <3>1. CASE i = n + 1
      <4>1. /\ (i - 1) \in 0 .. n /\ i - 1 = n /\ T(n) \in Nat
            /\ n + 1 \in i .. n + 1
        BY <1>1, <1>2, <3>1
      <4>2. Total(field, n + 1)' - Total(field, i - 1)' = amount
        BY <1>5, <4>1
      <4>3. amount <= Portion(spent'[n + 1].base, bps) + Portion(spent'[n + 1].base, bps)
        BY <1>1, <1>6, <2>1
      <4> QED
        BY <4>1, <4>2, <4>3 DEF WithinTwo
    <3>2. CASE i # n + 1
      <4>1. /\ i \in 1 .. n /\ i - 1 \in 0 .. n /\ n \in 1 .. n
            /\ n \in i .. n + 1 /\ n + 1 \in i .. n + 1
        BY <1>1, <3>2
      <4>2. spent[i].at > now - WINDOW
        <5>1. spent[i].at \in Nat /\ now - spent[i].at < WINDOW
          BY <1>3, <1>4, <2>4, <4>1
        <5> QED
          BY <1>1, <5>1
      <4>3. T(n) - T(i - 1) <= P(n) /\ T(n) \in Nat /\ T(i - 1) \in Nat /\ P(n) \in Nat
        <5>1. T(n) - T(i - 1) <= P(n)
          BY <2>2, <4>1, <4>2
        <5>2. n \in 0 .. n
          BY <4>1
        <5>3. T(n) \in Nat /\ T(i - 1) \in Nat
          BY <1>2, <4>1, <5>2
        <5>4. P(n) \in Nat
          BY <1>3, <4>1
        <5> QED
          BY <5>1, <5>3, <5>4
      <4>4. (T(n) + amount) - T(i - 1) <= P(n) + Portion(e.base, bps)
        <5>1. amount <= Portion(e.base, bps) /\ Portion(e.base, bps) \in Nat
          BY <1>1, <2>1
        <5>2. T(n) \in Int /\ T(i - 1) \in Int /\ amount \in Int
          BY <4>3
        <5> QED
          BY <4>3, <5>1, <5>2, Stretches, Zenon
      <4> QED
        BY <1>5, <1>6, <4>1, <4>4 DEF WithinTwo
    <3> QED
      BY <3>1, <3>2
  <2> QED
    BY <1>8, <1>9, <2>3, <2>4
<1>10. CASE ~WindowOver(now)
  <2>1. now - w < WINDOW /\ book'.window_ledger = w
        /\ book'[field] = (T(n) - T(m)) + amount
    BY <1>1, <1>7, <1>10 DEF WindowOver, w
  <2>2. T(m) \in Nat /\ T(n) \in Nat /\ (T(n) - T(m)) + amount <= Portion(e.base, bps)
    BY <1>1, <1>2, <2>1
  <2>3. WindowOpened(field, bps, m)'
    <3>1. book'[field] = Total(field, Len(spent))' - Total(field, m)'
      BY <1>4, <1>5, <2>1, <2>2
    <3>2. book'[field] <= Portion(spent'[Len(spent')].base, bps)
      BY <1>4
    <3>3. ASSUME NEW i \in 1 .. m, spent'[i].at > book'.window_ledger - WINDOW
          PROVE  Total(field, m)' - Total(field, i - 1)' <= Portion(spent'[m].base, bps)
      <4>1. i - 1 \in 0 .. n /\ i \in 1 .. n /\ m \in 1 .. n
        BY <1>1
      <4>2. spent[i].at > w - WINDOW
        BY <1>4, <2>1, <3>3, <4>1
      <4> QED
        BY <1>5, <1>6, <1>7, <4>1, <4>2
    <3> QED
      BY <3>1, <3>2, <3>3 DEF WindowOpened
  <2>4. ASSUME NEW i \in 1 .. n + 1, now - spent'[i].at < WINDOW
        PROVE  WithinTwo(field, bps, i, n + 1)'
    <3>1. i - 1 \in 0 .. n /\ n + 1 \in i .. n + 1 /\ T(i - 1) \in Nat
      BY <1>1, <1>2
    <3>2. CASE i > m
      <4>1. m \in 0 .. i - 1
        BY <1>1, <3>2
      <4>2. T(m) <= T(i - 1)
        BY <1>2, <3>1, <4>1
      <4>3. (T(n) + amount) - T(i - 1) <= Portion(e.base, bps) + Portion(e.base, bps)
        <5>1. T(n) \in Int /\ T(m) \in Int /\ T(i - 1) \in Int /\ amount \in Int
          BY <2>2, <3>1
        <5> QED
          BY <1>1, <2>2, <4>2, <5>1, Stretches, Zenon
      <4> QED
        BY <1>5, <1>6, <3>1, <4>3 DEF WithinTwo
    <3>3. CASE i <= m
      <4>1. i \in 1 .. m /\ i \in 1 .. n /\ m \in 1 .. n /\ m \in i .. n + 1
        BY <1>1, <3>3
      <4>2. spent[i].at > w - WINDOW
        <5>1. w <= now /\ spent[i].at \in Nat /\ now - spent[i].at < WINDOW
          BY <1>3, <1>4, <2>4, <4>1 DEF w
        <5> QED
          BY <1>1, <5>1
      <4>3. T(m) - T(i - 1) <= P(m) /\ P(m) \in Nat
        BY <1>3, <1>7, <4>1, <4>2
      <4>4. (T(n) + amount) - T(i - 1) <= P(m) + Portion(e.base, bps)
        <5>1. T(n) \in Int /\ T(m) \in Int /\ T(i - 1) \in Int /\ amount \in Int
          BY <2>2, <3>1
        <5> QED
          BY <1>1, <2>2, <4>3, <5>1, Stretches, Zenon
      <4> QED
        BY <1>5, <1>6, <3>1, <4>1, <4>4 DEF WithinTwo
    <3> QED
      BY <1>1, <3>2, <3>3
  <2> QED
    BY <1>8, <1>10, <2>3, <2>4
<1> QED
  BY <1>9, <1>10

-----------------------------------------------------------------------------
(* A charge is a rebalance.                                                *)

LEMMA RunsOf ==
    ASSUME ExecutionInv, FlowOpen, NEW legs \in Routes, NEW h \in Run(holdings, legs)
    PROVE  /\ h \in HoldingSet /\ Priced(h) /\ Turnover(legs) \in Nat
           /\ (\A i \in DOMAIN legs : RecoveryKind(legs[i])) => h.asset <= holdings.asset
<1>1. legs \in Seq(LegSet) /\ price \in Nat /\ holdings \in HoldingSet /\ Priced(holdings)
  BY ExecutionAssumption
     DEF LegSet, ExecutionInv, GovernedInv, Inv, TypeOK, FlowOpen, CanSettle
<1> QED
  BY <1>1, RunFacts, TurnoverNat

LEMMA ConcludedRebalance ==
    ASSUME FlowOpen, NEW h, Priced(h), NEW legs, Conclude(h, legs)
    PROVE  Rebalance(holdings') /\ holdings' = h
<1>1. holdings' = h /\ Equity(h) > 0
  BY DEF Conclude
<1>2. \E w \in {state.window_equity, Equity(holdings)} :
         state' = [Settlement.state EXCEPT !.window_equity = w]
  BY DEF Conclude, WindowBaseline
<1> QED
  BY <1>1, <1>2 DEF Conclude, Rebalance

\* What `limits` writes.
LEMMA Concluded ==
    ASSUME ExecutionInv, FlowOpen, NEW h \in HoldingSet, Priced(h), NEW legs,
           Turnover(legs) \in Nat, Conclude(h, legs)
    PROVE  \E e \in ChargeSet, loss \in Nat :
             /\ e.at = now /\ spent' = Append(spent, e)
             /\ e.turnover = Total("turnover", Len(spent)) + Turnover(legs)
             /\ e.loss = Total("loss", Len(spent)) + loss
             /\ book' = [nonce |-> book.nonce + 1, last_execution |-> now,
                         window_ledger |-> IF WindowOver(now) THEN now
                                           ELSE book.window_ledger,
                         turnover |-> (IF WindowOver(now) THEN 0 ELSE book.turnover)
                                        + Turnover(legs),
                         loss |-> (IF WindowOver(now) THEN 0 ELSE book.loss) + loss]
             /\ book'.turnover <= Portion(e.base, MAX_TURNOVER_BPS)
             /\ book'.loss <= Portion(e.base, MAX_LOSS_BPS)
<1> DEFINE before == Equity(holdings)
           after == Equity(h)
           loss == Greatest(before - after, 0)
           base == Least(WindowBaseline(before, after), before)
           e == [at |-> now, base |-> base,
                 turnover |-> Total("turnover", Len(spent)) + Turnover(legs),
                 loss |-> Total("loss", Len(spent)) + loss]
<1>1. Inv /\ ExecutionTypeOK /\ now \in Nat /\ state.window_equity \in Nat
  BY StateFacts DEF ExecutionInv, GovernedInv
<1>2. before \in Nat /\ before > 0
  BY <1>1, EquityInt DEF FlowOpen
<1>3. after \in Int
  <2>1. /\ h.usdc \in Nat /\ h.supply \in Nat /\ h.collateral \in Nat
        /\ h.debt \in Nat /\ h.asset \in Nat /\ price \in Nat
    BY <1>1 DEF HoldingSet, Inv, TypeOK
  <2>2. MulDivFloor(h.asset, price, PRICE_SCALE) \in Nat
    BY <2>1, ShareAssumption, FloorBounds
  <2> QED
    BY <2>1, <2>2 DEF Equity
<1> HIDE DEF before, after
<1>4. loss \in Nat /\ base \in Nat
  BY <1>1, <1>2, <1>3 DEF Greatest, Least, WindowBaseline
<1> HIDE DEF loss, base
<1>5. e \in ChargeSet
  <2>1. Len(spent) \in 0 .. Len(spent)
    BY <1>1, BookFacts
  <2>2. Total("turnover", Len(spent)) \in Nat /\ Total("loss", Len(spent)) \in Nat
    BY <1>1, <2>1, TotalNat
  <2> QED
    BY <1>1, <1>4, <2>2 DEF ChargeSet
<1>6. /\ spent' = Append(spent, e)
      /\ book' = [nonce |-> book.nonce + 1, last_execution |-> now,
                  window_ledger |-> IF WindowOver(now) THEN now
                                    ELSE book.window_ledger,
                  turnover |-> (IF WindowOver(now) THEN 0 ELSE book.turnover)
                                 + Turnover(legs),
                  loss |-> (IF WindowOver(now) THEN 0 ELSE book.loss) + loss]
      /\ book'.turnover <= Portion(base, MAX_TURNOVER_BPS)
      /\ book'.loss <= Portion(base, MAX_LOSS_BPS)
  BY DEF Conclude, Charged, before, after, loss, base
<1>7. e.base = base
  OBVIOUS
<1> QED
  BY <1>4, <1>5, <1>6, <1>7

LEMMA BudgetCharged ==
    ASSUME ExecutionInv, FlowOpen, NEW h \in HoldingSet, Priced(h), NEW legs,
           Turnover(legs) \in Nat, Conclude(h, legs)
    PROVE  BudgetInv' /\ SlidingBudget'
<1>1. PICK e \in ChargeSet, loss \in Nat :
        /\ e.at = now /\ spent' = Append(spent, e)
        /\ e.turnover = Total("turnover", Len(spent)) + Turnover(legs)
        /\ e.loss = Total("loss", Len(spent)) + loss
        /\ book'.window_ledger = IF WindowOver(now) THEN now ELSE book.window_ledger
        /\ book'.turnover = (IF WindowOver(now) THEN 0 ELSE book.turnover)
                              + Turnover(legs)
        /\ book'.loss = (IF WindowOver(now) THEN 0 ELSE book.loss) + loss
        /\ book'.turnover <= Portion(e.base, MAX_TURNOVER_BPS)
        /\ book'.loss <= Portion(e.base, MAX_LOSS_BPS)
  BY Concluded
<1>2. PICK m \in 0 .. Len(spent) :
        /\ \A i \in 1 .. m : spent[i].at <= book.window_ledger
        /\ WindowOpened("loss", MAX_LOSS_BPS, m)
        /\ WindowOpened("turnover", MAX_TURNOVER_BPS, m)
  BY DEF ExecutionInv, BudgetInv
<1>3. PICK n \in Nat : n = Len(spent)
  BY BookFacts DEF ExecutionInv
<1>4. /\ ExecutionTypeOK /\ now \in Nat /\ now' = now
      /\ Growing("loss") /\ Growing("turnover") /\ book.window_ledger <= now
      /\ \A i \in 1 .. Len(spent) : spent[i].at <= now
      /\ MAX_LOSS_BPS \in Nat /\ MAX_TURNOVER_BPS \in Nat
      /\ m \in 0 .. n
  BY <1>2, <1>3, StateFacts, ExecutionAssumption, FeeScaleAssumption
     DEF ExecutionInv, BudgetInv, GovernedInv, Conclude
<1>5. /\ Growing("loss")'
      /\ IF WindowOver(now) THEN WindowOpened("loss", MAX_LOSS_BPS, n)'
         ELSE WindowOpened("loss", MAX_LOSS_BPS, m)'
      /\ \A i \in 1 .. n + 1 :
           now - spent'[i].at < WINDOW => WithinTwo("loss", MAX_LOSS_BPS, i, n + 1)'
  <2> DEFINE f == "loss"
  <2>1. /\ f \in {"turnover", "loss"} /\ e[f] = Total(f, Len(spent)) + loss
        /\ book'[f] = (IF WindowOver(now) THEN 0 ELSE book[f]) + loss
        /\ book'[f] <= Portion(e.base, MAX_LOSS_BPS)
        /\ Growing(f) /\ WindowOpened(f, MAX_LOSS_BPS, m)
    BY <1>1, <1>2, <1>4
  <2> QED
    BY <1>1, <1>2, <1>3, <1>4, <2>1, FieldCharged
<1>6. /\ Growing("turnover")'
      /\ IF WindowOver(now) THEN WindowOpened("turnover", MAX_TURNOVER_BPS, n)'
         ELSE WindowOpened("turnover", MAX_TURNOVER_BPS, m)'
      /\ \A i \in 1 .. n + 1 :
           now - spent'[i].at < WINDOW =>
             WithinTwo("turnover", MAX_TURNOVER_BPS, i, n + 1)'
  <2> DEFINE f == "turnover"
             amount == Turnover(legs)
  <2>1. /\ f \in {"turnover", "loss"} /\ e[f] = Total(f, Len(spent)) + amount
        /\ book'[f] = (IF WindowOver(now) THEN 0 ELSE book[f]) + amount
        /\ book'[f] <= Portion(e.base, MAX_TURNOVER_BPS)
        /\ Growing(f) /\ WindowOpened(f, MAX_TURNOVER_BPS, m)
        /\ amount \in Nat
    BY <1>1, <1>2, <1>4
  <2> HIDE DEF amount
  <2> QED
    BY <1>1, <1>2, <1>3, <1>4, <2>1, FieldCharged
<1>7. /\ Len(spent') = n + 1 /\ spent'[n + 1] = e
      /\ \A i \in 1 .. n : spent'[i] = spent[i] /\ spent[i].at \in Nat
      /\ DOMAIN spent' = 1 .. n + 1
      /\ book.window_ledger \in Nat
  BY <1>1, <1>3, <1>4, BookFacts, AppendProperties
<1>8. \A i \in 1 .. n + 1 : spent'[i].at <= now
  BY <1>1, <1>3, <1>4, <1>7
<1>9. BudgetInv'
  <2>1. book'.window_ledger <= now'
    BY <1>1, <1>4
  <2>2. CASE WindowOver(now)
    <3>1. /\ n \in 0 .. n + 1
          /\ \A i \in 1 .. n : spent'[i].at <= book'.window_ledger
      BY <1>1, <1>3, <1>4, <1>7, <2>2
    <3> QED
      BY <1>4, <1>5, <1>6, <1>7, <1>8, <2>1, <2>2, <3>1 DEF BudgetInv
  <2>3. CASE ~WindowOver(now)
    <3>1. /\ m \in 0 .. n + 1
          /\ \A i \in 1 .. m : spent'[i].at <= book'.window_ledger
      BY <1>1, <1>2, <1>3, <1>4, <1>7, <2>3
    <3> QED
      BY <1>4, <1>5, <1>6, <1>7, <1>8, <2>1, <2>3, <3>1 DEF BudgetInv
  <2> QED
    BY <2>2, <2>3
<1>10. SlidingBudget'
  <2> SUFFICES ASSUME NEW j \in 1 .. n + 1, NEW i \in 1 .. j,
                      spent'[j].at - spent'[i].at < WINDOW
               PROVE  /\ WithinTwo("loss", MAX_LOSS_BPS, i, j)'
                      /\ WithinTwo("turnover", MAX_TURNOVER_BPS, i, j)'
    BY <1>7 DEF SlidingBudget
  <2>1. CASE j = n + 1
    BY <1>1, <1>5, <1>6, <1>7, <2>1
  <2>2. CASE j # n + 1
    <3>1. j \in 1 .. n /\ i \in 1 .. n
      BY <2>2
    <3>2. /\ WithinTwo("loss", MAX_LOSS_BPS, i, j)
          /\ WithinTwo("turnover", MAX_TURNOVER_BPS, i, j)
      <4>1. DOMAIN spent = 1 .. n
        BY <1>3, <1>4, BookFacts
      <4> QED
        BY <1>7, <3>1, <4>1 DEF ExecutionInv, SlidingBudget
    <3>3. \A k \in i .. j : k \in 1 .. n
      BY <3>1
    <3>4. i - 1 = 0 \/ i - 1 \in 1 .. n
      BY <3>1
    <3> QED
      BY <1>7, <3>1, <3>2, <3>3, <3>4 DEF WithinTwo, Total
  <2> QED
    BY <2>1, <2>2
<1> QED
  BY <1>9, <1>10

-----------------------------------------------------------------------------
(* One lemma per kind of step.                                             *)

\* A step of the executor or a caller that charges the budget.
LEMMA ChargePreserves ==
    ASSUME ExecutionInv, FlowOpen, NEW legs \in Routes, NEW h \in Run(holdings, legs),
           Conclude(h, legs)
    PROVE  ExecutionInv' /\ Rebalance(holdings') /\ state'.paused = state.paused
<1>1. h \in HoldingSet /\ Priced(h) /\ Turnover(legs) \in Nat
  BY RunsOf
<1>2. Rebalance(holdings') /\ holdings' = h
  BY <1>1, ConcludedRebalance
<1>3. Inv' /\ Steady
  BY <1>1, <1>2, RebalancePreserves DEF ExecutionInv, GovernedInv
<1>4. UNCHANGED governed /\ UNCHANGED <<target, signed>> /\ stale' = signed
  BY DEF Conclude
<1>5. GovernedInv'
  BY <1>3, <1>4 DEF ExecutionInv, GovernedInv, GovernanceTypeOK, HashIsCurrent,
                    Inv, governed
<1>6. PICK e \in ChargeSet, loss \in Nat :
        /\ spent' = Append(spent, e)
        /\ e.loss = Total("loss", Len(spent)) + loss
        /\ book' = [nonce |-> book.nonce + 1, last_execution |-> now,
                    window_ledger |-> IF WindowOver(now) THEN now
                                      ELSE book.window_ledger,
                    turnover |-> (IF WindowOver(now) THEN 0 ELSE book.turnover)
                                   + Turnover(legs),
                    loss |-> (IF WindowOver(now) THEN 0 ELSE book.loss) + loss]
  BY <1>1, Concluded
<1>7. /\ book.nonce \in Nat /\ book.turnover \in Nat /\ book.loss \in Nat
      /\ book.window_ledger \in Nat /\ now \in Nat /\ spent \in Seq(ChargeSet)
  BY BookFacts, StateFacts DEF ExecutionInv, GovernedInv
<1>8. ExecutionTypeOK'
  <2>1. spent' \in Seq(ChargeSet)
    BY <1>6, <1>7, AppendProperties
  <2>2. /\ book'.nonce \in Nat
        /\ book' \in [nonce : Nat, last_execution : Nat, window_ledger : Nat,
                      turnover : Nat, loss : Nat]
    <3> DEFINE nonce    == book.nonce + 1
               opened   == IF WindowOver(now) THEN now ELSE book.window_ledger
               turnover == (IF WindowOver(now) THEN 0 ELSE book.turnover) + Turnover(legs)
               lost     == (IF WindowOver(now) THEN 0 ELSE book.loss) + loss
    <3>1. /\ nonce \in Nat /\ opened \in Nat /\ turnover \in Nat /\ lost \in Nat
          /\ now \in Nat
      <4>1. nonce \in Nat /\ now \in Nat
        BY <1>7
      <4>2. opened \in Nat
        BY <1>7
      <4>3. turnover \in Nat
        BY <1>1, <1>7
      <4>4. lost \in Nat
        BY <1>7
      <4> QED
        BY <4>1, <4>2, <4>3, <4>4
    <3>2. book' = [nonce |-> nonce, last_execution |-> now, window_ledger |-> opened,
                   turnover |-> turnover, loss |-> lost]
      BY <1>6
    <3> HIDE DEF nonce, opened, turnover, lost
    <3> QED
      BY <3>1, <3>2
  <2> QED
    BY <1>4, <1>5, <2>1, <2>2 DEF ExecutionInv, ExecutionTypeOK, GovernedInv, ChargeSet
<1>9. PlansBehind'
  <2>1. version' = version /\ book'.nonce = book.nonce + 1
    BY <1>4, <1>6 DEF governed
  <2>2. \A plan \in signed : plan.nonce \in Nat
    BY DEF ExecutionInv, ExecutionTypeOK, Plan
  <2> QED
    BY <1>4, <1>7, <2>1, <2>2 DEF ExecutionInv, PlansBehind
<1> QED
  BY <1>1, <1>2, <1>3, <1>5, <1>8, <1>9, BudgetCharged DEF ExecutionInv, Steady

\* Steps that do not touch the budget.
LEMMA BudgetQuiet ==
    ASSUME ExecutionInv, UNCHANGED <<book, spent>>, now' \in Nat, now' >= now
    PROVE  BudgetInv' /\ SlidingBudget'
<1>1. /\ \A i \in 1 .. Len(spent) : spent[i].at \in Nat
      /\ book.window_ledger \in Nat /\ now \in Nat
  BY BookFacts, StateFacts DEF ExecutionInv, GovernedInv
<1>2. SlidingBudget'
  BY DEF ExecutionInv, SlidingBudget, WithinTwo, Total
<1>3. Growing("loss")' /\ Growing("turnover")'
  BY DEF ExecutionInv, BudgetInv, Growing, Total
<1>4. book'.window_ledger <= now' /\ \A i \in 1 .. Len(spent') : spent'[i].at <= now'
  <2>1. book.window_ledger <= now /\ \A i \in 1 .. Len(spent) : spent[i].at <= now
    BY DEF ExecutionInv, BudgetInv
  <2>2. book.window_ledger <= now'
    BY <1>1, <2>1
  <2>3. ASSUME NEW i \in 1 .. Len(spent) PROVE spent[i].at <= now'
    <3>1. spent[i].at \in Nat /\ spent[i].at <= now
      BY <1>1, <2>1
    <3> QED
      BY <1>1, <3>1
  <2> QED
    BY <2>2, <2>3
<1>5. \E m \in 0 .. Len(spent') :
        /\ \A i \in 1 .. m : spent'[i].at <= book'.window_ledger
        /\ WindowOpened("loss", MAX_LOSS_BPS, m)'
        /\ WindowOpened("turnover", MAX_TURNOVER_BPS, m)'
  BY DEF ExecutionInv, BudgetInv, WindowOpened, Total
<1> QED
  BY <1>2, <1>3, <1>4, <1>5 DEF BudgetInv

\* Calls of the executor that leave the share ledger alone.
LEMMA LedgerQuiet ==
    ASSUME GovernedInv, signers' = {},
           UNCHANGED <<state, fees, balance, allowance, holdings, price, now>>,
           UNCHANGED governed
    PROVE  GovernedInv' /\ now' \in Nat /\ now' >= now
<1>1. now \in Nat /\ Inv
  BY StateFacts DEF GovernedInv
<1>2. /\ allowance' \in [Holders -> [Holders -> Allowance]]
      /\ holdings' \in HoldingSet /\ price' \in Nat /\ signers' \subseteq Holders
  BY <1>1 DEF Inv, TypeOK
<1>3. Inv'
  BY <1>1, <1>2, QuietPreserves
<1> QED
  BY <1>1, <1>3 DEF GovernedInv, GovernanceTypeOK, HashIsCurrent, Inv, governed

LEMMA PublishPreserves ==
    ASSUME ExecutionInv, NEW t \in Proposals, PublishTarget(t) PROVE ExecutionInv'
<1>1. GovernedInv' /\ now' \in Nat /\ now' >= now
  BY LedgerQuiet DEF PublishTarget, ExecutionInv
<1>2. t \in Target
  <2>1. /\ Inv /\ holdings \in HoldingSet /\ state \in StateSet
        /\ state.last_fee <= now
    BY DEF ExecutionInv, GovernedInv, Inv, TypeOK
  <2>2. SettleDefined(state, fees, now, Equity(holdings)) /\ Equity(holdings) \in Nat
    BY <2>1, InvSettles, EquityInt
       DEF PublishTarget, ValidTarget, FeesNeverBlock, SettleDefined
  <2>3. Settlement.state.supply \in Nat
    BY <2>1, <2>2, StateFacts, SettlePreserves DEF Settlement, StateSet
  <2> HIDE DEF Settlement
  <2>4. PICK n \in Offsets : t.equity = Equity(holdings) + n
    BY DEF Proposals
  <2>5. t.equity \in Nat
    <3>1. n \in Nat /\ Equity(holdings) \in Nat
      BY <2>2, ExecutionAssumption
    <3> QED
      BY <2>4, <3>1
  <2>6. /\ t.epoch \in Nat /\ t.expiry \in Nat /\ t.yield_bps \in Nat
        /\ t.supply \in Nat /\ t.holdings \in HoldingSet
    BY <2>1, <2>3, ExecutionAssumption DEF Proposals
  <2>7. t = [epoch |-> t.epoch, expiry |-> t.expiry, yield_bps |-> t.yield_bps,
             equity |-> t.equity, supply |-> t.supply, holdings |-> t.holdings]
    BY DEF Proposals
  <2> QED
    BY <2>5, <2>6, <2>7 DEF Target
<1>3. /\ target' = t /\ stale' = signed /\ UNCHANGED <<book, signed, spent>>
      /\ version' = version /\ (target # NoTarget => t.epoch > target.epoch)
  BY DEF PublishTarget, NewEpoch, governed
<1>4. ExecutionTypeOK'
  BY <1>1, <1>2, <1>3 DEF ExecutionInv, ExecutionTypeOK, GovernedInv
<1>5. PlansBehind'
  <2>1. t # NoTarget /\ t.epoch \in Nat
    BY <1>2, ExecutionAssumption DEF Target
  <2>2. target # NoTarget => target.epoch \in Nat
    BY DEF ExecutionInv, ExecutionTypeOK, Target
  <2>3. \A plan \in signed : plan.target.epoch \in Nat
    BY DEF ExecutionInv, ExecutionTypeOK, Plan, Target
  <2>4. \A plan \in signed : plan.target.epoch < t.epoch
    BY <1>3, <2>1, <2>2, <2>3 DEF ExecutionInv, PlansBehind
  <2> QED
    BY <1>3, <2>1, <2>3, <2>4 DEF ExecutionInv, PlansBehind
<1> QED
  BY <1>1, <1>3, <1>4, <1>5, BudgetQuiet DEF ExecutionInv

LEMMA SignPreserves ==
    ASSUME ExecutionInv, NEW deadline \in Deadlines, SignPlan(deadline)
    PROVE  ExecutionInv'
<1> DEFINE plan == [target |-> target, nonce |-> book.nonce, version |-> version,
                    deadline |-> deadline, executor |-> roles["executor"]]
<1>1. GovernedInv' /\ now' \in Nat /\ now' >= now
  BY LedgerQuiet DEF SignPlan, ExecutionInv
<1>2. /\ target # NoTarget /\ signed' = signed \cup {plan}
      /\ UNCHANGED <<target, book, stale, spent>> /\ version' = version
  BY DEF SignPlan, governed
<1>3. /\ target \in Target /\ book.nonce \in Nat /\ version \in Nat
      /\ roles["executor"] \in Holders /\ deadline \in Nat
  BY <1>2, BookFacts, ShareAssumption
     DEF ExecutionInv, ExecutionTypeOK, GovernanceTypeOK, Role
<1>4. plan \in Plan
  BY <1>3 DEF Plan
<1>5. ExecutionTypeOK'
  BY <1>1, <1>2, <1>4 DEF ExecutionInv, ExecutionTypeOK, GovernedInv
<1>6. PlansBehind'
  <2>1. /\ plan.nonce <= book.nonce /\ plan.version <= version
        /\ plan.target.epoch <= target.epoch
    BY <1>3 DEF Target
  <2> HIDE DEF plan
  <2> QED
    BY <1>2, <2>1 DEF ExecutionInv, PlansBehind
<1> QED
  BY <1>1, <1>2, <1>5, <1>6, BudgetQuiet DEF ExecutionInv

LEMMA LosePreserves ==
    ASSUME ExecutionInv, NEW plan \in signed, LosePlan(plan) PROVE ExecutionInv'
<1>1. GovernedInv' /\ now' \in Nat /\ now' >= now
  BY LedgerQuiet DEF LosePlan, ExecutionInv
<1>2. /\ signed' = signed \ {plan} /\ stale' = stale \ {plan}
      /\ UNCHANGED <<target, book, spent>> /\ version' = version
  BY DEF LosePlan, governed
<1>3. ExecutionTypeOK'
  BY <1>1, <1>2 DEF ExecutionInv, ExecutionTypeOK, GovernedInv
<1>4. PlansBehind'
  BY <1>2 DEF ExecutionInv, PlansBehind
<1> QED
  BY <1>1, <1>2, <1>3, <1>4, BudgetQuiet DEF ExecutionInv

LEMMA SharesPreserve ==
    ASSUME GovernedInv, Shares, UNCHANGED governed PROVE GovernedInv' /\ Steady
<1>1. CASE Flows \/ BasketExits \/ Token \/ FeeCalls \/ Environment
  BY <1>1, SharesKeepGovernance DEF Next
<1>2. CASE \E amount \in Recoveries, lost \in 0 .. Rounding : RecoverSupply(amount, lost)
  <2>1. PICK amount \in Nat, lost \in Nat : RecoverSupply(amount, lost)
    BY <1>2, ExecutionAssumption
  <2>2. Inv' /\ Steady
    BY <2>1, RecoverPreserves DEF GovernedInv
  <2> QED
    BY <2>2 DEF GovernedInv, GovernanceTypeOK, HashIsCurrent, Inv, governed
<1> QED
  BY <1>1, <1>2 DEF Shares

LEMMA LedgerPreserves == ASSUME ExecutionInv, Ledger PROVE ExecutionInv'
<1>1. GovernedInv' /\ now' >= now
  <2>1. CASE Shares /\ UNCHANGED governed
    BY <2>1, SharesPreserve DEF ExecutionInv, Steady
  <2>2. CASE Govern
    <3>1. now' = now /\ now \in Nat
      BY <2>2, StateFacts
         DEF Govern, Pause, Announce, Cancel, ApplyChange, ApplyFees, ApplyRole,
             ApplyResume, Applied, ExecutionInv, GovernedInv
    <3> QED
      BY <2>2, <3>1, GovernPreserves DEF ExecutionInv
  <2> QED
    BY <2>1, <2>2 DEF Ledger
<1>2. now' \in Nat
  BY <1>1 DEF GovernedInv, Inv, TypeOK
<1>3. /\ UNCHANGED <<target, book, signed, spent>>
      /\ stale' = IF Applies THEN signed ELSE stale
  BY DEF Ledger
<1>4. ExecutionTypeOK'
  BY <1>1, <1>3 DEF ExecutionInv, ExecutionTypeOK, GovernedInv
<1>5. version \in Nat /\ version' \in Nat /\ version' >= version /\ (Applies => version' = version + 1)
  <2>1. version \in Nat
    BY DEF ExecutionInv, ExecutionTypeOK, GovernanceTypeOK
  <2>2. Applies => version' = version + 1
    BY DEF Applies, ApplyChange, ApplyFees, ApplyRole, ApplyResume, Applied
  <2>3. Applies \/ version' = version
    BY DEF Ledger, Govern, Applies, Pause, Announce, Cancel, governed
  <2> QED
    BY <2>1, <2>2, <2>3
<1>6. PlansBehind'
  <2>1. \A plan \in signed : plan.version \in Nat
    BY DEF ExecutionInv, ExecutionTypeOK, Plan
  <2>2. stale \subseteq signed
    BY DEF ExecutionInv, ExecutionTypeOK
  <2>3. CASE Applies
    BY <1>3, <1>5, <2>1, <2>3 DEF ExecutionInv, PlansBehind
  <2>4. CASE ~Applies
    <3>1. stale' = stale
      BY <1>3, <2>4
    <3> QED
      BY <1>3, <1>5, <2>1, <2>2, <3>1 DEF ExecutionInv, PlansBehind
  <2> QED
    BY <2>3, <2>4
<1> QED
  BY <1>1, <1>2, <1>3, <1>4, <1>6, BudgetQuiet DEF ExecutionInv

LEMMA ExecutePreserves ==
    ASSUME ExecutionInv, NEW plan, NEW legs \in Routes, Execute(plan, legs)
    PROVE  ExecutionInv' /\ Rebalance(holdings')
<1>1. PICK h \in Run(holdings, legs) : Conclude(h, legs)
  BY DEF Execute
<1> QED
  BY <1>1, ChargePreserves DEF Execute

LEMMA UnwindPreserves ==
    ASSUME ExecutionInv, NEW legs \in Routes, NEW nonce, NEW deadline,
           Unwind(legs, nonce, deadline)
    PROVE  ExecutionInv' /\ Rebalance(holdings')
<1>1. PICK h \in Run(holdings, legs) : Conclude(h, legs)
  BY DEF Unwind
<1> QED
  BY <1>1, ChargePreserves DEF Unwind

LEMMA ExecutionQuiet ==
    ASSUME ExecutionInv, UNCHANGED allVars PROVE ExecutionInv'
<1>1. UNCHANGED vars /\ UNCHANGED governed /\ UNCHANGED <<target, book, signed, stale, spent>>
  BY DEF allVars, executing
<1>2. GovernedInv'
  BY <1>1, SharesKeepGovernance DEF ExecutionInv
<1>3. now' \in Nat /\ now' >= now
  BY <1>1, StateFacts DEF vars, ExecutionInv, GovernedInv
<1>4. ExecutionTypeOK' /\ PlansBehind'
  BY <1>1, <1>2 DEF ExecutionInv, ExecutionTypeOK, GovernedInv, PlansBehind, governed
<1> QED
  BY <1>1, <1>2, <1>3, <1>4, BudgetQuiet DEF ExecutionInv

LEMMA ExecutionStep ==
    ASSUME ExecutionInv, [ExecutionNext]_allVars PROVE ExecutionInv'
<1>1. CASE Plans
  BY <1>1, PublishPreserves, SignPreserves, LosePreserves, ExecutePreserves,
     UnwindPreserves DEF Plans
<1>2. CASE Ledger
  BY <1>2, LedgerPreserves
<1>3. CASE UNCHANGED allVars
  BY <1>3, ExecutionQuiet
<1> QED
  BY <1>1, <1>2, <1>3 DEF ExecutionNext

LEMMA ExecutionStart == ASSUME ExecutionInit PROVE ExecutionInv
<1>1. GovernedInv
  BY InitInv, GovernanceAssumption
     DEF ExecutionInit, GovernedInit, GovernedInv, GovernanceTypeOK, HashIsCurrent, Inv
<1>2. /\ spent = <<>> /\ Len(spent) = 0 /\ signed = {} /\ stale = {}
      /\ target = NoTarget /\ spent \in Seq(ChargeSet)
      /\ book = [nonce |-> 0, last_execution |-> 0, window_ledger |-> InitialTime,
                 turnover |-> 0, loss |-> 0]
      /\ now = InitialTime /\ InitialTime \in Nat
  BY ShareAssumption DEF ExecutionInit, GovernedInit, Init
<1>3. ExecutionTypeOK
  BY <1>1, <1>2 DEF ExecutionTypeOK, GovernedInv, ChargeSet
<1>4. PlansBehind /\ SlidingBudget
  BY <1>2 DEF PlansBehind, SlidingBudget
<1>5. Growing("loss") /\ Growing("turnover")
  BY <1>2 DEF Growing, Total
<1>6. WindowOpened("loss", MAX_LOSS_BPS, 0) /\ WindowOpened("turnover", MAX_TURNOVER_BPS, 0)
  BY <1>2 DEF WindowOpened, Total
<1>7. BudgetInv
  BY <1>2, <1>5, <1>6 DEF BudgetInv
<1> QED
  BY <1>1, <1>3, <1>4, <1>7 DEF ExecutionInv

\* The inductive invariant holds from the first plan on, across every call of
\* execution.rs, every flow, every pass of the clock and every governance call.
THEOREM ExecutionInvariance == ExecutionSpec => []ExecutionInv
<1>1. ExecutionInit => ExecutionInv
  BY ExecutionStart
<1>2. ExecutionInv /\ [ExecutionNext]_allVars => ExecutionInv'
  BY ExecutionStep
<1> QED
  BY <1>1, <1>2, PTL DEF ExecutionSpec

-----------------------------------------------------------------------------
(* The theorems.                                                           *)

\* Whatever is published, signed, executed, unwound and governed, in any order,
\* every variable keeps its type: no leg leaves a negative balance or position
\* (execution.rs run, swap and pool_action).
THEOREM ExecutionTypeCorrect == ExecutionSpec => []ExecutionTypeOK
<1>1. ExecutionInv => ExecutionTypeOK
  BY DEF ExecutionInv
<1> QED
  BY <1>1, ExecutionInvariance, PTL

\* The tumbling budget bounds every sliding window: for all limits, windows and
\* cooldowns (execution.rs limits).
THEOREM BudgetSlides == ExecutionSpec => []SlidingBudget
<1>1. ExecutionInv => SlidingBudget
  BY DEF ExecutionInv
<1> QED
  BY <1>1, ExecutionInvariance, PTL

LEMMA StaleNotCurrent ==
    ASSUME ExecutionInv, NEW plan \in stale PROVE ~PlanCurrent(plan)
<1> SUFFICES ASSUME plan.nonce = book.nonce, plan.version = version,
                    plan.target = target
             PROVE  FALSE
  BY DEF PlanCurrent
<1>1. plan \in signed /\ plan \in Plan
  BY DEF ExecutionInv, ExecutionTypeOK
<1>2. plan.nonce \in Nat /\ plan.version \in Nat /\ plan.target.epoch \in Nat
  BY <1>1 DEF Plan, Target
<1> QED
  BY <1>2 DEF ExecutionInv, PlansBehind

\* No signed plan runs after something overtook it (execution.rs execute).
THEOREM StalePlansStayOut == ExecutionSpec => StalePlansNeverRun
<1>1. ExecutionInv => [\A plan \in stale : ~Executes(plan)]_allVars
  BY StaleNotCurrent DEF Executes, Execute
<1> QED
  BY <1>1, ExecutionInvariance, PTL DEF ExecutionSpec, StalePlansNeverRun

\* Every accepted plan and unwind is a rebalance of the share ledger: fees are
\* settled first and what is left is a priced portfolio of positive value
\* (execution.rs execute, unwind and run).
THEOREM ChargesRebalance == ExecutionSpec => ChargesAreRebalances
<1>1. ExecutionInv /\ [ExecutionNext]_allVars
        => [book' # book => Rebalance(holdings')]_allVars
  <2> SUFFICES ASSUME ExecutionInv, ExecutionNext, book' # book
               PROVE  Rebalance(holdings')
    BY DEF allVars, executing
  <2>1. CASE Plans
    BY <2>1, ExecutePreserves, UnwindPreserves
       DEF Plans, PublishTarget, SignPlan, LosePlan
  <2>2. CASE Ledger
    BY <2>2 DEF Ledger
  <2> QED
    BY <2>1, <2>2 DEF ExecutionNext
<1> QED
  BY <1>1, ExecutionInvariance, PTL DEF ExecutionSpec, ChargesAreRebalances

-----------------------------------------------------------------------------
(* The pause.                                                              *)

\* No call of the ledger lends, or turns the settlement asset into another one.
Frozen ==
    /\ holdings'.supply <= holdings.supply
    /\ holdings'.asset > holdings.asset => holdings'.usdc = holdings.usdc

LEMMA HoldingInts ==
    ASSUME Inv
    PROVE  /\ holdings \in HoldingSet
           /\ holdings.usdc \in Nat /\ holdings.asset \in Nat /\ holdings.supply \in Nat
  BY DEF Inv, TypeOK, HoldingSet

LEMMA FlowsFrozen == ASSUME Inv, Flows PROVE Frozen
<1> DEFINE Cash == \/ holdings' = holdings
                   \/ \E n : holdings' = [holdings EXCEPT !.usdc = n]
<1>1. Cash
  <2>1. ASSUME NEW assets, NEW shares, NEW receiver, NEW operator,
               Issue(Settlement, assets, shares, receiver, operator)
        PROVE  Cash
    BY <2>1 DEF Issue
  <2>2. ASSUME NEW assets, NEW shares, NEW receiver, NEW owner, NEW operator,
               Exit(Settlement, assets, shares, receiver, owner, operator)
        PROVE  Cash
    BY <2>2 DEF Exit
  <2>3. ASSUME NEW operator, NEW owner, NEW amount,
               BurnFrom(Settlement, operator, owner, amount)
        PROVE  Cash
    BY <2>3 DEF BurnFrom
  <2> HIDE DEF Cash
  <2>4. CASE Issuing(Settlement)
    BY <2>1, <2>4 DEF Issuing, Deposit, Mint
  <2>5. CASE Exiting(Settlement)
    BY <2>2, <2>3, <2>5 DEF Exiting, Withdraw, Redeem
  <2> QED
    BY <2>4, <2>5 DEF Flows
<1>2. holdings'.supply = holdings.supply /\ holdings'.asset = holdings.asset
  BY <1>1, HoldingInts DEF HoldingSet
<1> QED
  BY <1>2, HoldingInts DEF Frozen

LEMMA BasketsFrozen == ASSUME Inv, BasketExits PROVE Frozen
<1>1. SettlementOK(BasketSettlement)
  BY PricedSettlement, UnpricedSettlement
     DEF BasketExits, BasketOpen, BasketSettlement
<1>2. PICK shares \in Amounts :
        \E u : holdings' = [holdings EXCEPT !.usdc = u,
           !.asset = @ - BasketShare(BasketSettlement, holdings.asset, shares)]
  BY DEF BasketExits, RedeemInKind
<1>3. BasketShare(BasketSettlement, holdings.asset, shares) \in Nat
  BY <1>1, HoldingInts, SettlementFacts, ShareAssumption, FloorBounds DEF BasketShare
<1> DEFINE paid == BasketShare(BasketSettlement, holdings.asset, shares)
<1> HIDE DEF paid
<1>4. holdings'.supply = holdings.supply /\ holdings'.asset = holdings.asset - paid
  BY <1>2, HoldingInts DEF HoldingSet, paid
<1> QED
  BY <1>3, <1>4, HoldingInts DEF Frozen, paid

LEMMA LedgerFrozen == ASSUME Inv, Shares \/ Govern PROVE Frozen
<1>1. CASE Token \/ FeeCalls \/ Govern
  <2>1. holdings' = holdings
    BY <1>1 DEF Token, Transfer, TransferFrom, Approve, FeeCalls, CollectFees,
                CheckpointFees, Govern, Pause, Announce, Cancel, ApplyChange,
                ApplyFees, ApplyRole, ApplyResume, Applied
  <2> QED
    BY <2>1, HoldingInts DEF Frozen
<1>2. CASE Environment
  <2>1. CASE \E a \in {"usdc", "asset"}, amount \in Donations : Donate(a, amount)
    <3>1. PICK a \in {"usdc", "asset"}, n \in Donations :
            holdings' = [holdings EXCEPT ![a] = @ + n]
      BY <2>1 DEF Donate
    <3> QED
      BY <3>1, HoldingInts DEF HoldingSet, Frozen
  <2>2. CASE holdings' = holdings
    BY <2>2, HoldingInts DEF Frozen
  <2> QED
    BY <1>2, <2>1, <2>2 DEF Environment, Mark, Tick
<1>3. CASE \E amount \in Recoveries, lost \in 0 .. Rounding : RecoverSupply(amount, lost)
  <2>1. PICK amount \in Nat, lost \in Nat : RecoverSupply(amount, lost)
    BY <1>3, ExecutionAssumption
  <2>2. /\ holdings'.supply = holdings.supply - amount - lost
        /\ holdings'.asset = holdings.asset
    BY <2>1, HoldingInts DEF HoldingSet, RecoverSupply
  <2> QED
    BY <2>2, HoldingInts DEF Frozen
<1> QED
  BY <1>1, <1>2, <1>3, FlowsFrozen, BasketsFrozen DEF Shares

LEMMA UnwindFrozen ==
    ASSUME ExecutionInv, NEW legs \in Routes, NEW nonce, NEW deadline,
           Unwind(legs, nonce, deadline)
    PROVE  Frozen
<1>1. PICK h \in Run(holdings, legs) : /\ h.supply <= holdings.supply
                                       /\ Conclude(h, legs)
  BY DEF Unwind
<1>2. h \in HoldingSet /\ h.asset <= holdings.asset /\ holdings' = h
  BY <1>1, RunsOf DEF Unwind, Conclude
<1>3. h.asset \in Nat /\ holdings.asset \in Nat
  BY <1>2, HoldingInts DEF HoldingSet, ExecutionInv, GovernedInv
<1> QED
  BY <1>1, <1>2, <1>3 DEF Frozen

\* While the vault is paused nothing is lent, no target is replaced and no other
\* asset is bought, whatever unwinds, recoveries, exits and changes happen
\* (execution.rs execute, publish_target and unwind).
THEOREM PausesHold == ExecutionSpec => PauseHolds
<1>1. ExecutionInv /\ [ExecutionNext]_allVars
        => [(state.paused /\ state'.paused) =>
              /\ holdings'.supply <= holdings.supply
              /\ target' = target
              /\ holdings'.asset > holdings.asset
                   => holdings'.usdc = holdings.usdc]_allVars
  <2> SUFFICES ASSUME ExecutionInv, ExecutionNext, state.paused
               PROVE  Frozen /\ target' = target
    BY DEF Frozen
  <2>1. CASE \E plan \in signed : LosePlan(plan)
    BY <2>1, HoldingInts DEF LosePlan, Frozen, ExecutionInv, GovernedInv
  <2>2. CASE \E deadline \in Deadlines : SignPlan(deadline)
    BY <2>2, HoldingInts DEF SignPlan, Frozen, ExecutionInv, GovernedInv
  <2>3. CASE \E legs \in Routes, deadline \in Deadlines :
               Unwind(legs, book.nonce, deadline)
    BY <2>3, UnwindFrozen DEF Unwind, Conclude
  <2>4. CASE Ledger
    BY <2>4, LedgerFrozen DEF Ledger, ExecutionInv, GovernedInv
  <2>5. \A t : ~PublishTarget(t)
    BY DEF PublishTarget
  <2>6. \A plan, legs : ~Execute(plan, legs)
    BY DEF Execute, PlanCurrent
  <2> QED
    BY <2>1, <2>2, <2>3, <2>4, <2>5, <2>6 DEF ExecutionNext, Plans
<1> QED
  BY <1>1, ExecutionInvariance, PTL DEF ExecutionSpec, PauseHolds

-----------------------------------------------------------------------------
(* Governance under execution.                                             *)

\* The executor cannot get around the timelock: with targets, plans and unwinds
\* in between, the vault still implements Timelock (governance.rs apply_change
\* with execution.rs).
THEOREM ExecutionKeepsNotice == ExecutionSpec => KeepsNotice
<1>1. ExecutionInit => Holder!Start
  BY DEF ExecutionInit, GovernedInit, Holder!Start, Notice
<1>2. ExecutionInv /\ [ExecutionNext]_allVars => [Holder!Act]_<<Terms, Notice, now>>
  <2> SUFFICES ASSUME ExecutionInv, [ExecutionNext]_allVars
               PROVE  [Holder!Act]_<<Terms, Notice, now>>
    OBVIOUS
  <2>1. GovernedInv /\ GovernedInv'
    BY ExecutionStep DEF ExecutionInv
  <2>2. CASE Govern
    BY <2>1, <2>2, GovernKeepsNotice
  <2>3. CASE Shares /\ UNCHANGED governed
    BY <2>1, <2>3, SharesPreserve, SteadyKeepsNotice
  <2>4. CASE (\E t : PublishTarget(t)) \/ (\E deadline : SignPlan(deadline))
               \/ (\E plan : LosePlan(plan)) \/ UNCHANGED allVars
    <3>1. UNCHANGED <<state, fees, now>> /\ UNCHANGED governed
      BY <2>4 DEF PublishTarget, SignPlan, LosePlan, allVars, vars
    <3> QED
      BY <3>1 DEF Terms, Notice, governed
  <2>5. CASE \E legs \in Routes :
               \/ \E plan : Execute(plan, legs)
               \/ \E nonce, deadline : Unwind(legs, nonce, deadline)
    <3>1. PICK legs \in Routes : \E h \in Run(holdings, legs) :
                                   FlowOpen /\ Conclude(h, legs)
      BY <2>5 DEF Execute, Unwind
    <3>2. UNCHANGED <<fees, now>> /\ UNCHANGED governed /\ state'.paused = state.paused
      BY <3>1, ChargePreserves DEF Conclude
    <3> QED
      BY <3>2 DEF Terms, Notice, governed
  <2> QED
    BY <2>2, <2>3, <2>4, <2>5 DEF ExecutionNext, Plans, Ledger
<1> QED
  BY <1>1, <1>2, ExecutionInvariance, PTL
     DEF ExecutionSpec, KeepsNotice, Holder!Promise

-----------------------------------------------------------------------------
(* The share ledger under execution.                                       *)

\* With plans, unwinds and governance between the flows, the supply stays the sum
\* of the balances, the seed stays where it is and no fee blocks a solvent vault
\* (execution.rs execute and unwind, fees.rs settle).
THEOREM ExecutionKeepsLedger ==
    ExecutionSpec => [](ShareConservation /\ SeedLocked /\ FeesNeverBlock)
<1>1. ExecutionInv => ShareConservation /\ SeedLocked /\ FeesNeverBlock
  <2> SUFFICES ASSUME ExecutionInv
               PROVE  ShareConservation /\ SeedLocked /\ FeesNeverBlock
    OBVIOUS
  <2>1. Inv
    BY DEF ExecutionInv, GovernedInv
  <2>2. ShareConservation /\ SeedLocked
    BY <2>1 DEF Inv, BalancesOK, ShareConservation, SeedLocked
  <2> QED
    BY <2>1, <2>2, InvSettles
<1> QED
  BY <1>1, ExecutionInvariance, PTL

\* A plan that loses money, or a window that restarts, does not bring back a mark
\* at which a gain was charged (execution.rs execute and unwind, fees.rs performance).
THEOREM ExecutionMarkNeverFalls == ExecutionSpec => HighWaterMonotone
<1>1. ExecutionInv /\ [ExecutionNext]_allVars
        => [state'.high_water >= state.high_water]_vars
  <2> SUFFICES ASSUME ExecutionInv, [ExecutionNext]_allVars, state' # state
               PROVE  state'.high_water >= state.high_water
    <3>1. ASSUME ExecutionInv, state' = state
          PROVE  state'.high_water >= state.high_water
      BY <3>1, StateFacts DEF ExecutionInv, GovernedInv
    <3> QED
      BY <3>1
  <2>1. GovernedInv /\ Inv
    BY DEF ExecutionInv, GovernedInv
  <2>2. CASE Govern
    BY <2>1, <2>2, GovernKeepsMark
  <2>3. CASE Shares /\ UNCHANGED governed
    BY <2>1, <2>3, SharesPreserve DEF Steady
  <2>4. CASE (\E t : PublishTarget(t)) \/ (\E deadline : SignPlan(deadline))
               \/ (\E plan : LosePlan(plan)) \/ UNCHANGED allVars
    BY <2>4 DEF PublishTarget, SignPlan, LosePlan, allVars, vars
  <2>5. CASE \E legs \in Routes :
               \/ \E plan : Execute(plan, legs)
               \/ \E nonce, deadline : Unwind(legs, nonce, deadline)
    <3>1. PICK legs \in Routes : \E h \in Run(holdings, legs) :
                                   FlowOpen /\ Conclude(h, legs)
      BY <2>5 DEF Execute, Unwind
    <3>2. Rebalance(holdings') /\ holdings' \in HoldingSet
      BY <3>1, ChargePreserves DEF ExecutionInv, GovernedInv, Inv, TypeOK
    <3> QED
      BY <2>1, <3>2, RebalancePreserves DEF Steady
  <2> QED
    BY <2>2, <2>3, <2>4, <2>5 DEF ExecutionNext, Plans, Ledger
<1> QED
  BY <1>1, ExecutionInvariance, PTL DEF ExecutionSpec, HighWaterMonotone

=============================================================================
