---------------------------- MODULE Adapter_proofs ----------------------------
(***************************************************************************)
(* The adapter's claim follows the parent's cash, for every value of the   *)
(* constants.                                                              *)
(***************************************************************************)
EXTENDS Adapter, VaultShares_proofs

-----------------------------------------------------------------------------
(* The inductive invariant.                                                *)

\* The vault's own invariant, a parent that never spends what it lacks, and an
\* adapter that earns no fees.
AInv == /\ Inv
        /\ cash \in Nat
        /\ fees.recipient # Self

LEMMA AdapterInitInv ==
    ASSUME AdapterInit PROVE AInv
<1>1. Inv
  BY InitInv DEF AdapterInit
<1> QED
  BY <1>1, AdapterAssumption DEF AdapterInit, Init, AInv

\* What a deposit of the parent does to the vault.
LEMMA DepositIssues ==
    ASSUME AInv, NEW amount, AdapterDeposit(amount)
    PROVE  /\ amount \in Nat \ {0} /\ cash' = cash - amount
           /\ SettlementOK(Settlement)
           /\ Equity(holdings) \in Nat \ {0}
           /\ Issue(Settlement, amount, ConvertToShares(Settlement, amount), Self, Self)
           /\ Inv' /\ Steady /\ cash' \in Nat
<1>1. FlowOpen /\ Deposit(Settlement, amount, Self, Self, 1, now) /\ cash' = cash - amount
      /\ amount <= cash
  BY DEF AdapterDeposit
<1>2. Inv /\ cash \in Nat
  BY DEF AInv
<1>3. SettlementOK(Settlement)
  BY <1>1, <1>2, PricedSettlement DEF FlowOpen
<1>4. Equity(holdings) \in Nat \ {0}
  BY <1>1, <1>2, EquityInt DEF FlowOpen
<1>5. /\ amount \in Nat \ {0}
      /\ Issue(Settlement, amount, ConvertToShares(Settlement, amount), Self, Self)
  BY <1>1, ShareAssumption DEF Deposit, IsPositive
<1>6. Self \in Holders /\ Self \in Accounts
  BY AdapterAssumption DEF Accounts
<1>7. Inv' /\ Steady
  BY <1>2, <1>3, <1>5, <1>6, IssuePreserves
<1>8. cash' \in Nat
  BY <1>1, <1>2, <1>5
<1> QED
  BY <1>1, <1>3, <1>4, <1>5, <1>7, <1>8

\* What a withdrawal of the parent does to the vault.
LEMMA WithdrawalExits ==
    ASSUME AInv, NEW amount, NEW to \in Recipients, AdapterWithdraw(amount, to)
    PROVE  /\ amount \in Nat \ {0} /\ cash' = cash + amount
           /\ SettlementOK(Settlement)
           /\ Equity(holdings) \in Nat \ {0}
           /\ Exit(Settlement, amount, WithdrawShares(Settlement, amount), to, Self, Self)
           /\ Inv' /\ Steady /\ cash' \in Nat
<1>1. /\ FlowOpen /\ cash' = cash + amount
      /\ Withdraw(Settlement, amount, to, Self, Self, MAX_AMOUNT, now)
  BY DEF AdapterWithdraw
<1>2. Inv /\ cash \in Nat
  BY DEF AInv
<1>3. SettlementOK(Settlement)
  BY <1>1, <1>2, PricedSettlement DEF FlowOpen
<1>4. Equity(holdings) \in Nat \ {0}
  BY <1>1, <1>2, EquityInt DEF FlowOpen
<1>5. /\ amount \in Nat \ {0}
      /\ Exit(Settlement, amount, WithdrawShares(Settlement, amount), to, Self, Self)
  BY <1>1, ShareAssumption DEF Withdraw, IsPositive
<1>6. Self \in Holders /\ to \in Accounts
  BY AdapterAssumption
<1>7. Inv' /\ Steady
  BY <1>2, <1>3, <1>5, <1>6, ExitPreserves
<1>8. cash' \in Nat
  BY <1>1, <1>2, <1>5
<1> QED
  BY <1>1, <1>3, <1>4, <1>5, <1>7, <1>8

\* The other steps are calls of the vault, and the parent moves no cash.
LEMMA OthersQuiet ==
    ASSUME AInv, Harvest \/ Others
    PROVE  Inv' /\ Steady /\ cash' = cash
<1>1. Inv
  BY DEF AInv
<1>2. Next /\ cash' = cash
  BY DEF Harvest, Others, Next, FeeCalls
<1> QED
  BY <1>1, <1>2, StepPreserves

LEMMA AdapterStep ==
    ASSUME AInv, [AdapterNext]_adapterVars PROVE AInv'
<1>1. Inv' /\ Steady /\ cash' \in Nat
  <2>1. CASE \E amount \in Invested : AdapterDeposit(amount)
    BY <2>1, DepositIssues
  <2>2. CASE \E amount \in Invested : \E to \in Recipients : AdapterWithdraw(amount, to)
    BY <2>2, WithdrawalExits
  <2>3. CASE Harvest \/ Others
    BY <2>3, OthersQuiet DEF AInv
  <2>4. CASE UNCHANGED adapterVars
    <3>1. Inv /\ [Next]_vars /\ cash' = cash /\ cash \in Nat
      BY <2>4 DEF AInv, adapterVars
    <3> QED
      BY <3>1, StepPreserves
  <2> QED
    BY <2>1, <2>2, <2>3, <2>4 DEF AdapterNext
<1> QED
  BY <1>1 DEF AInv, Steady

-----------------------------------------------------------------------------
(* The claim follows the cash.                                             *)

\* Cancelling a positive factor.
LEMMA Cancel ==
    ASSUME NEW x \in Int, NEW y \in Int, NEW t \in Nat \ {0}
    PROVE  /\ x * t <= y * t => x <= y
           /\ x * t < y * t => x < y
<1>1. ASSUME x * t <= y * t, x > y PROVE FALSE
  <2>1. (x - y) * t = x * t - y * t /\ (x - y) \in Nat /\ x - y >= 1
    BY <1>1
  <2>2. (x - y) * t > 0
    BY <2>1
  <2> QED
    BY <1>1, <2>1, <2>2
<1>2. ASSUME x * t < y * t, x >= y PROVE FALSE
  <2>1. (x - y) * t = x * t - y * t /\ (x - y) \in Nat
    BY <1>2
  <2>2. (x - y) * t >= 0
    BY <2>1
  <2> QED
    BY <1>2, <2>1, <2>2
<1> QED
  BY <1>1, <1>2

\* A product of two numbers that are not negative.
LEMMA Grows ==
    ASSUME NEW x \in Int, NEW y \in Int, NEW t \in Nat, x <= y
    PROVE  x * t \in Int /\ y * t \in Int /\ x * t <= y * t
<1>1. (y - x) * t = y * t - x * t /\ (y - x) \in Nat
  OBVIOUS
<1>2. (y - x) * t >= 0
  BY <1>1
<1>3. x * t \in Int /\ y * t \in Int
  OBVIOUS
<1> QED
  BY <1>1, <1>2, <1>3

\* How far the worth of b of S shares is from b + j of S + j shares once the
\* equity E moved by d.
LEMMA Spread ==
    ASSUME NEW b \in Int, NEW S \in Int, NEW E \in Int, NEW d \in Int, NEW j \in Int
    PROVE  (b * E + d * S) * (S + j) - ((b + j) * (E + d)) * S
             = (d * S - j * E) * (S - b)
<1>1. (b * E + d * S) * (S + j)
        = b * E * S + b * E * j + d * S * S + d * S * j
  OBVIOUS
<1>2. ((b + j) * (E + d)) * S = b * E * S + b * d * S + j * E * S + j * d * S
  OBVIOUS
<1>3. (d * S - j * E) * (S - b) = d * S * S - d * S * b - j * E * S + j * E * b
  OBVIOUS
<1> QED
  BY <1>1, <1>2, <1>3

\* The claim after the parent moved d and its shares moved by k, rounded against
\* it: never more than one for one.
LEMMA ClaimAtMost ==
    ASSUME NEW b \in Nat, NEW S \in Nat \ {0}, NEW E \in Nat \ {0}, NEW m \in Nat,
           NEW d \in Int, NEW k \in Int, b <= S, E + d > 0, S + k > 0, b + k >= 0,
           k * E <= d * S,
           NEW q \in Int, b * E < (q + 1) * S,
           NEW r \in Nat, r * (S + k + m) <= (b + k) * (E + d)
    PROVE  r <= q + d
<1>1. r * (S + k) <= (b + k) * (E + d)
  <2>1. r * (S + k + m) = r * (S + k) + r * m /\ r * m >= 0
    OBVIOUS
  <2>2. r * (S + k) \in Int /\ r * m \in Int /\ (b + k) * (E + d) \in Int
    OBVIOUS
  <2> QED
    BY <2>1, <2>2
<1> DEFINE W == (b + k) * (E + d)
           V == b * E + d * S
           T == S + k
<1>2. W \in Int /\ V \in Int /\ T \in Nat \ {0}
  OBVIOUS
<1>3. V * T - W * S >= 0
  <2>1. (d * S - k * E) \in Nat /\ S - b \in Nat
    OBVIOUS
  <2>2. (d * S - k * E) * (S - b) >= 0
    <3> DEFINE x == d * S - k * E
               y == S - b
    <3>1. x \in Nat /\ y \in Nat
      BY <2>1
    <3> HIDE DEF x, y
    <3>2. x * y >= 0
      BY <3>1
    <3> QED
      BY <3>2 DEF x, y
  <2> QED
    BY <2>2, Spread
<1>4. V < (q + 1 + d) * S
  <2>1. (q + 1 + d) * S = (q + 1) * S + d * S
    OBVIOUS
  <2>2. (q + 1) * S \in Int /\ d * S \in Int /\ b * E \in Int
    OBVIOUS
  <2> QED
    BY <2>1, <2>2
<1>5. r * T <= W
  BY <1>1
<1> HIDE DEF W, V, T
<1>6. (r * S) * T <= V * T
  <2>1. (r * T) * S <= W * S /\ W * S \in Int /\ V * T \in Int /\ (r * T) * S \in Int
    BY <1>2, <1>5, Grows
  <2>2. (r * S) * T = (r * T) * S
    BY <1>2
  <2> QED
    BY <1>3, <2>1, <2>2
<1>7. r * S <= V
  BY <1>2, <1>6, Cancel
<1>8. r * S < (q + 1 + d) * S
  BY <1>2, <1>4, <1>7
<1>9. r < q + 1 + d
  BY <1>8, Cancel
<1> QED
  BY <1>9

\* And never less than one for one by more than the value u of one share and
\* of the fee shares m that are pending.
LEMMA ClaimAtLeast ==
    ASSUME NEW b \in Nat, NEW S \in Nat \ {0}, NEW E \in Nat \ {0}, NEW m \in Nat,
           NEW d \in Int, NEW k \in Int, b <= S, E + d > 0, S + k > 0, b + k >= 0,
           d * S < (k + 1) * E,
           NEW q \in Int, q * S <= b * E,
           NEW r \in Nat, (b + k) * (E + d) < (r + 1) * (S + k + m),
           NEW u \in Nat, (1 + m) * (E + d) <= u * (S + k + m)
    PROVE  q + d <= r + u
<1> DEFINE j == k + 1 + m
           W == (b + j) * (E + d)
           V == b * E + d * S
           T == S + j
           p == r + 1 + u
<1>1. j \in Int /\ W \in Int /\ V \in Int /\ T \in Nat \ {0} /\ p \in Nat
  OBVIOUS
<1>2. W < p * T
  <2>1. W = (b + k) * (E + d) + (1 + m) * (E + d)
    OBVIOUS
  <2>2. p * T = (r + 1) * (S + k + m) + u * (S + k + m) + p
    OBVIOUS
  <2>3. /\ (b + k) * (E + d) \in Int /\ (1 + m) * (E + d) \in Int
        /\ (r + 1) * (S + k + m) \in Int /\ u * (S + k + m) \in Int
    OBVIOUS
  <2> HIDE DEF W, T, p
  <2> QED
    BY <1>1, <2>1, <2>2, <2>3
<1>3. V * T - W * S <= 0
  <2>1. j * E - d * S >= 0
    <3>1. j * E = (k + 1) * E + m * E /\ m * E >= 0
      OBVIOUS
    <3>2. (k + 1) * E \in Int /\ m * E \in Int /\ d * S \in Int
      OBVIOUS
    <3> QED
      BY <3>1, <3>2
  <2>2. V * T - W * S = (d * S - j * E) * (S - b)
    BY <1>1, Spread
  <2>3. (d * S - j * E) * (S - b) <= 0
    <3> DEFINE x == j * E - d * S
               y == S - b
    <3>1. x \in Nat /\ y \in Nat
      BY <1>1, <2>1
    <3>2. (d * S - j * E) * (S - b) = - (x * y)
      BY <1>1
    <3> HIDE DEF x, y, j
    <3>3. x * y >= 0 /\ x * y \in Int
      BY <3>1
    <3> QED
      BY <3>2, <3>3
  <2> QED
    BY <2>2, <2>3
<1>4. (q + d) * S <= V
  <2>1. (q + d) * S = q * S + d * S
    OBVIOUS
  <2>2. q * S \in Int /\ d * S \in Int /\ b * E \in Int
    OBVIOUS
  <2> QED
    BY <2>1, <2>2
<1>5. p = r + 1 + u
  OBVIOUS
<1> HIDE DEF W, V, T, p
<1>6. V * T < (p * S) * T
  <2>1. W * S < (p * T) * S
    <3>1. (W + 1) * S <= (p * T) * S /\ (p * T) * S \in Int
      <4>1. W + 1 <= p * T /\ p * T \in Int /\ W + 1 \in Int
        BY <1>1, <1>2
      <4> QED
        BY <4>1, Grows
    <3>2. (W + 1) * S = W * S + S /\ W * S \in Int
      BY <1>1
    <3> QED
      BY <3>1, <3>2
  <2>2. (p * S) * T = (p * T) * S /\ V * T \in Int /\ W * S \in Int /\ (p * T) * S \in Int
    BY <1>1
  <2> QED
    BY <1>3, <2>1, <2>2
<1>7. V < p * S
  <2>1. p * S \in Int
    BY <1>1
  <2> QED
    BY <1>1, <1>6, <2>1, Cancel
<1>8. (q + d) * S < p * S
  <2>1. p * S \in Int /\ (q + d) * S \in Int
    BY <1>1
  <2> QED
    BY <1>1, <1>4, <1>7, <2>1
<1>9. q + d < p
  BY <1>1, <1>8, Cancel
<1> QED
  BY <1>5, <1>9
\* What is settled after a step that keeps the invariant.
LEMMA NextSettlement ==
    ASSUME Inv', Answers', Equity(holdings)' \in Int
    PROVE  /\ Settlement.minted' \in Nat
           /\ Settlement.state.supply' = state'.supply + Settlement.minted'
           /\ state'.supply \in Nat \ {0}
<1>1. /\ state' \in StateSet /\ fees' \in FeeTerms /\ now' \in Nat
      /\ state'.last_fee <= now' /\ state'.performance_dust <= state'.high_water
  <2>1. /\ state' \in StateSet /\ fees' \in FeeTerms /\ now' \in Nat
        /\ state'.last_fee <= now' /\ state'.performance_dust \in 0 .. state'.high_water
    BY DEF Inv, TypeOK, PerformanceDustBound
  <2> QED
    BY <2>1 DEF StateSet
<1>2. state'.supply \in Nat \ {0}
  <2>1. BalancesOK(balance', state'.supply)
    BY DEF Inv, BalancesOK, ShareUnits
  <2> QED
    BY <2>1, SupplyPositive
<1>3. RatesOK(fees')
  BY <1>1 DEF FeeTerms, RatesOK
<1> DEFINE e == Equity(holdings)
<1>4. e' \in Int
  OBVIOUS
<1>5. SettleDefined(state', fees', now', e')
  BY DEF Answers
<1> DEFINE r == Settle(state', fees', now', e')
<1>6. r.minted \in Nat /\ r.state.supply = state'.supply + r.minted
  BY <1>1, <1>2, <1>3, <1>4, <1>5, SettlePreserves
<1>7. Settlement' = r
  BY DEF Settlement
<1> QED
  BY <1>2, <1>6, <1>7

\* The claim of the adapter's shares moves with the cash: d of it moved, and k
\* shares, the rounding against the adapter.
LEMMA CashMoved ==
    ASSUME AInv, Answers, SettlementOK(Settlement), Equity(holdings) \in Nat \ {0},
           Inv', Steady, Answers', price' = price,
           NEW d \in Int, NEW k \in Int, cash' = cash - d,
           holdings.usdc + d \in Nat,
           holdings' = [holdings EXCEPT !.usdc = holdings.usdc + d],
           balance'[Self] = balance[Self] + k,
           state'.supply = Settlement.state.supply + k,
           k * Equity(holdings) <= d * Settlement.state.supply,
           d * Settlement.state.supply < (k + 1) * Equity(holdings)
    PROVE  Parent!CashMoves
<1> DEFINE E == Equity(holdings)
           S == Settlement.state.supply
           b == balance[Self]
           m == Settlement'.minted
           q == MulDivFloor(b, E, S)
           r == MulDivFloor(b + k, E + d, S + k + m)
           u == MulDivCeil(1 + m, E + d, S + k + m)
<1>1. /\ Inv /\ cash \in Nat /\ Self \in Accounts
      /\ S \in Nat \ {0} /\ E \in Nat \ {0}
  BY SettlementFacts, AdapterAssumption DEF AInv, Accounts
<1>2. Equity(holdings)' = E + d /\ E + d > 0 /\ E + d \in Nat \ {0}
  <2>1. holdings'.usdc = holdings.usdc + d
    BY <1>1, StateFacts DEF HoldingSet, Inv, TypeOK
  <2>2. Equity(holdings)' = E + d
    BY <1>1, <2>1, CashEquity, StateFacts
  <2>3. Equity(holdings)' > 0
    BY DEF Answers
  <2> QED
    BY <1>1, <2>2, <2>3
<1>3. /\ m \in Nat /\ Settlement'.state.supply = S + k + m
      /\ S + k \in Nat \ {0}
  <2>1. state'.supply = S + k
    OBVIOUS
  <2>2. Equity(holdings)' \in Int
    BY <1>2
  <2> QED
    BY <1>1, <2>1, <2>2, NextSettlement
<1>4. b \in Nat /\ b <= S /\ b + k \in Nat
  <2>1. BalancesOK(Settled(Settlement.minted), S)
    BY <1>1, SettlementFacts
  <2>2. balance \in [Accounts -> Nat] /\ Settled(Settlement.minted)[Self] = balance[Self]
    BY <1>1 DEF AInv, Inv, TypeOK, Settled, Credit
  <2>3. b \in Nat /\ b <= S
    BY <1>1, <2>1, <2>2, SupplyPositive
  <2>4. balance'[Self] \in Nat
    BY <1>1 DEF Inv, TypeOK
  <2> QED
    BY <2>3, <2>4
<1>5. Claim = q
  BY DEF Claim, ConvertToAssets
<1>6. Claim' = r
  <2>1. Claim' = MulDivFloor(balance'[Self], Equity(holdings)', Settlement'.state.supply)
    BY DEF Claim, ConvertToAssets
  <2> QED
    BY <1>2, <1>3, <2>1
<1>7. Unit' = u
  <2>1. Unit' = MulDivCeil(1 + m, Equity(holdings)', Settlement'.state.supply)
    BY DEF Unit
  <2> QED
    BY <1>2, <1>3, <2>1
<1> HIDE DEF E, S, b, m
<1>8. /\ q \in Nat /\ q * S <= b * E /\ b * E < (q + 1) * S
  BY <1>1, <1>4, FloorBounds
<1>9. S + k + m \in Nat \ {0} /\ 1 + m \in Nat
  BY <1>1, <1>3
<1>10. /\ r \in Nat /\ r * (S + k + m) <= (b + k) * (E + d)
       /\ (b + k) * (E + d) < (r + 1) * (S + k + m)
  BY <1>2, <1>4, <1>9, FloorBounds
<1>11. u \in Nat /\ (1 + m) * (E + d) <= u * (S + k + m)
  BY <1>2, <1>9, CeilBounds
<1>12. k * E <= d * S /\ d * S < (k + 1) * E
  BY DEF E, S
<1> HIDE DEF q, r, u
<1> DEFINE P == /\ E + d > 0 /\ S + k > 0 /\ b + k >= 0 /\ b <= S
                /\ b \in Nat /\ S \in Nat \ {0} /\ E \in Nat \ {0} /\ m \in Nat
                /\ q \in Int /\ r \in Nat /\ u \in Nat
<1>p. P
  BY <1>1, <1>2, <1>3, <1>4, <1>8, <1>10, <1>11
<1>13. r <= q + d
  BY <1>p, <1>8, <1>10, <1>12, ClaimAtMost, Zenon
<1>14. q + d <= r + u
  BY <1>p, <1>8, <1>10, <1>11, <1>12, ClaimAtLeast, ZenonT(60)
<1>15. Claim # NoClaim /\ Claim' # NoClaim
  BY <1>5, <1>6, <1>8, <1>10, AdapterAssumption
<1>16. Claim' \in (Claim + cash - cash') - Unit' .. (Claim + cash - cash')
  <2>1. Claim + cash - cash' = q + d
    BY <1>1, <1>5, <1>8
  <2>2. r \in (q + d) - u .. (q + d)
    BY <1>8, <1>10, <1>11, <1>13, <1>14
  <2> QED
    BY <1>6, <1>7, <2>1, <2>2
<1> QED
  BY <1>15, <1>16 DEF Parent!CashMoves, Parent!Follows
\* A settlement does not touch the shares of the adapter.
LEMMA OwnShares ==
    ASSUME AInv, SettlementOK(Settlement)
    PROVE  /\ Settled(Settlement.minted) \in [Accounts -> Nat]
           /\ Settled(Settlement.minted)[Self] = balance[Self]
           /\ balance[Self] \in Nat /\ Self \in Accounts
<1>1. Self \in Accounts
  BY AdapterAssumption DEF Accounts
<1>2. balance \in [Accounts -> Nat]
  BY DEF AInv, Inv, TypeOK
<1>3. Settled(Settlement.minted)[Self] = balance[Self]
  BY <1>1, <1>2 DEF AInv, Settled, Credit
<1>4. Settled(Settlement.minted) \in [Accounts -> Nat]
  BY SettlementFacts DEF AInv, BalancesOK
<1> QED
  BY <1>1, <1>2, <1>3, <1>4

\* A deposit of the parent becomes claim.
LEMMA DepositFollows ==
    ASSUME AInv, NEW amount, AdapterDeposit(amount) PROVE Parent!CashMoves
<1> DEFINE E == Equity(holdings)
           S == Settlement.state.supply
           n == ConvertToShares(Settlement, amount)
<1>1. /\ amount \in Nat \ {0} /\ cash' = cash - amount
      /\ SettlementOK(Settlement) /\ E \in Nat \ {0}
      /\ Issue(Settlement, amount, n, Self, Self)
      /\ Inv' /\ Steady
  BY DepositIssues
<1>2. Inv /\ S \in Nat \ {0} /\ holdings.usdc \in Nat
  BY <1>1, SettlementFacts, StateFacts DEF AInv
<1>3. n \in Nat /\ n * E <= amount * S /\ amount * S < (n + 1) * E
  BY <1>1, <1>2, FloorBounds DEF ConvertToShares
<1>4. /\ price' = price
      /\ holdings' = [holdings EXCEPT !.usdc = holdings.usdc + amount]
  BY <1>1 DEF Issue
<1>5. state'.supply = S + n
  BY <1>1, <1>2, SettlementFacts DEF Issue, StateSet
<1>6. balance'[Self] = balance[Self] + n
  BY <1>1, OwnShares DEF Issue, Credit
<1>7. Answers' /\ FlowOpen
  BY DEF AdapterDeposit
<1> HIDE DEF n
<1>8. Answers
  <2>1. balance[Self] \in Nat /\ balance[Self] + n \in 0 .. MAX_AMOUNT
    BY <1>1, <1>6, <1>7, OwnShares DEF Answers, IsAmount
  <2>2. balance[Self] \in 0 .. MAX_AMOUNT
    BY <1>3, <2>1, ShareAssumption
  <2> QED
    BY <1>7, <2>2 DEF Answers, IsAmount, FlowOpen, CanSettle
<1>9. holdings.usdc + amount \in Nat /\ amount \in Int /\ n \in Int
  BY <1>1, <1>2, <1>3
<1> QED
  BY <1>1, <1>3, <1>4, <1>5, <1>6, <1>7, <1>8, <1>9, CashMoved

\* A withdrawal of the parent comes out of the claim.
LEMMA WithdrawalFollows ==
    ASSUME AInv, NEW amount, NEW to \in Recipients, AdapterWithdraw(amount, to)
    PROVE  Parent!CashMoves
<1> DEFINE E == Equity(holdings)
           S == Settlement.state.supply
           n == WithdrawShares(Settlement, amount)
           d == - amount
           k == - n
<1>1. /\ amount \in Nat \ {0} /\ cash' = cash + amount
      /\ SettlementOK(Settlement) /\ E \in Nat \ {0}
      /\ Exit(Settlement, amount, n, to, Self, Self)
      /\ Inv' /\ Steady
  BY WithdrawalExits
<1>2. Inv /\ S \in Nat \ {0} /\ holdings.usdc \in Nat /\ cash \in Nat
  BY <1>1, SettlementFacts, StateFacts DEF AInv
<1>3. n \in Nat /\ amount * S <= n * E /\ n * E < amount * S + E
  BY <1>1, <1>2, CeilBounds DEF WithdrawShares
<1>4. /\ price' = price /\ amount <= holdings.usdc
      /\ holdings' = [holdings EXCEPT !.usdc = holdings.usdc - amount]
  BY <1>1 DEF Exit, CanExit
<1>5. state'.supply = S - n
  BY <1>1, <1>2, SettlementFacts DEF Exit, StateSet
<1>6. balance'[Self] = balance[Self] - n
  BY <1>1, OwnShares DEF Exit, Debit
<1>7. Answers /\ Answers'
  BY DEF AdapterWithdraw
<1> HIDE DEF n
<1>8. k * E <= d * S /\ d * S < (k + 1) * E
  <2>1. E \in Int /\ S \in Int /\ n \in Int /\ amount \in Int
    BY <1>1, <1>2, <1>3
  <2> HIDE DEF E, S
  <2>2. k * E = - (n * E) /\ d * S = - (amount * S) /\ (k + 1) * E = - (n * E) + E
    BY <2>1
  <2>3. n * E \in Int /\ amount * S \in Int
    BY <2>1
  <2> QED
    BY <1>3, <2>1, <2>2, <2>3
<1>9. /\ d \in Int /\ k \in Int
      /\ holdings.usdc + d = holdings.usdc - amount /\ holdings.usdc + d \in Nat
      /\ cash' = cash - d /\ balance'[Self] = balance[Self] + k /\ S - n = S + k
  BY <1>1, <1>2, <1>3, <1>4, <1>6, OwnShares
<1> HIDE DEF d, k
<1> QED
  BY <1>1, <1>4, <1>5, <1>7, <1>8, <1>9, CashMoved

-----------------------------------------------------------------------------
(* The theorems.                                                           *)

\* The vault's invariant holds through the calls of the adapter, which never earns
\* fees and whose parent never owes cash (adapter __constructor, deposit, withdraw).
THEOREM AdapterInvariance == AdapterSpec => []AInv
<1>1. AdapterInit => AInv
  BY AdapterInitInv
<1>2. AInv /\ [AdapterNext]_adapterVars => AInv'
  BY AdapterStep
<1> QED
  BY <1>1, <1>2, PTL DEF AdapterSpec

\* The vault's state keeps its type under the calls of the adapter, and the
\* parent never spends cash it does not hold (adapter deposit and withdraw).
THEOREM AdapterTypeCorrect == AdapterSpec => []AdapterTypeOK
<1>1. AInv => AdapterTypeOK
  BY DEF AInv, Inv, AdapterTypeOK
<1> QED
  BY <1>1, AdapterInvariance, PTL

\* The adapter implements Strategy: what `balance` answers moves one for one with
\* the cash that deposit and withdraw move, less at most the rounding of one share
\* and the pending fee shares, and never in the parent's favour.
THEOREM ImplementsStrategy == AdapterSpec => KeepsStrategy
<1>1. AInv /\ [AdapterNext]_adapterVars
        => [Parent!MarketMoves \/ Parent!CashMoves]_<<Claim, cash, Unit>>
  <2> SUFFICES ASSUME AInv, [AdapterNext]_adapterVars
               PROVE  \/ Parent!MarketMoves \/ Parent!CashMoves
                      \/ UNCHANGED <<Claim, cash, Unit>>
    OBVIOUS
  <2>1. CASE \E amount \in Invested : AdapterDeposit(amount)
    BY <2>1, DepositFollows
  <2>2. CASE \E amount \in Invested : \E to \in Recipients : AdapterWithdraw(amount, to)
    BY <2>2, WithdrawalFollows
  <2>3. CASE Harvest \/ Others \/ UNCHANGED adapterVars
    <3>1. cash' = cash
      BY <2>3, OthersQuiet DEF adapterVars
    <3> QED
      BY <3>1 DEF Parent!MarketMoves
  <2> QED
    BY <2>1, <2>2, <2>3 DEF AdapterNext
<1> QED
  BY <1>1, AdapterInvariance, PTL
     DEF AdapterSpec, KeepsStrategy, Parent!Promise, Parent!promised

\* The flows of the adapter keep the ledger as those of any other holder do: the
\* supply is the sum of the balances, the seed stays and fees block nothing
\* (adapter deposit and withdraw through lib.rs issue and exit).
THEOREM AdapterKeepsLedger ==
    AdapterSpec => [](ShareConservation /\ SeedLocked /\ FeesNeverBlock)
<1>1. AInv => ShareConservation /\ SeedLocked /\ FeesNeverBlock
  <2> SUFFICES ASSUME AInv PROVE ShareConservation /\ SeedLocked /\ FeesNeverBlock
    OBVIOUS
  <2>1. Inv
    BY DEF AInv
  <2>2. ShareConservation /\ SeedLocked
    BY <2>1 DEF Inv, BalancesOK, ShareConservation, SeedLocked
  <2> QED
    BY <2>1, <2>2, InvSettles
<1> QED
  BY <1>1, AdapterInvariance, PTL

=============================================================================
