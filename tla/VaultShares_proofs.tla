-------------------------- MODULE VaultShares_proofs --------------------------
(***************************************************************************)
(* Invariants of the share ledger, for any set of holders, fee terms       *)
(* within the ceilings, scales and inputs.                                 *)
(***************************************************************************)
EXTENDS VaultShares, VaultFees_proofs, FiniteSetTheorems

-----------------------------------------------------------------------------
(* The sum of the balances, as the cardinality of the set of share units.  *)

LEMMA AccountsFinite == IsFiniteSet(Accounts)
  BY ShareAssumption, FS_Singleton, FS_Union DEF Accounts

LEMMA UnitMember ==
    ASSUME NEW b, NEW u
    PROVE  u \in ShareUnits(b) <=>
             \E a \in Accounts : u \in {a} \X (1 .. b[a])
  BY DEF ShareUnits

LEMMA UnitsFinite ==
    ASSUME NEW b \in [Accounts -> Nat]
    PROVE  IsFiniteSet(ShareUnits(b)) /\ Cardinality(ShareUnits(b)) \in Nat
<1> DEFINE part == [a \in Accounts |-> {a} \X (1 .. b[a])]
           parts == {{a} \X (1 .. b[a]) : a \in Accounts}
<1>1. part \in Surjection(Accounts, parts)
  BY DEF Surjection
<1>2. IsFiniteSet(parts)
  BY <1>1, AccountsFinite, FS_Surjection
<1>3. \A p \in parts : IsFiniteSet(p)
  <2> TAKE p \in parts
  <2>1. PICK a \in Accounts : p = {a} \X (1 .. b[a])
    OBVIOUS
  <2>2. IsFiniteSet({a})
    BY FS_Singleton
  <2>3. IsFiniteSet(1 .. b[a])
    <3>1. b[a] \in Int /\ 1 \in Int
      OBVIOUS
    <3> QED
      BY <3>1, FS_Interval
  <2> QED
    BY <2>1, <2>2, <2>3, FS_Product
<1>4. IsFiniteSet(UNION parts)
  BY <1>2, <1>3, FS_UNION
<1> QED
  BY <1>4, FS_CardinalityType DEF ShareUnits

\* Crediting n shares adds n to the sum.
LEMMA CreditUnits ==
    ASSUME NEW b \in [Accounts -> Nat], NEW who \in Accounts, NEW n \in Nat
    PROVE  /\ Credit(b, who, n) \in [Accounts -> Nat]
           /\ Cardinality(ShareUnits(Credit(b, who, n)))
                = Cardinality(ShareUnits(b)) + n
<1> DEFINE c   == Credit(b, who, n)
           new == {who} \X (b[who] + 1 .. b[who] + n)
<1>1. /\ c \in [Accounts -> Nat]
      /\ c[who] = b[who] + n
      /\ \A a \in Accounts \ {who} : c[a] = b[a]
  BY DEF Credit
<1>2. ShareUnits(c) = ShareUnits(b) \cup new
  <2>1. ASSUME NEW u \in ShareUnits(c)
        PROVE  u \in ShareUnits(b) \cup new
    <3>1. PICK a \in Accounts : u \in {a} \X (1 .. c[a])
      BY <2>1, UnitMember
    <3>2. CASE a # who
      BY <3>1, <3>2, <1>1, UnitMember
    <3>3. CASE a = who
      <4>1. PICK i \in 1 .. c[who] : u = <<who, i>>
        BY <3>1, <3>3
      <4>2. i \in 1 .. b[who] \/ i \in b[who] + 1 .. b[who] + n
        BY <4>1, <1>1
      <4>3. CASE i \in 1 .. b[who]
        BY <4>1, <4>3, UnitMember
      <4>4. CASE i \in b[who] + 1 .. b[who] + n
        BY <4>1, <4>4
      <4> QED
        BY <4>2, <4>3, <4>4
    <3> QED
      BY <3>2, <3>3
  <2>2. ASSUME NEW u \in ShareUnits(b)
        PROVE  u \in ShareUnits(c)
    <3>1. PICK a \in Accounts : u \in {a} \X (1 .. b[a])
      BY <2>2, UnitMember
    <3>2. PICK i \in 1 .. b[a] : u = <<a, i>>
      BY <3>1
    <3>3. i \in 1 .. c[a]
      BY <3>2, <1>1
    <3> QED
      BY <3>2, <3>3, UnitMember
  <2>3. ASSUME NEW u \in new
        PROVE  u \in ShareUnits(c)
    <3>1. PICK i \in b[who] + 1 .. b[who] + n : u = <<who, i>>
      BY <2>3
    <3>2. i \in 1 .. c[who]
      BY <3>1, <1>1
    <3> QED
      BY <3>1, <3>2, UnitMember
  <2> QED
    BY <2>1, <2>2, <2>3
<1>3. ShareUnits(b) \cap new = {}
  <2> SUFFICES ASSUME NEW u \in ShareUnits(b), u \in new
               PROVE  FALSE
    OBVIOUS
  <2>1. PICK a \in Accounts : u \in {a} \X (1 .. b[a])
    BY UnitMember
  <2>2. PICK i \in 1 .. b[a] : u = <<a, i>>
    BY <2>1
  <2>3. PICK j \in b[who] + 1 .. b[who] + n : u = <<who, j>>
    OBVIOUS
  <2> QED
    BY <2>2, <2>3
<1>4. IsFiniteSet(new) /\ Cardinality(new) = n
  <2> DEFINE lo    == b[who] + 1
             hi    == b[who] + n
             range == lo .. hi
             one   == {who}
  <2>1. lo \in Int /\ hi \in Int /\ hi - lo + 1 = n /\ (lo > hi => n = 0)
    OBVIOUS
  <2> HIDE DEF lo, hi
  <2>2. IsFiniteSet(range) /\ Cardinality(range) = n
    BY <2>1, FS_Interval
  <2>3. IsFiniteSet(one) /\ Cardinality(one) = 1
    BY FS_Singleton
  <2> HIDE DEF range, one
  <2>4. IsFiniteSet(one \X range) /\ Cardinality(one \X range) = 1 * n
    BY <2>2, <2>3, FS_Product
  <2> QED
    BY <2>4 DEF range, one, lo, hi
<1>5. Cardinality(ShareUnits(c)) = Cardinality(ShareUnits(b)) + n
  <2> DEFINE old == ShareUnits(b)
  <2>1. IsFiniteSet(old) /\ Cardinality(old) \in Nat
    BY UnitsFinite
  <2>2. old \cap new = {} /\ ShareUnits(c) = old \cup new
    BY <1>2, <1>3
  <2> HIDE DEF old, new, c
  <2>3. Cardinality(old \cup new)
          = Cardinality(old) + Cardinality(new) - Cardinality(old \cap new)
    BY <2>1, <1>4, FS_Union
  <2>4. Cardinality(old \cap new) = 0
    BY <2>2, FS_EmptySet
  <2> QED
    BY <2>1, <2>2, <2>3, <2>4, <1>4 DEF old
<1> QED
  BY <1>1, <1>5

\* Debiting n shares that are there takes n from the sum.
LEMMA DebitUnits ==
    ASSUME NEW b \in [Accounts -> Nat], NEW who \in Accounts,
           NEW n \in Nat, n <= b[who]
    PROVE  /\ Debit(b, who, n) \in [Accounts -> Nat]
           /\ Cardinality(ShareUnits(Debit(b, who, n)))
                = Cardinality(ShareUnits(b)) - n
<1> DEFINE d == Debit(b, who, n)
<1>1. d \in [Accounts -> Nat]
  BY DEF Debit
<1>2. Credit(d, who, n) = b
  <2>1. \A a \in Accounts : b[a] \in Nat
    OBVIOUS
  <2>2. d[who] = b[who] - n /\ \A a \in Accounts \ {who} : d[a] = b[a]
    BY DEF Debit
  <2>3. d[who] + n = b[who]
    BY <2>1, <2>2
  <2>4. \A a \in Accounts : Credit(d, who, n)[a] = b[a]
    BY <1>1, <2>2, <2>3 DEF Credit
  <2>5. Credit(d, who, n) = [a \in Accounts |-> Credit(d, who, n)[a]]
    BY <1>1 DEF Credit
  <2>6. b = [a \in Accounts |-> b[a]]
    OBVIOUS
  <2> HIDE DEF d
  <2> QED
    BY <2>4, <2>5, <2>6
<1>3. Cardinality(ShareUnits(b)) = Cardinality(ShareUnits(d)) + n
  BY <1>1, <1>2, CreditUnits
<1>4. Cardinality(ShareUnits(d)) \in Nat
  BY <1>1, UnitsFinite
<1> QED
  BY <1>1, <1>3, <1>4

\* No balance exceeds the sum.
LEMMA BalanceBelowSum ==
    ASSUME NEW b \in [Accounts -> Nat], NEW who \in Accounts
    PROVE  b[who] <= Cardinality(ShareUnits(b))
<1>1. b[who] \in Nat
  OBVIOUS
<1>2. /\ Cardinality(ShareUnits(Debit(b, who, b[who])))
           = Cardinality(ShareUnits(b)) - b[who]
      /\ Debit(b, who, b[who]) \in [Accounts -> Nat]
  BY <1>1, DebitUnits
<1>3. /\ Cardinality(ShareUnits(Debit(b, who, b[who]))) \in Nat
      /\ Cardinality(ShareUnits(b)) \in Nat
  BY <1>2, UnitsFinite
<1> QED
  BY <1>1, <1>2, <1>3

-----------------------------------------------------------------------------
(* Balances that agree with a supply, and how calls keep them in agreement. *)

\* The balances b are a ledger of n shares with the seed in place.
BalancesOK(b, n) == /\ b \in [Accounts -> Nat]
                    /\ Cardinality(ShareUnits(b)) = n
                    /\ b[Vault] = SeedShares

LEMMA SeedPositive == SeedShares \in Nat \ {0}
  BY ShareAssumption DEF SeedShares

LEMMA SupplyPositive ==
    ASSUME NEW b, NEW n, BalancesOK(b, n)
    PROVE  n \in Nat \ {0} /\ \A a \in Accounts : b[a] <= n
<1>1. Vault \in Accounts
  BY DEF Accounts
<1>2. n \in Nat /\ \A a \in Accounts : b[a] <= n
  BY UnitsFinite, BalanceBelowSum DEF BalancesOK
<1> QED
  BY <1>1, <1>2, SeedPositive DEF BalancesOK

LEMMA CreditKeeps ==
    ASSUME NEW b, NEW n, BalancesOK(b, n), NEW who \in Holders, NEW k \in Nat
    PROVE  BalancesOK(Credit(b, who, k), n + k)
<1>1. who \in Accounts /\ who # Vault /\ Vault \in Accounts
  BY ShareAssumption DEF Accounts
<1>2. Credit(b, who, k)[Vault] = b[Vault]
  BY <1>1 DEF Credit, BalancesOK
<1> QED
  BY <1>1, <1>2, CreditUnits DEF BalancesOK

LEMMA DebitKeeps ==
    ASSUME NEW b, NEW n, BalancesOK(b, n), NEW who \in Holders,
           NEW k \in Nat, k <= b[who]
    PROVE  BalancesOK(Debit(b, who, k), n - k)
<1>1. who \in Accounts /\ who # Vault /\ Vault \in Accounts
  BY ShareAssumption DEF Accounts
<1>2. Debit(b, who, k)[Vault] = b[Vault]
  BY <1>1 DEF Debit, BalancesOK
<1> QED
  BY <1>1, <1>2, DebitUnits DEF BalancesOK

-----------------------------------------------------------------------------
(* The inductive invariant.                                                *)

\* The properties need each other: fees settle on a positive supply only
\* because the seed never leaves, and within a year of the last checkpoint.
Inv == /\ TypeOK
       /\ state.last_fee <= now
       /\ BalancesOK(balance, state.supply)
       /\ PerformanceDustBound

LEMMA StateFacts ==
    ASSUME Inv
    PROVE  /\ state.supply \in Nat \ {0}
           /\ state.high_water \in Nat /\ state.performance_dust \in Nat
           /\ state.performance_dust <= state.high_water
           /\ state.window_equity \in Nat /\ state.last_fee \in Nat
           /\ RatesOK(fees) /\ fees.recipient \in Holders /\ fees \in FeeTerms
           /\ now \in Nat /\ price \in Nat
           /\ holdings.usdc \in Nat /\ holdings.asset \in Nat
           /\ holdings.supply \in Nat /\ holdings.collateral \in Nat
           /\ holdings.debt \in Nat
<1>1. state \in StateSet /\ fees \in FeeTerms /\ holdings \in HoldingSet
  BY DEF Inv, TypeOK
<1>2. state.supply \in Nat \ {0}
  BY SupplyPositive DEF Inv
<1>3. /\ state.high_water \in Nat /\ state.performance_dust \in Nat
      /\ state.window_equity \in Nat /\ state.last_fee \in Nat
  BY <1>1 DEF StateSet
<1>4. RatesOK(fees) /\ fees.recipient \in Holders
  BY <1>1 DEF FeeTerms, RatesOK
<1>5. /\ holdings.usdc \in Nat /\ holdings.asset \in Nat
      /\ holdings.supply \in Nat /\ holdings.collateral \in Nat
      /\ holdings.debt \in Nat
  BY <1>1 DEF HoldingSet
<1> QED
  BY <1>2, <1>3, <1>4, <1>5 DEF Inv, TypeOK, PerformanceDustBound

LEMMA EquityInt ==
    ASSUME Inv PROVE Equity(holdings) \in Int
<1>1. MulDivFloor(holdings.asset, price, PRICE_SCALE) \in Nat
  BY StateFacts, ShareAssumption, FloorBounds
<1> QED
  BY <1>1, StateFacts DEF Equity

\* A settlement s of the current state that a call may go on with.
SettlementOK(s) ==
    /\ s.minted \in Nat
    /\ s.state \in StateSet
    /\ s.state.supply = state.supply + s.minted
    /\ s.state.last_fee <= now
    /\ s.state.high_water >= state.high_water
    /\ s.state.performance_dust <= s.state.high_water
    /\ s.state.paused = state.paused

LEMMA PricedSettlement ==
    ASSUME Inv, CanSettle PROVE SettlementOK(Settlement)
<1>1. state \in StateSet
  BY DEF Inv, TypeOK
<1>2. SettleDefined(state, fees, now, Equity(holdings)) /\ state.last_fee <= now
  BY DEF CanSettle, Inv
<1> QED
  BY <1>1, <1>2, StateFacts, EquityInt, SettlePreserves
     DEF SettlementOK, Settlement

LEMMA UnpricedSettlement ==
    ASSUME Inv PROVE SettlementOK(Management(state, fees, now))
<1>1. state \in StateSet /\ state.last_fee <= now
  BY DEF Inv, TypeOK
<1> QED
  BY <1>1, StateFacts, ManagementPreserves DEF SettlementOK

\* Once the fee shares are credited the balances agree with the new supply.
LEMMA SettledKeeps ==
    ASSUME Inv, NEW s, SettlementOK(s)
    PROVE  BalancesOK(Settled(s.minted), s.state.supply)
<1>1. BalancesOK(balance, state.supply)
  BY DEF Inv
<1>2. s.minted \in Nat /\ s.state.supply = state.supply + s.minted
  BY DEF SettlementOK
<1>3. fees.recipient \in Holders
  BY StateFacts
<1> QED
  BY <1>1, <1>2, <1>3, CreditKeeps DEF Settled

\* What a settlement hands on, field by field.
LEMMA SettlementFacts ==
    ASSUME Inv, NEW s, SettlementOK(s)
    PROVE  /\ s.minted \in Nat /\ s.state \in StateSet
           /\ s.state.supply \in Nat \ {0}
           /\ s.state.high_water \in Nat /\ s.state.performance_dust \in Nat
           /\ s.state.window_equity \in Nat /\ s.state.last_fee \in Nat
           /\ s.state.high_water >= state.high_water
           /\ s.state.performance_dust <= s.state.high_water
           /\ s.state.last_fee <= now
           /\ s.state.paused = state.paused
           /\ BalancesOK(Settled(s.minted), s.state.supply)
<1>1. s.state \in StateSet
  BY DEF SettlementOK
<1>2. /\ s.state.high_water \in Nat /\ s.state.performance_dust \in Nat
      /\ s.state.window_equity \in Nat /\ s.state.last_fee \in Nat
  BY <1>1 DEF StateSet
<1>3. BalancesOK(Settled(s.minted), s.state.supply)
  BY SettledKeeps
<1>4. s.state.supply \in Nat \ {0}
  BY <1>3, SupplyPositive
<1> QED
  BY <1>1, <1>2, <1>3, <1>4 DEF SettlementOK

\* ScaleDown never exceeds what it scales.
LEMMA ScaleDownBounds ==
    ASSUME NEW n \in Nat, NEW supply \in Nat \ {0},
           NEW shares \in Nat, shares <= supply
    PROVE  ScaleDown(n, shares, supply) \in 0 .. n
<1> DEFINE q    == ScaleDown(n, shares, supply)
           left == supply - shares
<1>1. left \in Nat /\ left <= supply
  OBVIOUS
<1> HIDE DEF left
<1>2. q \in Nat /\ q * supply <= n * left
  BY <1>1, FloorBounds DEF ScaleDown, left
<1>3. n * left <= n * supply
  BY <1>1
<1> HIDE DEF q
<1>4. q * supply <= n * supply
  BY <1>1, <1>2, <1>3
<1>5. q <= n
  BY <1>2, <1>4
<1> QED
  BY <1>2, <1>5 DEF q

-----------------------------------------------------------------------------
(* One lemma per action.                                                   *)

\* What no call of the share ledger does: lower the high-water mark, change the
\* fee terms, pause or resume, or turn back the clock.
Steady == /\ state'.high_water >= state.high_water
          /\ state'.paused = state.paused
          /\ fees' = fees
          /\ now' >= now

\* The next state is again within the invariant when its parts are.
LEMMA InvParts ==
    ASSUME Inv,
           state' \in StateSet, state'.last_fee <= now',
           state'.performance_dust <= state'.high_water,
           BalancesOK(balance', state'.supply),
           fees' \in FeeTerms,
           allowance' \in [Holders -> [Holders -> Allowance]],
           holdings' \in HoldingSet, price' \in Nat, now' \in Nat,
           signers' \subseteq Holders
    PROVE  Inv'
<1>1. state'.performance_dust \in Nat /\ state'.high_water \in Nat
  BY DEF StateSet
<1>2. balance' \in [Accounts -> Nat] /\ fees' \in FeeTerms
  BY DEF BalancesOK, Inv, TypeOK
<1>3. BalancesOK(balance, state.supply)'
  BY DEF BalancesOK, ShareUnits
<1> QED
  BY <1>1, <1>2, <1>3 DEF Inv, TypeOK, PerformanceDustBound

LEMMA IssuePreserves ==
    ASSUME Inv, NEW s, SettlementOK(s), NEW assets, NEW shares,
           NEW receiver \in Accounts, NEW operator \in Holders,
           Issue(s, assets, shares, receiver, operator)
    PROVE  Inv' /\ Steady
<1>1. assets \in Nat /\ shares \in Nat /\ receiver \in Holders
  BY ShareAssumption DEF Issue, IsPositive, Accounts
<1>2. BalancesOK(balance', s.state.supply + shares)
  BY <1>1, SettlementFacts, CreditKeeps DEF Issue
<1> DEFINE next == [s.state EXCEPT
                      !.supply        = s.state.supply + shares,
                      !.window_equity = s.state.window_equity + assets]
<1>3. state' = next
  BY DEF Issue
<1>4. /\ s.state.supply + shares \in Nat
      /\ s.state.window_equity + assets \in Nat
  BY <1>1, SettlementFacts
<1>5. /\ next \in StateSet
      /\ next.supply = s.state.supply + shares
      /\ next.last_fee = s.state.last_fee
      /\ next.high_water = s.state.high_water
      /\ next.performance_dust = s.state.performance_dust
      /\ next.paused = s.state.paused
  BY <1>4, SettlementFacts DEF StateSet
<1>6. holdings' \in HoldingSet
  <2>1. holdings' = [holdings EXCEPT !.usdc = holdings.usdc + assets]
    BY DEF Issue
  <2>2. holdings.usdc + assets \in Nat /\ holdings \in HoldingSet
    BY <1>1, StateFacts DEF Inv, TypeOK
  <2> QED
    BY <2>1, <2>2 DEF HoldingSet
<1>7. /\ fees' = fees /\ allowance' = allowance /\ price' = price
      /\ now' = now /\ signers' = {operator}
  BY DEF Issue
<1>8. signers' \subseteq Holders
  BY <1>7, ShareAssumption
<1> HIDE DEF next
<1> QED
  BY <1>2, <1>3, <1>5, <1>6, <1>7, <1>8, SettlementFacts, StateFacts, InvParts
     DEF Steady, Inv, TypeOK

LEMMA SpendType ==
    ASSUME Inv, NEW owner \in Holders, NEW spender \in Holders, NEW n \in Nat,
           CanSpend(owner, spender, n)
    PROVE  Spend(owner, spender, n) \in [Holders -> [Holders -> Allowance]]
<1>1. allowance \in [Holders -> [Holders -> Allowance]]
  BY DEF Inv, TypeOK
<1>2. CASE owner = spender
  BY <1>1, <1>2 DEF Spend
<1>3. CASE owner # spender
  <2>1. allowance[owner][spender] \in Allowance
        /\ allowance[owner][spender].amount >= n
    BY <1>1, <1>3 DEF CanSpend
  <2>2. allowance[owner][spender].amount - n \in Nat
    BY <2>1 DEF Allowance
  <2> DEFINE left == [allowance[owner][spender] EXCEPT
                        !.amount = allowance[owner][spender].amount - n]
  <2>3. left \in Allowance
    BY <2>1, <2>2 DEF Allowance
  <2>4. Spend(owner, spender, n) =
          [allowance EXCEPT ![owner] = [@ EXCEPT ![spender] = left]]
    BY <1>3 DEF Spend
  <2> HIDE DEF left
  <2>5. [allowance[owner] EXCEPT ![spender] = left] \in [Holders -> Allowance]
    BY <1>1, <2>3
  <2> QED
    BY <1>1, <2>4, <2>5
<1> QED
  BY <1>2, <1>3

LEMMA ExitPreserves ==
    ASSUME Inv, NEW s, SettlementOK(s), NEW assets, NEW shares,
           NEW receiver \in Accounts, NEW owner \in Holders,
           NEW operator \in Holders,
           Exit(s, assets, shares, receiver, owner, operator)
    PROVE  Inv' /\ Steady
<1>1. /\ assets \in Nat /\ shares \in Nat /\ shares <= s.state.supply
      /\ shares <= Settled(s.minted)[owner] /\ assets <= holdings.usdc
      /\ CanSpend(owner, operator, shares)
  <2>1. Settled(s.minted)[owner] \in Nat
    BY SettlementFacts DEF BalancesOK, Accounts
  <2> QED
    BY <2>1, SettlementFacts, StateFacts
       DEF Exit, CanExit, CanDebit, IsPositive, IsAmount
<1>2. BalancesOK(balance', s.state.supply - shares)
  BY <1>1, SettlementFacts, DebitKeeps DEF Exit
<1> DEFINE dust   == ScaleDown(s.state.performance_dust, shares, s.state.supply)
           window == Greatest(s.state.window_equity - assets, 0)
           next   == [s.state EXCEPT !.performance_dust = dust,
                                     !.window_equity    = window,
                                     !.supply = s.state.supply - shares]
<1>3. state' = next
  BY DEF Exit
<1>4. /\ s.state.supply - shares \in Nat
      /\ dust \in 0 .. s.state.performance_dust
      /\ window \in Nat
  <2>1. /\ s.state.supply \in Nat \ {0}
        /\ s.state.performance_dust \in Nat /\ s.state.window_equity \in Nat
    BY SettlementFacts
  <2>2. s.state.supply - shares \in Nat
    BY <1>1, <2>1
  <2>3. dust \in 0 .. s.state.performance_dust
    BY <1>1, <2>1, ScaleDownBounds
  <2>4. window \in Nat
    BY <1>1, <2>1 DEF Greatest
  <2> QED
    BY <2>2, <2>3, <2>4
<1> HIDE DEF dust, window
<1>9. dust \in Nat /\ s.state \in StateSet
  BY <1>4, SettlementFacts
<1>5. /\ next \in StateSet
      /\ next.supply = s.state.supply - shares
      /\ next.last_fee = s.state.last_fee
      /\ next.high_water = s.state.high_water
      /\ next.performance_dust = dust
      /\ next.paused = s.state.paused
  BY <1>4, <1>9 DEF StateSet
<1>6. dust <= s.state.high_water
  BY <1>4, SettlementFacts
<1>7. holdings' \in HoldingSet
  <2>1. holdings' = [holdings EXCEPT !.usdc = holdings.usdc - assets]
    BY DEF Exit
  <2>2. holdings.usdc - assets \in Nat /\ holdings \in HoldingSet
    BY <1>1, StateFacts DEF Inv, TypeOK
  <2> QED
    BY <2>1, <2>2 DEF HoldingSet
<1>8. /\ fees' = fees /\ price' = price /\ now' = now /\ signers' = {operator}
      /\ allowance' \in [Holders -> [Holders -> Allowance]]
  BY <1>1, SpendType DEF Exit
<1> HIDE DEF next
<1> QED
  BY <1>2, <1>3, <1>5, <1>6, <1>7, <1>8, SettlementFacts, StateFacts, InvParts
     DEF Steady

LEMMA BurnFromPreserves ==
    ASSUME Inv, NEW s, SettlementOK(s), NEW spender \in Holders,
           NEW from \in Holders, NEW amount,
           BurnFrom(s, spender, from, amount)
    PROVE  Inv' /\ Steady
<1>1. /\ amount \in Nat /\ amount <= Settled(s.minted)[from]
      /\ CanSpend(from, spender, amount)
  <2>1. Settled(s.minted)[from] \in Nat
    BY SettlementFacts DEF BalancesOK, Accounts
  <2> QED
    BY <2>1 DEF BurnFrom, CanDebit, IsAmount
<1>2. BalancesOK(balance', s.state.supply - amount)
  BY <1>1, SettlementFacts, DebitKeeps DEF BurnFrom
<1> DEFINE next == [s.state EXCEPT !.supply = s.state.supply - amount]
<1>3. state' = next
  BY DEF BurnFrom
<1>4. s.state.supply - amount \in Nat
  BY <1>2, SupplyPositive
<1>5. /\ next \in StateSet
      /\ next.supply = s.state.supply - amount
      /\ next.last_fee = s.state.last_fee
      /\ next.high_water = s.state.high_water
      /\ next.performance_dust = s.state.performance_dust
      /\ next.paused = s.state.paused
  BY <1>4, SettlementFacts DEF StateSet
<1>6. /\ fees' = fees /\ price' = price /\ now' = now /\ signers' = {spender}
      /\ holdings' = holdings
      /\ allowance' \in [Holders -> [Holders -> Allowance]]
  BY <1>1, SpendType DEF BurnFrom
<1> HIDE DEF next
<1> QED
  BY <1>2, <1>3, <1>5, <1>6, SettlementFacts, StateFacts, InvParts
     DEF Steady, Inv, TypeOK

\* A basket share never exceeds what is there.
LEMMA BasketShareBounds ==
    ASSUME NEW s, NEW spot \in Nat, NEW shares \in Nat,
           s.state.supply \in Nat \ {0}, shares <= s.state.supply
    PROVE  BasketShare(s, spot, shares) \in 0 .. spot
<1> DEFINE S == s.state.supply
           q == BasketShare(s, spot, shares)
<1>1. q \in Nat /\ q * S <= spot * shares
  BY FloorBounds DEF BasketShare
<1> HIDE DEF q
<1>5. S \in Nat \ {0} /\ shares <= S
  OBVIOUS
<1> HIDE DEF S
<1>2. spot * shares <= spot * S
  BY <1>5
<1>3. q * S <= spot * S
  BY <1>1, <1>2, <1>5
<1>4. q <= spot
  BY <1>1, <1>3, <1>5
<1> QED
  BY <1>1, <1>4 DEF q

LEMMA RedeemInKindPreserves ==
    ASSUME Inv, NEW s, SettlementOK(s), NEW shares, NEW owner \in Holders,
           NEW receiver, NEW minima, NEW deadline,
           RedeemInKind(s, shares, owner, receiver, minima, deadline)
    PROVE  Inv' /\ Steady
<1>1. /\ shares \in Nat /\ shares <= s.state.supply
      /\ shares <= Settled(s.minted)[owner]
  <2>1. Settled(s.minted)[owner] \in Nat
    BY SettlementFacts DEF BalancesOK, Accounts
  <2> QED
    BY <2>1, SettlementFacts DEF RedeemInKind, CanDebit, IsPositive, IsAmount
<1>2. BalancesOK(balance', s.state.supply - shares)
  BY <1>1, SettlementFacts, DebitKeeps DEF RedeemInKind
<1> DEFINE dust   == ScaleDown(s.state.performance_dust, shares, s.state.supply)
           window == ScaleDown(s.state.window_equity, shares, s.state.supply)
           next   == [s.state EXCEPT !.performance_dust = dust,
                                     !.window_equity    = window,
                                     !.supply = s.state.supply - shares]
<1>3. state' = next
  BY DEF RedeemInKind
<1>4. /\ s.state.supply - shares \in Nat
      /\ dust \in 0 .. s.state.performance_dust
      /\ window \in 0 .. s.state.window_equity
  <2>1. /\ s.state.supply \in Nat \ {0}
        /\ s.state.performance_dust \in Nat /\ s.state.window_equity \in Nat
    BY SettlementFacts
  <2>2. s.state.supply - shares \in Nat
    BY <1>1, <2>1
  <2>3. dust \in 0 .. s.state.performance_dust
    BY <1>1, <2>1, ScaleDownBounds
  <2>4. window \in 0 .. s.state.window_equity
    BY <1>1, <2>1, ScaleDownBounds
  <2> QED
    BY <2>2, <2>3, <2>4
<1> HIDE DEF dust, window
<1>5. dust \in Nat /\ window \in Nat /\ s.state \in StateSet
      /\ dust <= s.state.high_water
  BY <1>4, SettlementFacts
<1>6. /\ next \in StateSet
      /\ next.supply = s.state.supply - shares
      /\ next.last_fee = s.state.last_fee
      /\ next.high_water = s.state.high_water
      /\ next.performance_dust = dust
      /\ next.paused = s.state.paused
  BY <1>4, <1>5 DEF StateSet
<1>7. holdings' \in HoldingSet
  <2> DEFINE usdc  == BasketShare(s, holdings.usdc, shares)
             asset == BasketShare(s, holdings.asset, shares)
  <2>1. holdings' = [holdings EXCEPT !.usdc  = holdings.usdc - usdc,
                                     !.asset = holdings.asset - asset]
    BY DEF RedeemInKind
  <2>2. usdc \in 0 .. holdings.usdc /\ asset \in 0 .. holdings.asset
    BY <1>1, SettlementFacts, StateFacts, BasketShareBounds
  <2> HIDE DEF usdc, asset
  <2>3. /\ holdings.usdc - usdc \in Nat /\ holdings.asset - asset \in Nat
        /\ holdings \in HoldingSet
    BY <2>2, StateFacts DEF Inv, TypeOK
  <2> QED
    BY <2>1, <2>3 DEF HoldingSet
<1>8. /\ fees' = fees /\ price' = price /\ now' = now /\ signers' = {owner}
      /\ allowance' = allowance
  BY DEF RedeemInKind
<1> HIDE DEF next
<1> QED
  BY <1>2, <1>3, <1>5, <1>6, <1>7, <1>8, SettlementFacts, StateFacts, InvParts
     DEF Steady, Inv, TypeOK

\* A step that leaves the share ledger alone.
LEMMA QuietPreserves ==
    ASSUME Inv, UNCHANGED <<state, fees, balance>>, now' >= now, now' \in Nat,
           allowance' \in [Holders -> [Holders -> Allowance]],
           holdings' \in HoldingSet, price' \in Nat, signers' \subseteq Holders
    PROVE  Inv' /\ Steady
<1>1. /\ state \in StateSet /\ state.last_fee <= now
      /\ BalancesOK(balance, state.supply)
  BY DEF Inv, TypeOK
<1>2. state'.last_fee <= now'
  BY <1>1, StateFacts
<1>3. BalancesOK(balance', state'.supply)
  BY <1>1
<1>4. state' \in StateSet /\ state'.performance_dust <= state'.high_water
  BY <1>1, StateFacts
<1> QED
  BY <1>2, <1>3, <1>4, StateFacts, InvParts
     DEF Steady

LEMMA ApprovePreserves ==
    ASSUME Inv, NEW from \in Holders, NEW spender \in Holders,
           NEW amount, NEW expiration \in Deadlines,
           Approve(from, spender, amount, expiration)
    PROVE  Inv' /\ Steady
<1>1. [amount |-> amount, expiration |-> expiration] \in Allowance
  BY ShareAssumption DEF Approve, IsAmount, Allowance
<1>2. allowance' \in [Holders -> [Holders -> Allowance]]
  BY <1>1 DEF Approve, Inv, TypeOK
<1> QED
  BY <1>2, StateFacts, QuietPreserves DEF Approve, Inv, TypeOK

\* A transfer moves shares between holders and keeps their sum.
LEMMA MovePreserves ==
    ASSUME Inv, NEW from \in Accounts, NEW to \in Accounts, NEW amount,
           Move(from, to, amount),
           UNCHANGED <<state, fees, holdings, price, now>>,
           allowance' \in [Holders -> [Holders -> Allowance]],
           signers' \subseteq Holders
    PROVE  Inv' /\ Steady
<1>1. /\ from \in Holders /\ to \in Holders /\ amount \in Nat
      /\ amount <= balance[from]
  <2>1. balance[from] \in Nat
    BY DEF Inv, TypeOK
  <2> QED
    BY <2>1 DEF Move, CanDebit, IsAmount, Accounts
<1>2. BalancesOK(Debit(balance, from, amount), state.supply - amount)
  BY <1>1, DebitKeeps DEF Inv
<1>3. BalancesOK(balance', (state.supply - amount) + amount)
  BY <1>1, <1>2, CreditKeeps DEF Move
<1>4. (state.supply - amount) + amount = state.supply
  BY <1>1, StateFacts
<1>5. state \in StateSet /\ state.last_fee <= now /\ holdings \in HoldingSet
  BY DEF Inv, TypeOK
<1> QED
  BY <1>3, <1>4, <1>5, StateFacts, InvParts
     DEF Steady

\* A step that settles fees and nothing else, except for the loss budget.
LEMMA SettlingPreserves ==
    ASSUME Inv, NEW s, SettlementOK(s), NEW w \in Nat,
           state' = [s.state EXCEPT !.window_equity = w],
           balance' = Settled(s.minted),
           UNCHANGED <<fees, allowance, price, now>>,
           holdings' \in HoldingSet, signers' = {}
    PROVE  Inv' /\ Steady
<1>1. /\ state' \in StateSet
      /\ state'.supply = s.state.supply
      /\ state'.last_fee = s.state.last_fee
      /\ state'.high_water = s.state.high_water
      /\ state'.performance_dust = s.state.performance_dust
      /\ state'.paused = s.state.paused
  BY SettlementFacts DEF StateSet
<1>2. BalancesOK(balance', state'.supply)
  BY <1>1, SettlementFacts
<1> QED
  BY <1>1, <1>2, SettlementFacts, StateFacts, InvParts
     DEF Steady, Inv, TypeOK

LEMMA SettleOnlyPreserves ==
    ASSUME Inv, NEW s, SettlementOK(s), state' = s.state,
           balance' = Settled(s.minted), signers' = {},
           UNCHANGED <<fees, allowance, holdings, price, now>>
    PROVE  Inv' /\ Steady
<1>1. s.state = [s.state EXCEPT !.window_equity = s.state.window_equity]
  BY SettlementFacts DEF StateSet
<1> QED
  BY <1>1, SettlementFacts, SettlingPreserves DEF Inv, TypeOK

LEMMA RebalancePreserves ==
    ASSUME Inv, NEW h \in HoldingSet, Rebalance(h)
    PROVE  Inv' /\ Steady
<1>1. SettlementOK(Settlement)
  BY PricedSettlement DEF Rebalance, FlowOpen
<1>2. Equity(holdings) \in Nat
  BY EquityInt DEF Rebalance, FlowOpen
<1>3. PICK w \in {state.window_equity, Equity(holdings)} :
         state' = [Settlement.state EXCEPT !.window_equity = w]
  BY DEF Rebalance
<1>4. w \in Nat
  BY <1>2, <1>3, StateFacts
<1>5. holdings' \in HoldingSet
  BY DEF Rebalance
<1>6. /\ balance' = Settled(Settlement.minted) /\ signers' = {}
      /\ UNCHANGED <<fees, allowance, price, now>>
  BY DEF Rebalance
<1> QED
  BY <1>1, <1>3, <1>4, <1>5, <1>6, SettlingPreserves

LEMMA FlowsPreserve ==
    ASSUME Inv, Flows PROVE Inv' /\ Steady
<1>1. SettlementOK(Settlement)
  BY PricedSettlement DEF Flows, FlowOpen
<1>2. CASE Issuing(Settlement)
  <2>1. PICK amount \in Amounts, receiver \in Accounts, operator \in Operators,
             limit \in Limits, deadline \in Deadlines :
          \/ Deposit(Settlement, amount, receiver, operator, limit, deadline)
          \/ Mint(Settlement, amount, receiver, operator, limit, deadline)
    BY <1>2 DEF Issuing
  <2>2. \E assets, shares : Issue(Settlement, assets, shares, receiver, operator)
    BY <2>1 DEF Deposit, Mint
  <2> QED
    BY <1>1, <2>2, ShareAssumption, IssuePreserves
<1>3. CASE Exiting(Settlement)
  <2>1. PICK amount \in Amounts, owner \in Holders, operator \in Holders :
          \/ \E receiver \in {owner, Vault}, limit \in Limits,
                deadline \in Deadlines :
               \/ Withdraw(Settlement, amount, receiver, owner, operator, limit, deadline)
               \/ Redeem(Settlement, amount, receiver, owner, operator, limit, deadline)
          \/ BurnFrom(Settlement, operator, owner, amount)
    BY <1>3 DEF Exiting
  <2>2. CASE BurnFrom(Settlement, operator, owner, amount)
    BY <1>1, <2>2, BurnFromPreserves
  <2>3. CASE ~BurnFrom(Settlement, operator, owner, amount)
    <3>1. PICK receiver \in {owner, Vault} :
            \E assets, shares :
               Exit(Settlement, assets, shares, receiver, owner, operator)
      BY <2>1, <2>3 DEF Withdraw, Redeem
    <3>2. receiver \in Accounts
      BY <3>1 DEF Accounts
    <3> QED
      BY <1>1, <3>1, <3>2, ExitPreserves
  <2> QED
    BY <2>2, <2>3
<1> QED
  BY <1>2, <1>3 DEF Flows

LEMMA BasketExitsPreserve ==
    ASSUME Inv, BasketExits PROVE Inv' /\ Steady
<1>1. SettlementOK(BasketSettlement)
  BY PricedSettlement, UnpricedSettlement
     DEF BasketExits, BasketOpen, BasketSettlement
<1>2. PICK amount \in Amounts, owner \in Holders, least \in {0} \cup Limits,
           deadline \in Deadlines :
        \E receiver \in {owner, Vault} :
           RedeemInKind(BasketSettlement, amount, owner, receiver,
                        [usdc |-> 0, asset |-> least], deadline)
  BY DEF BasketExits
<1> QED
  BY <1>1, <1>2, RedeemInKindPreserves

LEMMA TokenPreserves ==
    ASSUME Inv, Token PROVE Inv' /\ Steady
<1>1. CASE \E amount \in Amounts, from \in Accounts, to \in Accounts :
              Transfer(from, to, amount)
  <2>1. PICK amount \in Amounts, from \in Accounts, to \in Accounts :
          Transfer(from, to, amount)
    BY <1>1
  <2>2. Move(from, to, amount) /\ UNCHANGED <<state, fees, holdings, price, now>>
    BY <2>1 DEF Transfer
  <2>3. allowance' \in [Holders -> [Holders -> Allowance]]
    BY <2>1 DEF Transfer, Inv, TypeOK
  <2>4. signers' \subseteq Holders
    BY <2>1 DEF Transfer, Move, CanDebit, Accounts
  <2> QED
    BY <2>2, <2>3, <2>4, MovePreserves
<1>2. CASE \E amount \in Amounts, from \in Holders, spender \in Holders,
              to \in Accounts : TransferFrom(spender, from, to, amount)
  <2>1. PICK amount \in Amounts, from \in Holders, spender \in Holders,
             to \in Accounts : TransferFrom(spender, from, to, amount)
    BY <1>2
  <2>2. /\ Move(from, to, amount) /\ UNCHANGED <<state, fees, holdings, price, now>>
        /\ CanSpend(from, spender, amount)
        /\ allowance' = Spend(from, spender, amount) /\ signers' = {spender}
    BY <2>1 DEF TransferFrom
  <2>3. amount \in Nat
    BY <2>1, ShareAssumption
  <2>4. allowance' \in [Holders -> [Holders -> Allowance]]
    BY <2>2, <2>3, SpendType
  <2>5. from \in Accounts
    BY DEF Accounts
  <2> QED
    BY <2>2, <2>4, <2>5, MovePreserves
<1>3. CASE \E delegation \in Delegations, amount \in Amounts,
              expiration \in Deadlines :
              Approve(delegation[1], delegation[2], amount, expiration)
  <2>1. PICK delegation \in Delegations, amount \in Amounts,
             expiration \in Deadlines :
          Approve(delegation[1], delegation[2], amount, expiration)
    BY <1>3
  <2>2. delegation[1] \in Holders /\ delegation[2] \in Holders
    BY ShareAssumption
  <2> QED
    BY <2>1, <2>2, ApprovePreserves
<1> QED
  BY <1>1, <1>2, <1>3 DEF Token

LEMMA FeeCallsPreserve ==
    ASSUME Inv, FeeCalls PROVE Inv' /\ Steady
<1>1. CASE CollectFees
  <2>1. SettlementOK(Settlement)
    BY <1>1, PricedSettlement DEF CollectFees
  <2> QED
    BY <1>1, <2>1, SettleOnlyPreserves DEF CollectFees
<1>2. CASE CheckpointFees
  <2>1. SettlementOK(Management(state, fees, now))
    BY UnpricedSettlement
  <2> QED
    BY <1>2, <2>1, SettleOnlyPreserves DEF CheckpointFees
<1> QED
  BY <1>1, <1>2 DEF FeeCalls

LEMMA RecoverPreserves ==
    ASSUME Inv, NEW amount \in Nat, NEW lost \in Nat, RecoverSupply(amount, lost)
    PROVE  Inv' /\ Steady
<1>1. /\ holdings.usdc + amount \in Nat /\ holdings.supply - amount - lost \in Nat
      /\ holdings \in HoldingSet
  BY StateFacts DEF RecoverSupply, Inv, TypeOK
<1>2. holdings' \in HoldingSet
  BY <1>1 DEF RecoverSupply, HoldingSet
<1> QED
  BY <1>2, StateFacts, QuietPreserves DEF RecoverSupply, Inv, TypeOK

LEMMA ExecutionPreserves ==
    ASSUME Inv, Execution PROVE Inv' /\ Steady
<1>1. CASE \E h \in Portfolios : Rebalance(h)
  BY <1>1, ShareAssumption, RebalancePreserves
<1>2. CASE \E amount \in Amounts, lost \in 0 .. 1 : RecoverSupply(amount, lost)
  BY <1>2, ShareAssumption, RecoverPreserves
<1>3. CASE \E amount \in Amounts, lost \in 0 .. 1 : Repay(amount, lost)
  <2>1. PICK amount \in Amounts, lost \in 0 .. 1 : Repay(amount, lost)
    BY <1>3
  <2>2. /\ holdings.usdc - amount - lost \in Nat /\ holdings.debt - amount \in Nat
        /\ holdings \in HoldingSet
    BY <2>1, StateFacts, ShareAssumption DEF Repay, Least, Inv, TypeOK
  <2>3. holdings' \in HoldingSet
    BY <2>1, <2>2 DEF Repay, HoldingSet
  <2> QED
    BY <2>1, <2>3, StateFacts, QuietPreserves DEF Repay, Inv, TypeOK
<1> QED
  BY <1>1, <1>2, <1>3 DEF Execution

LEMMA EnvironmentPreserves ==
    ASSUME Inv, Environment PROVE Inv' /\ Steady
<1>1. CASE \E p \in Marks : Mark(p)
  <2>1. price' \in Nat
    BY <1>1, ShareAssumption DEF Mark
  <2> QED
    BY <1>1, <2>1, StateFacts, QuietPreserves DEF Mark, Inv, TypeOK
<1>2. CASE \E a \in {"usdc", "asset"}, amount \in Donations : Donate(a, amount)
  <2>1. PICK a \in {"usdc", "asset"}, amount \in Donations : Donate(a, amount)
    BY <1>2
  <2>2. holdings[a] + amount \in Nat /\ holdings \in HoldingSet
    BY <2>1, StateFacts, ShareAssumption DEF Inv, TypeOK
  <2>3. holdings' \in HoldingSet
    BY <2>1, <2>2 DEF Donate, HoldingSet
  <2> QED
    BY <2>1, <2>3, StateFacts, QuietPreserves DEF Donate, Inv, TypeOK
<1>3. CASE \E step \in Steps : Tick(step)
  <2>1. now' \in Nat /\ now' >= now
    BY <1>3, StateFacts, ShareAssumption DEF Tick
  <2> QED
    BY <1>3, <2>1, StateFacts, QuietPreserves DEF Tick, Inv, TypeOK
<1> QED
  BY <1>1, <1>2, <1>3 DEF Environment

LEMMA StepPreserves ==
    ASSUME Inv, [Next]_vars PROVE Inv' /\ Steady
<1>1. CASE Next
  BY <1>1, FlowsPreserve, BasketExitsPreserve, TokenPreserves, FeeCallsPreserve,
     ExecutionPreserves, EnvironmentPreserves DEF Next
<1>2. CASE UNCHANGED vars
  BY <1>2, StateFacts, QuietPreserves DEF vars, Inv, TypeOK
<1> QED
  BY <1>1, <1>2

LEMMA InitInv ==
    ASSUME Init PROVE Inv
<1> DEFINE none == [a \in Accounts |-> 0]
<1>1. Vault \in Accounts /\ none \in [Accounts -> Nat]
  BY DEF Accounts
<1>2. Cardinality(ShareUnits(none)) = 0
  <2>1. ShareUnits(none) = {}
    BY DEF ShareUnits
  <2> QED
    BY <2>1, FS_EmptySet
<1>3. balance = Credit(none, Vault, SeedShares)
  BY SeedPositive, <1>1 DEF Init, Credit
<1>4. BalancesOK(balance, SeedShares)
  <2>1. balance[Vault] = SeedShares
    BY <1>1 DEF Init
  <2> HIDE DEF none
  <2> QED
    BY <1>1, <1>2, <1>3, <2>1, SeedPositive, CreditUnits DEF BalancesOK
<1>5. state \in StateSet /\ state.supply = SeedShares /\ state.last_fee = now
      /\ state.performance_dust = 0 /\ state.high_water \in Nat
  <2>1. SCALE \div SHARE_MULTIPLIER \in Nat
    BY ShareAssumption, FeeScaleAssumption
  <2>2. 0 \in 0 .. SCALE - 1
    BY FeeScaleAssumption
  <2> QED
    BY <2>1, <2>2, SeedPositive, ShareAssumption DEF Init, StateSet
<1>6. fees \in FeeTerms /\ price \in Nat /\ now \in Nat /\ signers \subseteq Holders
  BY ShareAssumption DEF Init
<1>7. holdings \in HoldingSet
  BY ShareAssumption DEF Init, HoldingSet
<1>8. allowance \in [Holders -> [Holders -> Allowance]]
  BY DEF Init, NoAllowance, Allowance
<1> QED
  BY <1>4, <1>5, <1>6, <1>7, <1>8
     DEF Inv, TypeOK, BalancesOK, PerformanceDustBound

LEMMA InvSettles ==
    ASSUME Inv PROVE FeesNeverBlock
<1> SUFFICES ASSUME Equity(holdings) > 0, CaughtUp(state, now)
             PROVE  SettleDefined(state, fees, now, Equity(holdings))
  BY DEF FeesNeverBlock
<1>1. Equity(holdings) \in Nat \ {0}
  BY EquityInt
<1>2. state \in StateSet /\ state.last_fee <= now
  BY DEF Inv, TypeOK
<1> QED
  BY <1>1, <1>2, StateFacts, SettleNeverBlocks

-----------------------------------------------------------------------------
(* The theorems.                                                           *)

\* The inductive invariant holds in every reachable state.
THEOREM Invariance == Spec => []Inv
<1>1. Init => Inv
  BY InitInv
<1>2. Inv /\ [Next]_vars => Inv'
  BY StepPreserves
<1> QED
  BY <1>1, <1>2, PTL DEF Spec

\* Every variable keeps its type: in particular the management dust stays below
\* one share and no balance, allowance or holding goes negative.
THEOREM TypeCorrect == Spec => []TypeOK
<1>1. Inv => TypeOK
  BY DEF Inv
<1> QED
  BY <1>1, Invariance, PTL

\* The recorded supply is the sum of the balances (lib.rs issue and exit,
\* token.rs credit, debit and burn, fees.rs settle).
THEOREM SupplyIsSumOfBalances == Spec => []ShareConservation
<1>1. Inv => ShareConservation
  BY DEF Inv, BalancesOK, ShareConservation
<1> QED
  BY <1>1, Invariance, PTL

\* The vault's own address holds exactly the constructor's seed.
THEOREM SeedNeverMoves == Spec => []SeedLocked
<1>1. Inv => SeedLocked
  BY DEF Inv, BalancesOK, SeedLocked
<1> QED
  BY <1>1, Invariance, PTL

\* The performance fee carried between settlements is never negative and never
\* more than one share is worth at the mark.
THEOREM DustIsBounded == Spec => []PerformanceDustBound
<1>1. Inv => PerformanceDustBound
  BY DEF Inv
<1> QED
  BY <1>1, Invariance, PTL

\* A vault with positive equity can settle its fees whenever it is at most a
\* year behind: no sequence of calls makes `performance` abort.
THEOREM FeesAlwaysSettle == Spec => []FeesNeverBlock
<1>1. Inv => FeesNeverBlock
  BY InvSettles
<1> QED
  BY <1>1, Invariance, PTL

\* No step lowers the high-water mark.
THEOREM MarkNeverFalls == Spec => HighWaterMonotone
<1>1. Inv /\ [Next]_vars => [state'.high_water >= state.high_water]_vars
  BY StepPreserves DEF Steady
<1> QED
  BY <1>1, Invariance, PTL DEF Spec, HighWaterMonotone

-----------------------------------------------------------------------------
(* Who may take shares.                                                    *)

\* OnlyAuthorizedDebits, of one owner in one step.
Authorized(owner) ==
    balance'[owner] < balance[owner] =>
      \/ owner \in signers'
      \/ \E s \in signers' :
           /\ allowance[owner][s].expiration >= now
           /\ allowance[owner][s].amount - allowance'[owner][s].amount
                >= balance[owner] - balance'[owner]

LEMMA SettledGrows ==
    ASSUME Inv, NEW s, SettlementOK(s), NEW x \in Accounts
    PROVE  /\ Settled(s.minted)[x] \in Nat /\ balance[x] \in Nat
           /\ Settled(s.minted)[x] >= balance[x]
<1>1. balance \in [Accounts -> Nat] /\ s.minted \in Nat
  BY DEF Inv, TypeOK, SettlementOK
<1>2. Settled(s.minted)[x] = balance[x] + (IF x = fees.recipient THEN s.minted ELSE 0)
  BY <1>1 DEF Settled, Credit
<1> QED
  BY <1>1, <1>2

\* What spends an allowance takes no more from the owner than it spends.
LEMMA SpendAuthorizes ==
    ASSUME Inv, NEW from \in Holders, NEW spender \in Holders, NEW n \in Nat,
           CanSpend(from, spender, n), allowance' = Spend(from, spender, n),
           signers' = {spender}, balance'[from] \in Nat,
           balance[from] - balance'[from] <= n
    PROVE  Authorized(from)
<1>1. CASE from = spender
  BY <1>1 DEF Authorized
<1>2. CASE from # spender
  <2>1. /\ allowance[from][spender].expiration >= now
        /\ allowance[from][spender] \in Allowance
    BY <1>2 DEF CanSpend, Inv, TypeOK
  <2>2. allowance'[from][spender].amount = allowance[from][spender].amount - n
    BY <1>2, <2>1 DEF Spend, Inv, TypeOK, Allowance
  <2>3. allowance[from][spender].amount \in Nat /\ balance[from] \in Nat
    BY <2>1 DEF Allowance, Inv, TypeOK, Accounts
  <2>4. allowance[from][spender].amount - allowance'[from][spender].amount
          >= balance[from] - balance'[from]
    BY <2>2, <2>3
  <2> QED
    BY <2>1, <2>4 DEF Authorized
<1> QED
  BY <1>1, <1>2

\* A debit of n of the settled balances: `from` loses at most n, nobody else any.
LEMMA SettledDebit ==
    ASSUME Inv, NEW s, SettlementOK(s), NEW from \in Holders, NEW n \in Nat,
           CanDebit(Settled(s.minted), from, n),
           balance' = Debit(Settled(s.minted), from, n)
    PROVE  /\ balance'[from] \in Nat /\ balance[from] - balance'[from] <= n
           /\ \A x \in Holders \ {from} : Authorized(x)
<1>1. \A x \in Accounts : /\ Settled(s.minted)[x] \in Nat /\ balance[x] \in Nat
                          /\ Settled(s.minted)[x] >= balance[x]
  BY SettledGrows
<1>2. /\ Settled(s.minted) \in [Accounts -> Nat] /\ Holders \subseteq Accounts
      /\ Settled(s.minted)[from] >= n
  BY SettlementFacts DEF BalancesOK, Accounts, CanDebit
<1>3. /\ balance'[from] = Settled(s.minted)[from] - n
      /\ \A x \in Holders \ {from} : balance'[x] = Settled(s.minted)[x]
  BY <1>2 DEF Debit
<1>4. ASSUME NEW x \in Holders \ {from} PROVE Authorized(x)
  BY <1>1, <1>2, <1>3 DEF Authorized
<1> QED
  BY <1>1, <1>2, <1>3, <1>4

LEMMA FlowsAuthorized ==
    ASSUME Inv, Flows PROVE \A x \in Holders : Authorized(x)
<1>1. SettlementOK(Settlement)
  BY PricedSettlement DEF Flows, FlowOpen
<1> DEFINE s == Settlement
<1> HIDE DEF s
<1>2. SettlementOK(s)
  BY <1>1 DEF s
<1>3. CASE \E receiver \in Accounts : \E assets, shares, operator :
              Issue(s, assets, shares, receiver, operator)
  <2>1. PICK receiver \in Accounts : \E assets, shares, operator :
           Issue(s, assets, shares, receiver, operator)
    BY <1>3
  <2>4. PICK assets, shares, operator :
            Issue(s, assets, shares, receiver, operator)
    BY <2>1
  <2>2. shares \in Nat /\ balance' = Credit(Settled(s.minted), receiver, shares)
    BY <2>4, ShareAssumption DEF Issue, IsPositive
  <2>3. ASSUME NEW x \in Holders
        PROVE  /\ balance'[x] >= balance[x]
               /\ balance[x] \in Nat /\ balance'[x] \in Nat
    <3>1. x \in Accounts /\ Settled(s.minted) \in [Accounts -> Nat]
      BY <1>2, SettlementFacts DEF Accounts, BalancesOK
    <3>2. Settled(s.minted)[x] \in Nat /\ balance[x] \in Nat
          /\ Settled(s.minted)[x] >= balance[x]
      BY <1>2, <3>1, SettledGrows
    <3>3. balance'[x] = Settled(s.minted)[x] + (IF x = receiver THEN shares ELSE 0)
      BY <2>2, <3>1 DEF Credit
    <3> QED
      BY <2>2, <3>2, <3>3
  <2> QED
    BY <2>3 DEF Authorized
<1>4. ASSUME NEW owner \in Holders, NEW operator \in Holders, NEW shares \in Nat,
             CanSpend(owner, operator, shares),
             CanDebit(Settled(s.minted), owner, shares),
             allowance' = Spend(owner, operator, shares),
             balance' = Debit(Settled(s.minted), owner, shares),
             signers' = {operator}
      PROVE  \A x \in Holders : Authorized(x)
  <2>1. Authorized(owner)
    BY <1>2, <1>4, SettledDebit, SpendAuthorizes
  <2>2. \A x \in Holders \ {owner} : Authorized(x)
    BY <1>2, <1>4, SettledDebit
  <2> QED
    BY <2>1, <2>2
<1>5. CASE Issuing(s)
  <2>1. PICK amount \in Amounts, receiver \in Accounts, operator \in Operators,
             limit \in Limits, deadline \in Deadlines :
           \/ Deposit(s, amount, receiver, operator, limit, deadline)
           \/ Mint(s, amount, receiver, operator, limit, deadline)
    BY <1>5 DEF Issuing
  <2> QED
    BY <1>3, <2>1 DEF Deposit, Mint
<1>6. CASE Exiting(s)
  <2>1. PICK amount \in Amounts, owner \in Holders, operator \in Holders :
           \/ \E receiver \in {owner, Vault}, limit \in Limits, deadline \in Deadlines :
                \/ Withdraw(s, amount, receiver, owner, operator, limit, deadline)
                \/ Redeem(s, amount, receiver, owner, operator, limit, deadline)
           \/ BurnFrom(s, operator, owner, amount)
    BY <1>6 DEF Exiting
  <2>2. CASE \E assets, shares, receiver :
                Exit(s, assets, shares, receiver, owner, operator)
    <3>1. PICK assets, shares, receiver :
             Exit(s, assets, shares, receiver, owner, operator)
      BY <2>2
    <3>2. shares \in Nat
      BY <3>1, ShareAssumption DEF Exit, CanExit, IsPositive
    <3> QED
      BY <1>4, <3>1, <3>2 DEF Exit, CanExit
  <2>3. CASE BurnFrom(s, operator, owner, amount)
    <3>1. amount \in Nat
      BY <2>3, ShareAssumption
    <3> QED
      BY <1>4, <2>3, <3>1 DEF BurnFrom
  <2> QED
    BY <2>1, <2>2, <2>3 DEF Withdraw, Redeem
<1> QED
  BY <1>5, <1>6 DEF Flows, s

LEMMA BasketAuthorized ==
    ASSUME Inv, BasketExits PROVE \A x \in Holders : Authorized(x)
<1>1. SettlementOK(BasketSettlement)
  BY PricedSettlement, UnpricedSettlement
     DEF BasketExits, BasketOpen, BasketSettlement
<1> DEFINE s == BasketSettlement
<1> HIDE DEF s
<1>2. PICK shares \in Amounts, owner \in Holders :
         \E receiver, minima, deadline :
            RedeemInKind(s, shares, owner, receiver, minima, deadline)
  BY DEF BasketExits, s
<1>3. /\ shares \in Nat /\ CanDebit(Settled(s.minted), owner, shares)
      /\ balance' = Debit(Settled(s.minted), owner, shares)
      /\ signers' = {owner}
  BY <1>2, ShareAssumption DEF RedeemInKind
<1>4. Authorized(owner)
  BY <1>3 DEF Authorized
<1>5. \A x \in Holders \ {owner} : Authorized(x)
  BY <1>1, <1>3, SettledDebit DEF s
<1> QED
  BY <1>4, <1>5

LEMMA MoveDebits ==
    ASSUME Inv, NEW from \in Accounts, NEW to \in Accounts, NEW n, Move(from, to, n)
    PROVE  /\ from \in Holders /\ n \in Nat
           /\ balance'[from] \in Nat /\ balance[from] - balance'[from] <= n
           /\ \A x \in Holders \ {from} : Authorized(x)
<1>1. /\ from \in Holders /\ n \in Nat /\ balance[from] >= n
      /\ balance \in [Accounts -> Nat]
  BY ShareAssumption DEF Move, CanDebit, IsAmount, Accounts, Inv, TypeOK
<1> DEFINE b == Debit(balance, from, n)
<1>2. /\ b \in [Accounts -> Nat] /\ b[from] = balance[from] - n
      /\ \A x \in Accounts \ {from} : b[x] = balance[x]
  BY <1>1, DebitUnits DEF Debit
<1>3. balance' = Credit(b, to, n)
  BY DEF Move
<1> HIDE DEF b
<1>4. \A x \in Accounts : balance'[x] \in Nat /\ balance'[x] >= b[x]
  BY <1>1, <1>2, <1>3 DEF Credit
<1>5. ASSUME NEW x \in Holders \ {from} PROVE Authorized(x)
  <2>1. x \in Accounts
    BY DEF Accounts
  <2> QED
    BY <1>1, <1>2, <1>4, <2>1 DEF Authorized
<1> QED
  BY <1>1, <1>2, <1>4, <1>5

LEMMA TokenAuthorized ==
    ASSUME Inv, Token PROVE \A x \in Holders : Authorized(x)
<1>1. CASE \E n \in Amounts, from \in Accounts, to \in Accounts : Transfer(from, to, n)
  <2>1. PICK n \in Amounts, from \in Accounts, to \in Accounts : Transfer(from, to, n)
    BY <1>1
  <2>2. Authorized(from)
    BY <2>1 DEF Transfer, Authorized
  <2> QED
    BY <2>1, <2>2, MoveDebits DEF Transfer
<1>2. CASE \E n \in Amounts, from \in Holders, spender \in Holders, to \in Accounts :
              TransferFrom(spender, from, to, n)
  <2>1. PICK n \in Amounts, from \in Holders, spender \in Holders, to \in Accounts :
           TransferFrom(spender, from, to, n)
    BY <1>2
  <2>2. from \in Accounts
    BY DEF Accounts
  <2>3. Authorized(from)
    BY <2>1, <2>2, MoveDebits, SpendAuthorizes DEF TransferFrom
  <2> QED
    BY <2>1, <2>2, <2>3, MoveDebits DEF TransferFrom
<1>3. CASE \E delegation \in Delegations, n \in Amounts, expiration \in Deadlines :
              Approve(delegation[1], delegation[2], n, expiration)
  <2>1. balance' = balance
    BY <1>3 DEF Approve
  <2> QED
    BY <2>1 DEF Authorized, Inv, TypeOK, Accounts
<1> QED
  BY <1>1, <1>2, <1>3 DEF Token

\* Nobody loses shares to a settlement, an execution or the environment.
LEMMA OthersAuthorized ==
    ASSUME Inv, FeeCalls \/ Execution \/ Environment \/ UNCHANGED vars
    PROVE  \A x \in Holders : Authorized(x)
<1>1. CASE balance' = balance
  BY <1>1 DEF Authorized, Inv, TypeOK, Accounts
<1>2. CASE \E s : SettlementOK(s) /\ balance' = Settled(s.minted)
  <2>1. \A x \in Holders : balance'[x] >= balance[x] /\ balance[x] \in Nat /\ balance'[x] \in Nat
    BY <1>2, SettledGrows DEF Accounts
  <2> QED
    BY <2>1 DEF Authorized
<1>3. CASE CollectFees
  BY <1>2, <1>3, PricedSettlement DEF CollectFees
<1>4. CASE CheckpointFees
  BY <1>2, <1>4, UnpricedSettlement DEF CheckpointFees
<1>5. CASE \E h \in Portfolios : Rebalance(h)
  BY <1>2, <1>5, PricedSettlement DEF Rebalance, FlowOpen
<1>6. CASE \/ \E amount \in Amounts, lost \in 0 .. 1 :
                 RecoverSupply(amount, lost) \/ Repay(amount, lost)
           \/ Environment \/ UNCHANGED vars
  BY <1>1, <1>6 DEF RecoverSupply, Repay, Environment, Mark, Donate, Tick, vars
<1> QED
  BY <1>3, <1>4, <1>5, <1>6 DEF FeeCalls, Execution

\* Shares leave an address only if it signed, or a signer spent an unexpired
\* allowance of at least as much (token.rs transfer_from and burn_from, lib.rs
\* exit and redeem_in_kind).
THEOREM DebitsAreAuthorized == Spec => OnlyAuthorizedDebits
<1>1. Inv /\ [Next]_vars => [\A owner \in Holders : Authorized(owner)]_vars
  BY FlowsAuthorized, BasketAuthorized, TokenAuthorized, OthersAuthorized DEF Next
<1> QED
  BY <1>1, Invariance, PTL DEF Spec, OnlyAuthorizedDebits, Authorized

-----------------------------------------------------------------------------
(* Who pays for the rounding.                                              *)

\* A settlement mints at least the management fee.
LEMMA ManagementFirst ==
    ASSUME Inv, CanSettle
    PROVE  /\ Management(state, fees, now).state.supply \in Nat
           /\ Settlement.state.supply \in Nat
           /\ Management(state, fees, now).state.supply <= Settlement.state.supply
<1> DEFINE m == Management(state, fees, now)
           p == Performance(m.state, fees, Equity(holdings))
<1>1. /\ m.minted \in Nat /\ m.state \in StateSet
      /\ m.state.supply = state.supply + m.minted
      /\ m.state.high_water = state.high_water
      /\ m.state.performance_dust = state.performance_dust
  <2>1. state \in StateSet /\ state.last_fee <= now
    BY DEF Inv, TypeOK
  <2> QED
    BY <2>1, StateFacts, ManagementPreserves
<1>2. PerformanceDefined(m.state, fees, Equity(holdings))
  BY DEF CanSettle, SettleDefined
<1>3. Settlement.state = p.state
  BY DEF Settlement, Settle
<1> HIDE DEF m
<1>4. p.minted \in Nat /\ p.state.supply = m.state.supply + p.minted
  BY <1>1, <1>2, StateFacts, EquityInt, PerformancePreserves
<1>5. m.state.supply \in Nat
  BY <1>1, StateFacts
<1> HIDE DEF p
<1> QED
  BY <1>3, <1>4, <1>5 DEF m

\* Only cash moved: the equity changes by exactly that much.
LEMMA CashEquity ==
    ASSUME Inv, holdings'.usdc \in Nat, price' = price,
           holdings' = [holdings EXCEPT !.usdc = holdings'.usdc]
    PROVE  /\ Equity(holdings)' = Equity(holdings) + holdings'.usdc - holdings.usdc
           /\ Equity(holdings) \in Int /\ Equity(holdings)' \in Int
<1>1. holdings \in HoldingSet
  BY DEF Inv, TypeOK
<1>2. /\ holdings'.supply = holdings.supply /\ holdings'.debt = holdings.debt
      /\ holdings'.collateral = holdings.collateral /\ holdings'.asset = holdings.asset
  BY <1>1 DEF HoldingSet
<1>3. MulDivFloor(holdings.asset, price, PRICE_SCALE) \in Int
  BY StateFacts, ShareAssumption, FloorBounds
<1>4. Equity(holdings)' = holdings'.usdc + holdings'.supply + holdings'.collateral
        - holdings'.debt + MulDivFloor(holdings'.asset, price', PRICE_SCALE)
  BY DEF Equity
<1> QED
  BY <1>2, <1>3, <1>4, StateFacts DEF Equity

\* The step keeps the equity behind each share.
Keeps == Equity(holdings)' * Settlement.state.supply
           >= Equity(holdings) * state'.supply

\* Shares are issued for at least their worth.
LEMMA IssueKeeps ==
    ASSUME NEW E \in Nat, NEW S \in Nat, NEW a \in Nat, NEW n \in Nat,
           n * E <= a * S
    PROVE  (E + a) * S >= E * (S + n)
<1>1. (E + a) * S = E * S + a * S /\ E * (S + n) = E * S + n * E
  OBVIOUS
<1>2. E * S \in Nat /\ a * S \in Nat /\ n * E \in Nat
  OBVIOUS
<1> QED
  BY <1>1, <1>2

\* An exit takes at most what its shares are worth.
LEMMA ExitKeeps ==
    ASSUME NEW E \in Nat, NEW S \in Nat, NEW a \in Nat, NEW n \in Nat,
           a * S <= n * E
    PROVE  (E - a) * S >= E * (S - n)
<1>1. (E - a) * S = E * S - a * S /\ E * (S - n) = E * S - n * E
  OBVIOUS
<1>2. E * S \in Nat /\ a * S \in Nat /\ n * E \in Nat
  OBVIOUS
<1> QED
  BY <1>1, <1>2

LEMMA FlowsKeep ==
    ASSUME Inv, Flows, CashFlow PROVE Keeps
<1>1. SettlementOK(Settlement)
  BY PricedSettlement DEF Flows, FlowOpen
<1> DEFINE s == Settlement
           E == Equity(holdings)
           S == s.state.supply
<1>2. E \in Nat \ {0} /\ S \in Nat \ {0} /\ holdings.usdc \in Nat
  BY <1>1, SettlementFacts, StateFacts, EquityInt DEF Flows, FlowOpen
<1>3. ASSUME NEW assets \in Nat, NEW shares \in Nat,
             holdings' = [holdings EXCEPT !.usdc = @ + assets],
             state'.supply = S + shares, shares * E <= assets * S
      PROVE  Keeps
  <2>1. holdings'.usdc = holdings.usdc + assets /\ holdings'.usdc \in Nat
    BY <1>2, <1>3, StateFacts DEF HoldingSet, Inv, TypeOK
  <2>2. Equity(holdings)' = E + assets
    BY <1>2, <2>1, CashEquity DEF CashFlow
  <2> HIDE DEF E, S
  <2> QED
    BY <1>2, <1>3, <2>2, IssueKeeps DEF Keeps, E, S
<1>4. ASSUME NEW assets \in Nat, NEW shares \in Nat, assets <= holdings.usdc,
             holdings' = [holdings EXCEPT !.usdc = @ - assets],
             state'.supply = S - shares, assets * S <= shares * E
      PROVE  Keeps
  <2>1. holdings'.usdc = holdings.usdc - assets /\ holdings'.usdc \in Nat
    BY <1>2, <1>4, StateFacts DEF HoldingSet, Inv, TypeOK
  <2>2. Equity(holdings)' = E - assets
    BY <1>2, <2>1, CashEquity DEF CashFlow
  <2> HIDE DEF E, S
  <2> QED
    BY <1>2, <1>4, <2>2, ExitKeeps DEF Keeps, E, S
<1>5. CASE Issuing(s)
  <2>1. PICK amount \in Amounts, receiver \in Accounts, operator \in Operators,
             limit \in Limits, deadline \in Deadlines :
           \/ Deposit(s, amount, receiver, operator, limit, deadline)
           \/ Mint(s, amount, receiver, operator, limit, deadline)
    BY <1>5 DEF Issuing
  <2>2. amount \in Nat
    BY ShareAssumption
  <2>3. ASSUME NEW assets, NEW shares, Issue(s, assets, shares, receiver, operator)
        PROVE  /\ assets \in Nat /\ shares \in Nat
               /\ holdings' = [holdings EXCEPT !.usdc = @ + assets]
               /\ state'.supply = S + shares
    BY <2>3, <1>1, SettlementFacts, ShareAssumption
       DEF Issue, IsPositive, StateSet
  <2>4. CASE Deposit(s, amount, receiver, operator, limit, deadline)
    <3> DEFINE n == ConvertToShares(s, amount)
    <3>1. n * E <= amount * S
      BY <1>2, <2>2, FloorBounds DEF ConvertToShares
    <3>2. Issue(s, amount, n, receiver, operator)
      BY <2>4 DEF Deposit
    <3> HIDE DEF n
    <3> QED
      BY <1>3, <2>3, <3>1, <3>2
  <2>5. CASE Mint(s, amount, receiver, operator, limit, deadline)
    <3> DEFINE a == MintAssets(s, amount)
    <3>1. amount * E <= a * S
      BY <1>2, <2>2, CeilBounds DEF MintAssets
    <3>2. Issue(s, a, amount, receiver, operator)
      BY <2>5 DEF Mint
    <3> HIDE DEF a
    <3> QED
      BY <1>3, <2>3, <3>1, <3>2
  <2> QED
    BY <2>1, <2>4, <2>5
<1>6. CASE Exiting(s)
  <2>1. PICK amount \in Amounts, owner \in Holders, operator \in Holders :
           \/ \E receiver \in {owner, Vault}, limit \in Limits, deadline \in Deadlines :
                \/ Withdraw(s, amount, receiver, owner, operator, limit, deadline)
                \/ Redeem(s, amount, receiver, owner, operator, limit, deadline)
           \/ BurnFrom(s, operator, owner, amount)
    BY <1>6 DEF Exiting
  <2>2. amount \in Nat
    BY ShareAssumption
  <2>3. ASSUME NEW assets, NEW shares, NEW receiver,
               Exit(s, assets, shares, receiver, owner, operator)
        PROVE  /\ assets \in Nat /\ shares \in Nat /\ assets <= holdings.usdc
               /\ holdings' = [holdings EXCEPT !.usdc = @ - assets]
               /\ state'.supply = S - shares
    <3>1. assets \in Nat /\ shares \in Nat /\ assets <= holdings.usdc
      BY <2>3, <1>2, ShareAssumption DEF Exit, CanExit, IsPositive
    <3> QED
      BY <2>3, <3>1, <1>1, SettlementFacts DEF Exit, StateSet
  <2>4. CASE \E receiver, limit, deadline :
                Withdraw(s, amount, receiver, owner, operator, limit, deadline)
    <3> DEFINE n == WithdrawShares(s, amount)
    <3>1. amount * S <= n * E
      BY <1>2, <2>2, CeilBounds DEF WithdrawShares
    <3>2. \E receiver : Exit(s, amount, n, receiver, owner, operator)
      BY <2>4 DEF Withdraw
    <3> HIDE DEF n
    <3> QED
      BY <1>4, <2>3, <3>1, <3>2
  <2>5. CASE \E receiver, limit, deadline :
                Redeem(s, amount, receiver, owner, operator, limit, deadline)
    <3> DEFINE a == ConvertToAssets(s, amount)
    <3>1. a * S <= amount * E
      BY <1>2, <2>2, FloorBounds DEF ConvertToAssets
    <3>2. \E receiver : Exit(s, a, amount, receiver, owner, operator)
      BY <2>5 DEF Redeem
    <3> HIDE DEF a
    <3> QED
      BY <1>4, <2>3, <3>1, <3>2
  <2>6. CASE BurnFrom(s, operator, owner, amount)
    <3>1. state'.supply = S - amount /\ holdings' = holdings
      BY <2>6, <1>1, SettlementFacts DEF BurnFrom, StateSet
    <3>2. Equity(holdings)' = E
      BY <1>2, <3>1, CashEquity DEF CashFlow
    <3>3. 0 * S <= amount * E /\ E - 0 = E
      BY <1>2, <2>2
    <3> HIDE DEF E, S
    <3> QED
      BY <1>2, <2>2, <3>1, <3>2, <3>3, ExitKeeps DEF Keeps, E, S
  <2> QED
    BY <2>1, <2>4, <2>5, <2>6
<1> QED
  BY <1>5, <1>6 DEF Flows

LEMMA BasketsKeep ==
    ASSUME Inv, BasketExits, CashFlow PROVE Keeps
<1>1. SettlementOK(Settlement) /\ BasketSettlement = Settlement
  BY PricedSettlement DEF CashFlow, FlowOpen, CanSettle, BasketSettlement
<1> DEFINE s == Settlement
           E == Equity(holdings)
           S == s.state.supply
<1>2. E \in Nat \ {0} /\ S \in Nat \ {0} /\ holdings.usdc \in Nat
  BY <1>1, SettlementFacts, StateFacts, EquityInt DEF CashFlow, FlowOpen
<1>3. PICK n \in Amounts, owner \in Holders :
         \E receiver, minima, deadline :
            RedeemInKind(s, n, owner, receiver, minima, deadline)
  BY <1>1 DEF BasketExits
<1> DEFINE paid == BasketShare(s, holdings.usdc, n)
           left == BasketShare(s, holdings.asset, n)
<1>4. n \in Nat /\ n <= S
  BY <1>3, ShareAssumption DEF RedeemInKind
<1>5. paid * S <= holdings.usdc * n /\ paid \in 0 .. holdings.usdc
  BY <1>2, <1>4, FloorBounds, BasketShareBounds DEF BasketShare
<1>6. holdings.usdc <= E
  <2>1. MulDivFloor(holdings.asset, price, PRICE_SCALE) \in Nat
    BY StateFacts, ShareAssumption, FloorBounds
  <2>2. holdings.debt = 0
    BY DEF BasketExits, BasketOpen, Transferable, NoExternalClaim
  <2> QED
    BY <2>1, <2>2, StateFacts DEF Equity
<1>7. /\ holdings' = [holdings EXCEPT !.usdc = @ - paid, !.asset = @ - left]
      /\ state' = [s.state EXCEPT
           !.performance_dust = ScaleDown(@, n, s.state.supply),
           !.window_equity    = ScaleDown(@, n, s.state.supply),
           !.supply           = @ - n]
  BY <1>3 DEF RedeemInKind
<1> HIDE DEF paid, left
<1>8. holdings'.usdc = holdings.usdc - paid /\ state'.supply = S - n
  BY <1>1, <1>7, SettlementFacts DEF Inv, TypeOK, HoldingSet, StateSet
<1>9. Equity(holdings)' = E - paid
  <2>1. holdings'.usdc \in Nat
    BY <1>2, <1>5, <1>8
  <2> QED
    BY <1>2, <1>5, <1>8, <2>1, CashEquity DEF CashFlow
<1> HIDE DEF E, S
<1>10. paid * S <= n * E
  <2>1. holdings.usdc * n <= n * E
    BY <1>2, <1>4, <1>6
  <2>2. paid * S \in Nat /\ holdings.usdc * n \in Nat /\ n * E \in Nat
    BY <1>2, <1>4, <1>5
  <2> QED
    BY <1>5, <2>1, <2>2
<1> QED
  BY <1>2, <1>4, <1>5, <1>8, <1>9, <1>10, ExitKeeps DEF Keeps, E, S

\* Every other step of the shape leaves no fewer assets and no more shares.
LEMMA OthersKeep ==
    ASSUME Inv, CashFlow,
           Token \/ FeeCalls \/ Execution \/ Environment \/ UNCHANGED vars
    PROVE  Keeps
<1> DEFINE E == Equity(holdings)
           S == Settlement.state.supply
<1>1. /\ SettlementOK(Settlement) /\ E \in Nat /\ S \in Nat
      /\ holdings.usdc \in Nat /\ holdings.debt \in Nat
      /\ state.supply \in Nat /\ state.supply <= S
  BY PricedSettlement, SettlementFacts, StateFacts, EquityInt
     DEF CashFlow, FlowOpen, SettlementOK
<1>2. ASSUME state'.supply \in Nat, state'.supply <= S,
             holdings'.usdc \in Nat, holdings'.usdc >= holdings.usdc
      PROVE  Keeps
  <2>1. Equity(holdings)' \in Int /\ Equity(holdings)' >= E
    BY <1>1, <1>2, CashEquity DEF CashFlow
  <2> DEFINE F == Equity(holdings)'
             T == state'.supply
  <2>2. F \in Nat /\ F >= E /\ T \in Nat /\ T <= S
    BY <1>1, <1>2, <2>1
  <2>3. Keeps <=> F * S >= E * T
    BY DEF Keeps
  <2> HIDE DEF E, S, F, T
  <2>4. F * S >= E * S /\ E * S >= E * T
    BY <1>1, <2>2
  <2>5. F * S \in Nat /\ E * S \in Nat /\ E * T \in Nat
    BY <1>1, <2>2
  <2> QED
    BY <2>3, <2>4, <2>5
<1>3. ASSUME state' = state, holdings'.usdc \in Nat,
             holdings'.usdc >= holdings.usdc
      PROVE  Keeps
  BY <1>1, <1>2, <1>3
<1>4. CASE Token \/ UNCHANGED vars
  <2>1. state' = state /\ holdings' = holdings
    BY <1>4 DEF Token, Transfer, TransferFrom, Approve, vars
  <2> QED
    BY <1>1, <1>3, <2>1
<1>5. CASE CollectFees \/ \E h \in Portfolios : Rebalance(h)
  <2>1. state'.supply = S
    BY <1>1, <1>5, SettlementFacts DEF CollectFees, Rebalance, StateSet
  <2> QED
    BY <2>1 DEF CashFlow
<1>6. CASE CheckpointFees
  <2>1. state'.supply \in Nat /\ state'.supply <= S /\ holdings' = holdings
    BY <1>6, ManagementFirst DEF CheckpointFees, CashFlow, FlowOpen
  <2> QED
    BY <1>1, <1>2, <2>1
<1>7. CASE \E amount \in Amounts, lost \in 0 .. 1 : RecoverSupply(amount, lost)
  <2>1. PICK amount \in Amounts, lost \in 0 .. 1 : RecoverSupply(amount, lost)
    BY <1>7
  <2>2. state' = state /\ holdings'.usdc = holdings.usdc + amount /\ amount \in Nat
    BY <2>1, ShareAssumption DEF RecoverSupply, Inv, TypeOK, HoldingSet
  <2> QED
    BY <1>1, <1>3, <2>2
<1>8. CASE \E amount \in Amounts, lost \in 0 .. 1 : Repay(amount, lost)
  <2>1. PICK amount \in Amounts, lost \in 0 .. 1 : Repay(amount, lost)
    BY <1>8
  <2>2. holdings'.debt = holdings.debt - amount /\ amount \in Nat \ {0}
    BY <2>1, ShareAssumption DEF Repay, IsPositive, Inv, TypeOK, HoldingSet
  <2>3. holdings'.debt = holdings.debt
    BY DEF CashFlow, Inv, TypeOK, HoldingSet
  <2> QED
    BY <1>1, <2>2, <2>3
<1>9. CASE Environment
  <2>1. state' = state
    BY <1>9 DEF Environment, Mark, Donate, Tick
  <2>2. CASE \E a \in {"usdc", "asset"}, amount \in Donations : Donate(a, amount)
    <3>1. PICK a \in {"usdc", "asset"}, amount \in Donations : Donate(a, amount)
      BY <2>2
    <3>2. amount \in Nat
      BY ShareAssumption
    <3>3. holdings'.usdc = IF a = "usdc" THEN holdings.usdc + amount ELSE holdings.usdc
      BY <3>1 DEF Donate, Inv, TypeOK, HoldingSet
    <3> QED
      BY <1>1, <1>3, <2>1, <3>2, <3>3
  <2>3. CASE (\E p \in Marks : Mark(p)) \/ (\E step \in Steps : Tick(step))
    <3>1. holdings' = holdings
      BY <2>3 DEF Mark, Tick
    <3> QED
      BY <1>1, <1>3, <2>1, <3>1
  <2> QED
    BY <1>9, <2>2, <2>3 DEF Environment
<1> QED
  BY <1>4, <1>5, <1>6, <1>7, <1>8, <1>9 DEF FeeCalls, Execution

\* No deposit, mint, withdrawal, redemption or burn lowers the equity behind
\* each remaining share, once its fees are settled: `issue`, `exit` and the
\* conversions of lib.rs round against the caller.
THEOREM FlowsNeverDilute == Spec => NoDilution
<1>1. Inv /\ [Next]_vars => [CashFlow => Keeps]_vars
  BY FlowsKeep, BasketsKeep, OthersKeep DEF Next
<1> QED
  BY <1>1, Invariance, PTL DEF Spec, NoDilution, Keeps

\* What is left of a spot balance covers the remaining shares' part of it.
LEMMA BasketLeaves ==
    ASSUME NEW s, NEW spot \in Nat, NEW shares \in Nat,
           s.state.supply \in Nat \ {0}
    PROVE  (spot - BasketShare(s, spot, shares)) * s.state.supply
             >= spot * (s.state.supply - shares)
<1> DEFINE S == s.state.supply
           q == BasketShare(s, spot, shares)
<1>1. q \in Nat /\ q * S <= spot * shares /\ S \in Nat
  BY FloorBounds DEF BasketShare
<1> HIDE DEF q, S
<1>2. /\ (spot - q) * S = spot * S - q * S
      /\ spot * (S - shares) = spot * S - spot * shares
      /\ q * S \in Nat /\ spot * S \in Nat /\ spot * shares \in Nat
  BY <1>1
<1> QED
  BY <1>1, <1>2 DEF q, S

\* The basket exit pays a holder no more of any asset than the shares it burns,
\* rounded down, whether or not that asset has a valid price (lib.rs
\* redeem_in_kind).
THEOREM BasketExitsNeverDilute == Spec => BasketNeverDilutes
<1>1. ASSUME Inv, BasketExit
      PROVE  \A a \in {"usdc", "asset"} :
               holdings'[a] * BasketSettlement.state.supply
                 >= holdings[a] * state'.supply
  <2>1. SettlementOK(BasketSettlement)
    BY <1>1, PricedSettlement, UnpricedSettlement
       DEF BasketExit, BasketOpen, BasketSettlement
  <2> DEFINE s == BasketSettlement
  <2> HIDE DEF s
  <2>2. PICK shares \in Amounts :
           \E owner, minima, deadline :
              RedeemInKind(s, shares, owner, owner, minima, deadline)
    BY <1>1 DEF BasketExit, s
  <2>3. shares \in Nat /\ holdings.usdc \in Nat /\ holdings.asset \in Nat
    BY <1>1, StateFacts, ShareAssumption
  <2>4. s.state.supply \in Nat \ {0} /\ s.state \in StateSet
    BY <1>1, <2>1, SettlementFacts DEF s
  <2>5. state'.supply = s.state.supply - shares
    BY <2>2, <2>4 DEF RedeemInKind, StateSet
  <2>6. /\ holdings'.usdc = holdings.usdc - BasketShare(s, holdings.usdc, shares)
        /\ holdings'.asset = holdings.asset - BasketShare(s, holdings.asset, shares)
    BY <1>1, <2>2 DEF RedeemInKind, Inv, TypeOK, HoldingSet
  <2> QED
    BY <2>3, <2>4, <2>5, <2>6, BasketLeaves DEF s
<1>2. Inv /\ [Next]_vars =>
        [BasketExit => \A a \in {"usdc", "asset"} :
            holdings'[a] * BasketSettlement.state.supply
              >= holdings[a] * state'.supply]_vars
  BY <1>1
<1> QED
  BY <1>2, Invariance, PTL DEF Spec, BasketNeverDilutes

-----------------------------------------------------------------------------
(* What a settlement and a view promise.                                   *)

LEMMA InvSettlesOnce ==
    ASSUME Inv PROVE SettleIdempotent
<1> SUFFICES ASSUME CanSettle, Equity(holdings) > 0
             PROVE  Settle(Settlement.state, fees, now, Equity(holdings))
                      = [minted |-> 0, state |-> Settlement.state]
  BY DEF SettleIdempotent
<1>1. Equity(holdings) \in Nat \ {0}
  BY EquityInt
<1>2. state \in StateSet /\ state.last_fee <= now
  BY DEF Inv, TypeOK
<1>3. SettleDefined(state, fees, now, Equity(holdings))
  BY DEF CanSettle
<1> QED
  BY <1>1, <1>2, <1>3, StateFacts, SettleAgain DEF Settlement

\* Rounding up the shares of assets that are worth at most n shares gives at
\* most n.
LEMMA CeilOfFloor ==
    ASSUME NEW n \in Nat, NEW E \in Nat \ {0}, NEW S \in Nat \ {0},
           NEW max \in Nat \ {0}, max <= MulDivFloor(n, E, S)
    PROVE  MulDivCeil(max, S, E) \in 1 .. n
<1> DEFINE worth == MulDivFloor(n, E, S)
           need  == MulDivCeil(max, S, E)
<1>1. worth \in Nat /\ worth * S <= n * E /\ max <= worth
  BY FloorBounds
<1>2. need \in Nat /\ max * S <= need * E /\ need * E < max * S + E
  BY CeilBounds
<1> HIDE DEF worth, need
<1>3. max * S <= worth * S
  BY <1>1
<1>4. /\ max * S \in Nat /\ worth * S \in Nat /\ n * E \in Nat
      /\ need * E \in Nat /\ max * S > 0
  BY <1>1, <1>2
<1>5. need * E < (n + 1) * E
  <2>1. (n + 1) * E = n * E + E
    OBVIOUS
  <2> QED
    BY <2>1, <1>1, <1>2, <1>3, <1>4
<1>6. need < n + 1 /\ need # 0
  BY <1>2, <1>4, <1>5
<1> QED
  BY <1>2, <1>6 DEF need

LEMMA InvWithdraws ==
    ASSUME Inv PROVE MaxWithdrawExecutable
<1> DEFINE s == Settlement
           E == Equity(holdings)
           S == s.state.supply
<1> SUFFICES ASSUME NEW owner \in Holders, FlowOpen,
                    MaxWithdraw(owner) \in 1 .. MAX_AMOUNT,
                    WithdrawShares(s, MaxWithdraw(owner)) <= MAX_AMOUNT
             PROVE  CanExit(s, MaxWithdraw(owner),
                            WithdrawShares(s, MaxWithdraw(owner)),
                            owner, owner, owner)
  BY DEF MaxWithdrawExecutable
<1> DEFINE max  == MaxWithdraw(owner)
           need == WithdrawShares(s, max)
<1>1. SettlementOK(s)
  BY PricedSettlement DEF FlowOpen
<1>2. E \in Nat \ {0} /\ S \in Nat \ {0} /\ holdings.usdc \in Nat
  BY <1>1, SettlementFacts, StateFacts, EquityInt DEF FlowOpen
<1>3. owner \in Accounts /\ owner # Vault
  BY ShareAssumption DEF Accounts
<1>4. /\ Settled(s.minted)[owner] \in Nat /\ balance[owner] \in Nat
      /\ Settled(s.minted)[owner] >= balance[owner]
      /\ Settled(s.minted)[owner] <= S
  <2>1. Settled(s.minted)[owner] <= S
    BY <1>1, <1>3, SettlementFacts, SupplyPositive
  <2> QED
    BY <1>1, <1>3, <2>1, SettledGrows
<1>5. /\ max \in Nat \ {0} /\ max \in 1 .. MAX_AMOUNT
      /\ NoExternalClaim(holdings) /\ max <= holdings.usdc
      /\ max <= MulDivFloor(balance[owner], E, S)
  <2>1. max # 0
    BY ShareAssumption
  <2>2. NoExternalClaim(holdings)
        /\ max = Least(ConvertToAssets(s, balance[owner]), holdings.usdc)
    BY <2>1 DEF MaxWithdraw
  <2>3. ConvertToAssets(s, balance[owner]) = MulDivFloor(balance[owner], E, S)
    BY DEF ConvertToAssets
  <2>4. MulDivFloor(balance[owner], E, S) \in Nat
    BY <1>2, <1>4, FloorBounds
  <2> HIDE DEF max
  <2> QED
    BY <1>2, <2>2, <2>3, <2>4, ShareAssumption DEF Least, max
<1>6. need \in 1 .. balance[owner]
  <2> HIDE DEF max, E, S
  <2>1. MulDivCeil(max, S, E) \in 1 .. balance[owner]
    BY <1>2, <1>4, <1>5, CeilOfFloor
  <2> QED
    BY <2>1 DEF WithdrawShares, E, S
<1>7. need <= MAX_AMOUNT
  OBVIOUS
<1> HIDE DEF max, need
<1>8. IsPositive(max) /\ IsPositive(need) /\ IsAmount(need)
  BY <1>4, <1>5, <1>6, <1>7, ShareAssumption DEF IsPositive, IsAmount
<1>9. need <= S /\ Settled(s.minted)[owner] >= need
  BY <1>2, <1>4, <1>6
<1> QED
  BY <1>3, <1>5, <1>8, <1>9 DEF CanExit, CanSpend, CanDebit, max, need

\* A second settlement at the same ledger and equity charges nothing: the mark
\* is rounded up over the equity, and no time has passed (fees.rs settle).
THEOREM SettlesOnce == Spec => []SettleIdempotent
<1>1. Inv => SettleIdempotent
  BY InvSettlesOnce
<1> QED
  BY <1>1, Invariance, PTL

\* Whenever flows are open and the amounts fit one call, what max_withdraw
\* reports passes every check of the exit it announces.
THEOREM MaxWithdrawHolds == Spec => []MaxWithdrawExecutable
<1>1. Inv => MaxWithdrawExecutable
  BY InvWithdraws
<1> QED
  BY <1>1, Invariance, PTL

=============================================================================
