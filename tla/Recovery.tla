------------------------------ MODULE Recovery ------------------------------
(***************************************************************************)
(* How the vault gets out of its Blend positions                           *)
(* (contracts/vault/src/{execution,blend,pricing}.rs): pool requests,      *)
(* public unwinds that swap, withdraw, release and repay, the price-free   *)
(* recover_supply and repay, and the claim of rewards that block all of    *)
(* them; with borrowing on and every pool side of two assets.              *)
(*                                                                         *)
(* Targets, nonces, deadlines, the leg, turnover and loss limits and the   *)
(* fees of these calls are in module Execution; leaving them out here only *)
(* adds behaviours.                                                        *)
(***************************************************************************)
EXTENDS BlendPool, Sequences

CONSTANTS
    Usdc, Other,        \* the settlement asset and the other pool asset
    BPS, PRICE_SCALE,
    FACTOR_SCALE,       \* fixed-point one of the pool's factors       (10^7)
    C_FACTOR, L_FACTOR, \* collateral and liability factor of a reserve
    MAX_DEBT_BPS,       \* Config.max_debt_bps                        (5_000)
    MIN_HEALTH_BPS,     \* Config.min_health_bps                     (12_500)
    MAX_SLIPPAGE_BPS,
    REWARD_CONFIGURED,  \* Config.assets has one of kind Reward
    Spots,              \* spot balances the vault may start with
    Rates,              \* rates the pool may have, by asset
    Prices,             \* vault marks of the other asset
    OraclePrices,       \* the pool oracle's prices of it, 0 when stale
    Plans, Unwinds,     \* leg sequences of the executor and of anybody
    Amounts             \* amounts of recover_supply and repay

Asset == {Usdc, Other}

NoPosition == [supply |-> 0, collateral |-> 0, debt |-> 0]

PositionSet == [supply : Nat, collateral : Nat, debt : Nat]

LegSet == [kind : PoolKind \cup {"swap"}, asset : Asset, amount : Nat]

\* Emission ids: the claim side and the debt side of every reserve.
RewardIds == Asset \X {"b", "d"}

ASSUME RecoveryAssumption ==
    /\ Usdc # Other
    /\ {BPS, PRICE_SCALE, FACTOR_SCALE, C_FACTOR, L_FACTOR} \subseteq Nat \ {0}
    /\ {MAX_DEBT_BPS, MIN_HEALTH_BPS} \subseteq Nat /\ MAX_SLIPPAGE_BPS \in 0 .. BPS
    /\ REWARD_CONFIGURED \in BOOLEAN
    /\ Spots \subseteq [Asset -> Nat]
    /\ Rates \subseteq [Asset -> [b : Nat, d : Nat]]
    /\ \A rs \in Rates, a \in Asset :
          rs[a].b >= RATE_SCALE /\ rs[a].d >= RATE_SCALE
    /\ Prices \subseteq Nat /\ OraclePrices \subseteq Nat /\ Amounts \subseteq Nat
    /\ Plans \subseteq Seq(LegSet) /\ Unwinds \subseteq Seq(LegSet)

VARIABLES
    spot,       \* token balances of the vault
    positions,  \* the vault's pool tokens
    rates,      \* the pool's rates after accrual to this ledger
    price,      \* vault mark of the other asset, 0 when pricing::price fails
    oracle,     \* the pool oracle's price of it
    rewards     \* emission ids with a positive unclaimed entitlement

vars == <<spot, positions, rates, price, oracle, rewards>>

-----------------------------------------------------------------------------
(* Valuation of a state x = [spot, positions, bought] inside a call.       *)

Now == [spot |-> spot, positions |-> positions, bought |-> 0]

\* pricing::holdings in underlying units
Supplied(x, a)  == ClaimValue(x.positions[a].supply, rates[a])
Pledged(x, a)   == ClaimValue(x.positions[a].collateral, rates[a])
Owed(x, a)      == DebtValue(x.positions[a].debt, rates[a])
Gross(x, a)     == x.spot[a] + Supplied(x, a) + Pledged(x, a)

MarkOf(a) == IF a = Usdc THEN PRICE_SCALE ELSE price

Debt(x) == MulDivCeil(Owed(x, Usdc), MarkOf(Usdc), PRICE_SCALE)
             + MulDivCeil(Owed(x, Other), MarkOf(Other), PRICE_SCALE)

Equity(x) == MulDivFloor(Gross(x, Usdc), MarkOf(Usdc), PRICE_SCALE)
               + MulDivFloor(Gross(x, Other), MarkOf(Other), PRICE_SCALE) - Debt(x)

Priced(x) == price > 0 \/ (Gross(x, Other) = 0 /\ Owed(x, Other) = 0)

\* holdings(require_rewards_realized): any entitlement aborts the call.
Blocked == rewards # {}

-----------------------------------------------------------------------------
(* Risk-weighted health (blend.rs).                                        *)

OracleOf(a) == IF a = Usdc THEN PRICE_SCALE ELSE oracle

InPool(x, a) == x.positions[a].collateral > 0 \/ x.positions[a].debt > 0

Indebted(x) == \E a \in Asset : x.positions[a].debt > 0

\* Without debt health is (0, 0) and no oracle is asked.
HealthKnown(x) ==
    Indebted(x) => \A a \in Asset : InPool(x, a) => OracleOf(a) > 0

WeightedCollateral(x, a) ==
    MulDivFloor(MulDivFloor(Pledged(x, a), C_FACTOR, FACTOR_SCALE), OracleOf(a), PRICE_SCALE)

WeightedDebt(x, a) ==
    MulDivCeil(MulDivCeil(Owed(x, a), FACTOR_SCALE, L_FACTOR), OracleOf(a), PRICE_SCALE)

Health(x) ==
    IF ~Indebted(x) THEN [collateral |-> 0, debt |-> 0]
    ELSE [collateral |-> WeightedCollateral(x, Usdc) + WeightedCollateral(x, Other),
          debt       |-> WeightedDebt(x, Usdc) + WeightedDebt(x, Other)]

WithinDebtLimit(x) == Debt(x) <= MulDivFloor(Equity(x), MAX_DEBT_BPS, BPS)

\* check_health
Healthy(x) ==
    LET h == Health(x)
    IN  h.debt > 0 => MulDivFloor(h.collateral, BPS, h.debt) >= MIN_HEALTH_BPS

-----------------------------------------------------------------------------
(* Legs.                                                                   *)

\* A fault: what the vault pays is not checked against what it has.
AffordsAny(x, a, amount) == TRUE

\* The transfer from the vault goes through, and it is of exactly the amount.
Affords(x, a, amount) == x.spot[a] >= amount

\* pool_action: the answer of the pool has to be the expected one.
PoolResults(x, leg) ==
    LET side == Side[leg.kind]
        old  == x.positions[leg.asset][side]
        new  == Expected(leg.kind, old, rates[leg.asset], leg.amount)
        cash == IF leg.kind \in Lends \cup {"repay"} THEN -new.moved ELSE new.moved
    IN  IF /\ Requestable(leg.kind, old, rates[leg.asset], leg.amount)
           /\ leg.kind = "supply" => leg.asset = Usdc
           /\ Submit(leg.kind, old, rates[leg.asset],
                     Requested(leg.kind, old, rates[leg.asset], leg.amount)) = new
           /\ Affords(x, leg.asset, -cash)
          THEN {[x EXCEPT !.spot[leg.asset] = @ + cash,
                          !.positions[leg.asset][side] = new.tokens]}
          ELSE {}

\* What a swap of `value` may deliver of asset a, down to the slippage bound.
Fills(value, a) ==
    {n \in 1 .. MulDivFloor(value, PRICE_SCALE, MarkOf(a)) :
        MulDivFloor(n, MarkOf(a), PRICE_SCALE)
          >= MulDivCeil(value, BPS - MAX_SLIPPAGE_BPS, BPS)}

\* A swap out of leg.asset into the other one.
SwapResults(x, leg, recovery) ==
    LET out       == IF leg.asset = Usdc THEN Other ELSE Usdc
        value     == MulDivCeil(leg.amount, MarkOf(leg.asset), PRICE_SCALE)
        shortfall == Greatest(Owed(x, out) - x.spot[out], 0)
        capped    == recovery /\ out # Usdc
    IN  IF price = 0 \/ ~Affords(x, leg.asset, leg.amount) THEN {}
        ELSE {[x EXCEPT !.spot[leg.asset] = @ - leg.amount,
                        !.spot[out]       = @ + n,
                        !.bought          = IF capped THEN @ + n ELSE @] :
                n \in {n \in Fills(value, out) : capped => n <= shortfall}}

LegResults(x, leg, recovery) ==
    IF leg.kind = "swap" THEN SwapResults(x, leg, recovery) ELSE PoolResults(x, leg)

\* run: the legs in order.
Run(legs, recovery) ==
    LET after[i \in 0 .. Len(legs)] ==
          IF i = 0 THEN {Now}
          ELSE UNION {LegResults(x, legs[i], recovery) : x \in after[i - 1]}
    IN  after[Len(legs)]

-----------------------------------------------------------------------------
(* Calls.                                                                  *)

Becomes(x) ==
    /\ spot' = x.spot /\ positions' = x.positions
    /\ UNCHANGED <<rates, price, oracle, rewards>>

\* An ordinary plan has to end within the full limits.
Execute(legs) ==
    /\ ~Blocked
    /\ Priced(Now) /\ Equity(Now) > 0
    /\ \E x \in Run(legs, FALSE) :
          /\ Priced(x) /\ Equity(x) > 0
          /\ WithinDebtLimit(x) /\ HealthKnown(x) /\ Healthy(x)
          /\ Becomes(x)

\* A fault: collateral may leave while the health is below its limit.
RecoversDebtOnly(x) == Debt(x) < Debt(Now)

\* check_recovery: outside the limits debt and debt/equity have to fall and the
\* health must not.
Recovers(x) ==
    LET old == Health(Now)
        new == Health(x)
        outside == \/ ~WithinDebtLimit(x)
                   \/ new.collateral < MulDivCeil(new.debt, MIN_HEALTH_BPS, BPS)
    IN  outside =>
          /\ Debt(x) < Debt(Now)
          /\ Debt(x) < MulDivCeil(Debt(Now), Equity(x), Equity(Now))
          /\ old.debt # 0
          /\ new.collateral >= MulDivCeil(old.collateral, new.debt, old.debt)

\* A fault: a purchase has to reduce debt, by however little.
ConsumesSome(x) == x.bought > 0 => Owed(x, Other) < Owed(Now, Other)

\* What was bought of an owed asset has to be repaid, up to one atom.
Consumes(x) ==
    x.bought > 0 =>
      /\ Owed(x, Other) # Owed(Now, Other)
      /\ x.bought <= Owed(Now, Other) - Owed(x, Other) + 1

Unwind(legs) ==
    /\ ~Blocked
    /\ Priced(Now) /\ Equity(Now) > 0 /\ HealthKnown(Now)
    /\ \A i \in DOMAIN legs : legs[i].kind \in {"swap", "repay"} \cup Withdraws
    /\ \E x \in Run(legs, TRUE) :
          /\ Priced(x) /\ Equity(x) > 0 /\ HealthKnown(x)
          /\ \A a \in Asset : /\ Owed(x, a) <= Owed(Now, a)
                              /\ Pledged(x, a) <= Pledged(Now, a)
                              /\ Supplied(x, a) <= Supplied(Now, a)
          /\ Consumes(x)
          /\ \/ x.spot[Usdc] > spot[Usdc]
             \/ \E a \in Asset : Owed(x, a) < Owed(Now, a) \/ Supplied(x, a) < Supplied(Now, a)
          /\ Recovers(x)
          /\ Becomes(x)

\* recover_supply and repay need neither price nor oracle.
Recovered(a, x) ==
    /\ x.spot[a] > spot[a] /\ Supplied(x, a) < Supplied(Now, a)
    /\ x.spot[a] + Supplied(x, a) + 1 >= spot[a] + Supplied(Now, a)

RecoverSupply(a, amount) ==
    /\ ~Blocked
    /\ \E x \in PoolResults(Now, [kind |-> "withdraw", asset |-> a, amount |-> amount]) :
          Recovered(a, x) /\ Becomes(x)

Repaid(a, x) ==
    /\ Owed(x, a) < Owed(Now, a)
    /\ spot[a] - x.spot[a] <= Owed(Now, a) - Owed(x, a) + 1

Repay(a, amount) ==
    /\ ~Blocked
    /\ \E x \in PoolResults(Now, [kind |-> "repay", asset |-> a, amount |-> amount]) :
          Repaid(a, x) /\ Becomes(x)

\* A fault: only the rewards of lenders are claimed.
ClaimedIdsLent == Asset \X {"b"}

ClaimedIds == RewardIds

\* The reward is sent to the vault as a token of its own, which no pool position
\* is held in.  The constructor does not ask for one, and the claim needs it.
ClaimRewards ==
    /\ REWARD_CONFIGURED
    /\ rewards' = rewards \ ClaimedIds
    /\ UNCHANGED <<spot, positions, rates, price, oracle>>

-----------------------------------------------------------------------------
(* The environment.                                                        *)

\* Interest only ever raises the rates.
Accrue(rs) ==
    /\ \A a \in Asset : rs[a].b >= rates[a].b /\ rs[a].d >= rates[a].d
    /\ rates' = rs
    /\ UNCHANGED <<spot, positions, price, oracle, rewards>>

Move(p, q) ==
    /\ price' = p /\ oracle' = q
    /\ UNCHANGED <<spot, positions, rates, rewards>>

\* Emissions accrue to whoever holds a side of a reserve.
Emit(id) ==
    /\ IF id[2] = "b" THEN positions[id[1]].supply + positions[id[1]].collateral > 0
       ELSE positions[id[1]].debt > 0
    /\ rewards' = rewards \cup {id}
    /\ UNCHANGED <<spot, positions, rates, price, oracle>>

-----------------------------------------------------------------------------
(* The specification.                                                      *)

Init ==
    /\ spot \in Spots
    /\ positions = [a \in Asset |-> NoPosition]
    /\ rates \in Rates
    /\ price \in Prices /\ oracle \in OraclePrices
    /\ rewards = {}

Public ==
    \/ \E legs \in Unwinds : Unwind(legs)
    \/ \E a \in Asset, amount \in Amounts : RecoverSupply(a, amount) \/ Repay(a, amount)
    \/ ClaimRewards

Environment ==
    \/ \E rs \in Rates : Accrue(rs)
    \/ \E p \in Prices, q \in OraclePrices : Move(p, q)
    \/ \E id \in RewardIds : Emit(id)

Next == (\E legs \in Plans : Execute(legs)) \/ Public \/ Environment

\* claim_rewards is open to all and needs nothing but an entitlement, so somebody
\* who wants to exit calls it.
Spec == Init /\ [][Next]_vars /\ WF_vars(ClaimRewards)

-----------------------------------------------------------------------------
(* Properties.                                                             *)

RecoveryTypeOK ==
    /\ spot \in [Asset -> Nat]
    /\ positions \in [Asset -> PositionSet]
    /\ rates \in Rates /\ price \in Prices /\ oracle \in OraclePrices
    /\ rewards \subseteq RewardIds

\* Whatever position and rates interest has led to, the vault predicts the pool's
\* answer to every request exactly.  A difference of one token would make
\* pool_action abort, and with it every unwind, recovery and repayment.
ExpectationsExact ==
    \A a \in Asset, kind \in PoolKind, amount \in Amounts :
        LET old == positions[a][Side[kind]]
        IN  Requestable(kind, old, rates[a], amount) =>
              Submit(kind, old, rates[a], Requested(kind, old, rates[a], amount))
                = Expected(kind, old, rates[a], amount)

\* No position is ever too small or too odd to be closed in one call: asking for
\* all of it passes the conservation checks of recover_supply and repay.
FullRecoveryAccepted ==
    \A a \in Asset :
        /\ positions[a].supply > 0 =>
             \E x \in PoolResults(Now, [kind |-> "withdraw", asset |-> a,
                                         amount |-> Supplied(Now, a)]) :
                Recovered(a, x) /\ x.positions[a].supply = 0
        /\ (positions[a].debt > 0 /\ spot[a] >= Owed(Now, a)) =>
             \E x \in PoolResults(Now, [kind |-> "repay", asset |-> a,
                                         amount |-> Owed(Now, a)]) :
                Repaid(a, x) /\ x.positions[a].debt = 0

Outside(debt, equity, health) ==
    \/ debt * BPS > equity * MAX_DEBT_BPS
    \/ health.collateral * BPS < health.debt * MIN_HEALTH_BPS

Call == UNCHANGED <<rates, price, oracle>>

\* Priced, solvent and with a pool oracle: the ratios below mean something.
Measurable == Priced(Now) /\ Equity(Now) > 0 /\ HealthKnown(Now)

\* Only markets and interest drive the vault into risk: a call that ends outside
\* the debt or the health limit has not raised the debt nor lowered the pool's
\* health, compared exactly across all roundings of check_recovery, and neither
\* has an unwind raised debt/equity or left it as it was.
OnlyMarketsAddRisk ==
    [][(Call /\ Measurable /\ Outside(Debt(Now)', Equity(Now)', Health(Now)')) =>
          /\ Debt(Now)' <= Debt(Now)
          /\ Health(Now)'.collateral * Health(Now).debt
               >= Health(Now).collateral * Health(Now)'.debt
          /\ Debt(Now)' * Equity(Now) >= Debt(Now) * Equity(Now)' =>
               ~\E legs \in Unwinds : Unwind(legs)]_vars

\* An unwind is not a way to trade: what it buys of a borrowed asset is gone when
\* it ends, but for one atom, in whatever order it swaps, withdraws and repays.
UnwindBuysNothing ==
    [][(UNCHANGED price /\ Gross(Now, Other)' > Gross(Now, Other) + 1) =>
         ~\E legs \in Unwinds : Unwind(legs)]_vars

\* An entitlement blocks every priced call and every recovery.  In a vault with a
\* reward asset one claim of all ids, which anybody can make, ends that; without
\* one nothing does.
RewardsUnblock == REWARD_CONFIGURED => (Blocked ~> ~Blocked)

\* docs/operations.md: "repay(asset, amount) verifies that debt reduction covers
\* actual cash spent."
RepayCoversCash ==
    [][\A a \in Asset :
          (UNCHANGED <<rates, price, oracle>> /\ spot'[a] < spot[a]
             /\ \E amount \in Amounts : Repay(a, amount)) =>
             spot[a] - spot'[a] <= Owed(Now, a) - Owed(Now, a)']_vars

=============================================================================
