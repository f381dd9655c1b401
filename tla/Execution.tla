------------------------------ MODULE Execution ------------------------------
(***************************************************************************)
(* Targets, plans and unwinds (contracts/vault/src/execution.rs) on top of *)
(* the governed share ledger, in the flagship configuration: one reserve   *)
(* asset beside the settlement asset, a pool to lend to, borrowing off.    *)
(*                                                                         *)
(* The executor publishes a target allocation and signs plans against it;  *)
(* a signed plan may reach the ledger late, twice or never.  Anybody may   *)
(* unwind.  Both are charged to one budget of losses and turnover.         *)
(*                                                                         *)
(* A plan's legs are left open until it runs, and so is what the markets   *)
(* answer within the slippage bound: both only add behaviours.  Routes,    *)
(* their nested authorizations and the pool's own rules are not here.      *)
(***************************************************************************)
EXTENDS Governance, Sequences

CONSTANTS
    LIQUID_BPS,         \* liquid buffer of the settlement asset        (250)
    YIELD_BASE_BPS,     \* residual reserve without any trend asset   (9_500)
    MAX_YIELD_BPS,      \* ceiling of Target.yield_bps                (1_000)
    DRIFT_BPS,          \* drift a plan tolerates                       (100)
    MAX_EXPIRY,         \* longest life of a target
    MAX_SLIPPAGE_BPS, MAX_LEG_BPS, MAX_TURNOVER_BPS, MAX_LOSS_BPS,
    COOLDOWN,           \* ledgers between two executions
    WINDOW,             \* ledgers of one budget                     (17_280)
    Rounding,           \* atoms one pool conversion may lose
    Bonus,              \* how much better than its mark a swap may fill
    Routes,             \* sequences of legs [kind, amount] callers may ask for
    Epochs, Expiries, Yields,   \* what the executor puts into targets
    Recoveries,         \* amounts of recover_supply calls
    Offsets,            \* how far its figure of the equity is off
    MaxSigned,          \* bound: plans in flight
    NoTarget

ASSUME ExecutionAssumption ==
    /\ {LIQUID_BPS, YIELD_BASE_BPS, MAX_YIELD_BPS, DRIFT_BPS, MAX_SLIPPAGE_BPS,
        MAX_LEG_BPS, MAX_TURNOVER_BPS, MAX_LOSS_BPS} \subseteq 0 .. BPS
    /\ {MAX_EXPIRY, COOLDOWN, Rounding, Bonus, MaxSigned} \subseteq Nat
    /\ WINDOW \in Nat \ {0}
    /\ Routes \subseteq Seq([kind : {"buy", "sell", "supply", "withdraw"}, amount : Nat \ {0}])
    /\ Epochs \subseteq Nat /\ Expiries \subseteq Nat /\ Yields \subseteq Nat
    /\ Offsets \subseteq Nat /\ Recoveries \subseteq Nat
    /\ NoTarget \notin [epoch : Nat, expiry : Nat, yield_bps : Nat,
                        equity : Nat, supply : Nat, holdings : HoldingSet]

VARIABLES
    target,     \* storage key Target: NoTarget or the published target
    book,       \* State.{nonce, last_execution, window_ledger, turnover, loss}
    signed,     \* plans the executor has signed; the network may repeat them
    stale,      \* history: the signed plans something else has overtaken
    spent       \* history: every charge so far, with running totals

executing == <<target, book, signed, stale, spent>>

allVars == <<vars, governed, executing>>

-----------------------------------------------------------------------------
(* Targets.                                                                *)

Apart(a, b) == Greatest(a - b, b - a)

\* The drift of `actual` from what the target was sized for, rounded up.
Drifted(actual, sized) == MulDivCeil(Apart(sized, actual), BPS, sized) > DRIFT_BPS

\* The weights add up to BPS and the settlement weight is the liquid buffer and
\* its yield, so with one reserve asset yield_bps determines both.
SettlementWeight(t) ==
    LIQUID_BPS + MulDivFloor(BPS - LIQUID_BPS, t.yield_bps, BPS)

\* validate_target; the holdings stand for their hash.
ValidTarget(t) ==
    /\ t.expiry \in now .. now + MAX_EXPIRY
    /\ t.yield_bps <= MAX_YIELD_BPS
    /\ t.equity > 0 /\ ~Drifted(Equity(holdings), t.equity)
    /\ t.supply > 0
    /\ SettleDefined(state, fees, now, t.equity)
    /\ ~Drifted(Settle(state, fees, now, t.equity).state.supply, t.supply)
    /\ t.holdings = holdings

\* A fault: a target of the same epoch can be replaced.
NewEpochOrSame(t) == target # NoTarget => t.epoch >= target.epoch

NewEpoch(t) == target # NoTarget => t.epoch > target.epoch

PublishTarget(t) ==
    /\ ~state.paused
    /\ Priced(holdings) /\ Equity(holdings) > 0
    /\ ValidTarget(t)
    /\ NewEpoch(t)
    /\ target' = t
    /\ stale' = signed
    /\ signers' = {}
    /\ UNCHANGED <<state, fees, balance, allowance, holdings, price, now>>
    /\ UNCHANGED governed /\ UNCHANGED <<book, signed, spent>>

\* The most the vault may lend under target t.
YieldLimit(t, equity) ==
    MulDivFloor(equity, YIELD_BASE_BPS * t.yield_bps, BPS * BPS)

AssetValue(n) == MulDivFloor(n, price, PRICE_SCALE)

\* How far holdings h of total value `equity` are from the target.
Distance(t, equity, h) ==
    LET weight == SettlementWeight(t)
    IN  Apart(h.usdc + h.supply, MulDivFloor(equity, weight, BPS))
          + Apart(AssetValue(h.asset), MulDivFloor(equity, BPS - weight, BPS))
          + Apart(h.supply, YieldLimit(t, equity))

-----------------------------------------------------------------------------
(* Legs.  A leg is [kind, amount]; what it does to holdings h is a set.    *)

LegValue(leg) ==
    IF leg.kind = "sell" THEN MulDivCeil(leg.amount, price, PRICE_SCALE)
    ELSE leg.amount

Turnover(legs) ==
    LET sum[i \in 0 .. Len(legs)] ==
          IF i = 0 THEN 0 ELSE sum[i - 1] + LegValue(legs[i])
    IN  sum[Len(legs)]

\* What a swap may deliver, in value: at least the caller's minimum, which the
\* vault's own mark bounds from below.
Fills(value) ==
    MulDivCeil(value, BPS - MAX_SLIPPAGE_BPS, BPS) .. value + Bonus

\* A fault: the pool is asked for more than the vault lent.
PaidUnbounded(h, amount) == amount

\* A withdrawal above the position pays the whole position.
Paid(h, amount) == Least(amount, h.supply)

Outcomes(h, leg) ==
    CASE leg.kind = "buy" ->
           {[h EXCEPT !.usdc = @ - leg.amount, !.asset = @ + n] :
              n \in {n \in 1 .. MAX_AMOUNT : /\ h.usdc >= leg.amount
                                             /\ price > 0
                                             /\ AssetValue(n) \in Fills(leg.amount)}}
      [] leg.kind = "sell" ->
           {[h EXCEPT !.asset = @ - leg.amount, !.usdc = @ + n] :
              n \in {n \in Fills(LegValue(leg)) : h.asset >= leg.amount /\ price > 0 /\ n > 0}}
      [] leg.kind = "supply" ->
           {[h EXCEPT !.usdc = @ - leg.amount, !.supply = @ + leg.amount - lost] :
              lost \in {l \in 0 .. Rounding : h.usdc >= leg.amount /\ l < leg.amount}}
      [] leg.kind = "withdraw" ->
           LET paid == Paid(h, leg.amount)
           IN  {[h EXCEPT !.usdc = @ + paid, !.supply = @ - paid - lost] :
                  lost \in {l \in 0 .. Rounding : h.supply > 0 /\ (l > 0 => paid + l <= h.supply)}}

\* run: the legs in order, each bounded by the equity before the first.
Run(h, legs) ==
    IF \E i \in DOMAIN legs :
          LegValue(legs[i]) > MulDivFloor(Equity(h), MAX_LEG_BPS, BPS)
      THEN {}
      ELSE LET after[i \in 0 .. Len(legs)] ==
                 IF i = 0 THEN {h}
                 ELSE UNION {Outcomes(x, legs[i]) : x \in after[i - 1]}
           IN  after[Len(legs)]

-----------------------------------------------------------------------------
(* The budget, shared by executions and unwinds.                           *)

\* A fault: every call starts a window of its own.
WindowAlwaysOver(time) == TRUE

WindowOver(time) == time - book.window_ledger >= WINDOW

\* A fault: the new window starts at the equity after the call.
WindowBaselineAfter(before, after) == IF WindowOver(now) THEN after ELSE state.window_equity

WindowBaseline(before, after) == IF WindowOver(now) THEN before ELSE state.window_equity

Charged(before, after, turnover) ==
    LET over == WindowOver(now)
    IN  [nonce          |-> book.nonce + 1,
         last_execution |-> now,
         window_ledger  |-> IF over THEN now ELSE book.window_ledger,
         turnover       |-> (IF over THEN 0 ELSE book.turnover) + turnover,
         loss           |-> (IF over THEN 0 ELSE book.loss) + Greatest(before - after, 0)]

Portion(base, bps) == MulDivFloor(base, bps, BPS)

\* What the first i charges came to.
Total(field, i) == IF i = 0 THEN 0 ELSE spent[i][field]

\* What both execute and unwind do with the outcome h: the fees were settled at
\* the equity before, the budget is charged, the nonce is consumed.
Conclude(h, legs) ==
    LET before   == Equity(holdings)
        after    == Equity(h)
        charged  == Charged(before, after, Turnover(legs))
        baseline == WindowBaseline(before, after)
        base     == Least(baseline, before)
    IN  /\ after > 0
        /\ charged.turnover <= Portion(base, MAX_TURNOVER_BPS)
        /\ charged.loss <= Portion(base, MAX_LOSS_BPS)
        /\ state' = [Settlement.state EXCEPT !.window_equity = baseline]
        /\ balance' = Settled(Settlement.minted)
        /\ holdings' = h
        /\ book' = charged
        /\ spent' = Append(spent,
                [at |-> now, base |-> base,
                 turnover |-> Total("turnover", Len(spent)) + Turnover(legs),
                 loss |-> Total("loss", Len(spent)) + Greatest(before - after, 0)])
        /\ stale' = signed
        /\ signers' = {}
        /\ UNCHANGED <<fees, allowance, price, now>>
        /\ UNCHANGED governed /\ UNCHANGED <<target, signed>>

-----------------------------------------------------------------------------
(* Plans.                                                                  *)

\* The executor signs a plan for the target, nonce and version it reads.
SignPlan(deadline) ==
    LET plan == [target |-> target, nonce |-> book.nonce, version |-> version,
                 deadline |-> deadline, executor |-> roles["executor"]]
    IN  /\ target # NoTarget
        /\ Cardinality(signed) < MaxSigned \/ plan \in signed
        /\ signed' = signed \cup {plan}
        /\ signers' = {}
        /\ UNCHANGED <<state, fees, balance, allowance, holdings, price, now>>
        /\ UNCHANGED governed /\ UNCHANGED <<target, book, stale, spent>>

\* A signed plan is lost, or given up, before it is submitted again.
LosePlan(plan) ==
    /\ signed' = signed \ {plan} /\ stale' = stale \ {plan}
    /\ signers' = {}
    /\ UNCHANGED <<state, fees, balance, allowance, holdings, price, now>>
    /\ UNCHANGED governed /\ UNCHANGED <<target, book, spent>>

\* A fault: a paused vault still executes.
PlanCurrentPaused(plan) ==
    /\ plan.executor = roles["executor"]
    /\ plan.nonce = book.nonce /\ plan.version = version
    /\ plan.deadline >= now
    /\ plan.target = target /\ target.expiry >= now

\* What execute checks of the plan itself; the target stands for its hash.
PlanCurrent(plan) ==
    /\ plan.executor = roles["executor"]
    /\ ~state.paused
    /\ plan.nonce = book.nonce /\ plan.version = version
    /\ plan.deadline >= now
    /\ plan.target = target /\ target.expiry >= now

\* The liquid buffer is not reduced below LIQUID_BPS of the equity.
KeepsLiquid(h) ==
    h.usdc >= Least(holdings.usdc, MulDivFloor(Equity(h), LIQUID_BPS, BPS))

Execute(plan, legs) ==
    /\ PlanCurrent(plan)
    /\ FlowOpen
    /\ ~Drifted(Settlement.state.supply, target.supply)
    /\ ~Drifted(Equity(holdings), target.equity)
    /\ now >= book.last_execution + COOLDOWN
    /\ \E h \in Run(holdings, legs) :
          /\ Distance(target, Equity(h), h)
               < Distance(target, Equity(holdings), holdings)
          /\ KeepsLiquid(h)
          /\ h.supply <= YieldLimit(target, Equity(h))     \* check_positions
          /\ Conclude(h, legs)

\* Without debt an unwind may only sell into the settlement asset and withdraw.
RecoveryKind(leg) == leg.kind \in {"sell", "withdraw"}

\* unwind is public, also while the vault is paused.  The nonce and the deadline
\* only guard the caller against being overtaken.
Unwind(legs, nonce, deadline) ==
    /\ nonce = book.nonce /\ deadline >= now
    /\ FlowOpen
    /\ \A i \in DOMAIN legs : RecoveryKind(legs[i])
    /\ \E h \in Run(holdings, legs) :
          /\ h.supply <= holdings.supply
          /\ h.usdc > holdings.usdc \/ h.supply < holdings.supply
          /\ Conclude(h, legs)

-----------------------------------------------------------------------------
(* The specification.                                                      *)

ExecutionInit ==
    /\ GovernedInit
    /\ target = NoTarget
    /\ book = [nonce |-> 0, last_execution |-> 0, window_ledger |-> InitialTime,
               turnover |-> 0, loss |-> 0]
    /\ signed = {} /\ stale = {} /\ spent = <<>>

\* The executor sizes a target for what it reads.
Proposals ==
    [epoch : Epochs, expiry : Expiries, yield_bps : Yields,
     equity : {Equity(holdings) + n : n \in Offsets},
     supply : {Settlement.state.supply}, holdings : {holdings}]

Plans ==
    \/ \E t \in Proposals : PublishTarget(t)
    \/ \E deadline \in Deadlines : SignPlan(deadline)
    \/ \E plan \in signed : LosePlan(plan)
    \/ \E legs \in Routes :
         \/ \E plan \in signed : Execute(plan, legs)
         \/ \E deadline \in Deadlines : Unwind(legs, book.nonce, deadline)

\* Everything else the vault and its holders do.
Shares ==
    \/ Flows \/ BasketExits \/ Token \/ FeeCalls \/ Environment
    \/ \E amount \in Recoveries, lost \in 0 .. Rounding : RecoverSupply(amount, lost)

Applies == \E v \in Versions, change \in Changes : ApplyChange(Hash(v, change))

Ledger ==
    /\ \/ Shares /\ UNCHANGED governed
       \/ Govern
    /\ stale' = IF Applies THEN signed ELSE stale
    /\ UNCHANGED <<target, book, signed, spent>>

ExecutionNext == Plans \/ Ledger

ExecutionSpec == ExecutionInit /\ [][ExecutionNext]_allVars

-----------------------------------------------------------------------------
(* Properties.                                                             *)

Target == [epoch : Nat, expiry : Nat, yield_bps : Nat, equity : Nat,
           supply : Nat, holdings : HoldingSet]

Plan == [target : Target, nonce : Nat, version : Nat, deadline : Nat,
         executor : Holders]

ExecutionTypeOK ==
    /\ GovernanceTypeOK
    /\ target \in Target \cup {NoTarget}
    /\ book \in [nonce : Nat, last_execution : Nat, window_ledger : Nat,
                 turnover : Nat, loss : Nat]
    /\ signed \subseteq Plan /\ stale \subseteq signed
    /\ spent \in Seq([at : Nat, base : Nat, turnover : Nat, loss : Nat])

Executes(plan) == \E legs \in Routes : Execute(plan, legs)

\* A plan never runs once another execution, an unwind, a new target or a change
\* of the configuration came after its signature, however late and however often
\* it is submitted: the nonce, the target hash with its epoch and the version
\* (execute) together leave no way back to a plan's past.
StalePlansNeverRun == [][\A plan \in stale : ~Executes(plan)]_allVars

\* What the charges from i to j came to is within what two baselines allow.
WithinTwo(field, bps, i, j) ==
    \E k, l \in i .. j :
        Total(field, j) - Total(field, i - 1)
          <= Portion(spent[k].base, bps) + Portion(spent[l].base, bps)

\* The window of `limits` is a tumbling one and its baseline moves with deposits
\* and withdrawals.  All the same, in whatever WINDOW ledgers one looks at, losses
\* and turnover stay within the shares of two of the baselines charged in them.
SlidingBudget ==
    \A j \in DOMAIN spent : \A i \in 1 .. j :
        spent[j].at - spent[i].at < WINDOW =>
            /\ WithinTwo("loss", MAX_LOSS_BPS, i, j)
            /\ WithinTwo("turnover", MAX_TURNOVER_BPS, i, j)

\* A pause freezes the strategy, though unwinds, recoveries and exits go on: until
\* the resume nothing is lent, no target is replaced, and the vault gets more of
\* another asset only as a gift.
PauseHolds ==
    [][(state.paused /\ state'.paused) =>
         /\ holdings'.supply <= holdings.supply
         /\ target' = target
         /\ holdings'.asset > holdings.asset => holdings'.usdc = holdings.usdc]_allVars

\* An accepted plan or unwind is a Rebalance of VaultShares: what is proved there
\* about shares and fees for every portfolio an execution may leave behind holds
\* of the portfolios this module computes.
ChargesAreRebalances == [][book' # book => Rebalance(holdings')]_allVars

=============================================================================
