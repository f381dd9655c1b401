# Etesia Vault in TLA+

Specifications, model-checking runs and machine-checked proofs for the Soroban
contracts under `contracts/` of this repository: the vault with its share ledger,
fees, governance, plan execution and Blend positions, its pricing provider with
the runner that feeds it, and the DeFindex adapter that invests in the vault.

## The system

| Part | State it keeps | Operations | Talks to |
| --- | --- | --- | --- |
| Share ledger (`vault/src/lib.rs`, `token.rs`, `storage.rs`) | balances, allowances, `State.supply`, the vault's spot holdings | SEP-41 calls, `deposit`, `mint`, `withdraw`, `redeem`, `burn`, `redeem_in_kind`, `max_*` views | settles fees and values holdings first in every flow |
| Fees (`vault/src/fees.rs`) | high-water mark, last checkpoint, carried remainders ("dust") | `management`, `performance`, `settle`, `collect_fees`, `checkpoint_fees` | mints into the share ledger |
| Valuation (`vault/src/pricing.rs`) | none | `price`, `equity_of`, `holdings`, `transferable` | pricing provider, Blend pool, tokens |
| Governance (`vault/src/governance.rs`) | roles, fee terms, `paused`, one pending change, `State.version` | `pause`, `announce`, `cancel`, `apply_change` | settles fees before new terms; needs a price to resume |
| Execution (`vault/src/execution.rs`) | target, nonce, cooldown, turnover and loss window | `publish_target`, `execute`, `unwind`, `recover_supply`, `repay`, `claim_rewards` | router, Blend pool, fees, valuation |
| Blend positions (`vault/src/blend.rs`) | held by the pool | `pool_action`, `health` | Blend pool |
| Pricing provider (`pricing/src`) | per asset, three completed samples and one pending, in temporary storage | `observe`, `upkeep`, `mark`, `diagnose` | Reflector feeds, Soroswap pair |
| Observation runner (`scripts/d3-observe.py`) | none | a pass: `observe` for each source in turn, up to the first refusal | pricing provider |
| Adapter (`adapter/src/lib.rs`) | one binding to a parent | `deposit`, `withdraw`, `harvest`, `balance` | vault |

A call is one ledger transaction: it runs alone and a panic undoes all of it.
What is concurrent is the order of whole calls by different parties, the
passing of ledgers, prices that move or go missing, tokens sent without a call,
and temporary storage that expires. The hard parts are therefore

- remainders carried between calls, where a division could abort every later
  call, or the same gain could be charged twice;
- roundings of the flows, which repeated small calls would exploit;
- entry points open to everybody (`observe`, `upkeep`, `apply_change`,
  `collect_fees`, `checkpoint_fees`, `unwind`, `repay`, `recover_supply`),
  which run between any two steps of another party;
- the time between announcing, signing, publishing and applying something;
- same-ledger manipulation of the pool a mark is compared with.

`PROJECT.json` lists each hazard at its line, with the properties that cover it
or the reason why none does yet.

## Modules

| Module | Contents |
| --- | --- |
| `VaultMath` | `mul_div` with both roundings, and `fraction` |
| `VaultFees` | fee accrual as pure operators on a `State` record |
| `VaultShares` | the share ledger as a state machine, one action per entry point |
| `Timelock` | abstract: no terms change without standing notice for the whole delay |
| `Governance` | `VaultShares` composed with pauses and timelocked changes; implements `Timelock` |
| `Execution` | `Governance` composed with targets, plans in flight, unwinds and their budget |
| `BlendPool` | the pool's arithmetic for one request, and what the vault expects of it |
| `Recovery` | borrowing, health, public unwinds, `recover_supply`, `repay`, rewards |
| `PricingHistory` | one asset's observation window, its mark, and the vault's check of that mark |
| `PricingKeeper` | `PricingHistory` with the runner that samples several sources in turn, its failures and everybody else |
| `Strategy` | abstract: what a DeFindex parent may rely on |
| `Adapter` | `VaultShares` composed with the adapter and its parent; implements `Strategy` |
| `MC...` | instances for TLC |
| `..._proofs` | theorems about the module of that name |

    VaultMath <- VaultFees <- VaultShares <- Governance <- Execution
                                     ^           |
                                     |           +-- instantiates Timelock
                                     +----- Adapter -- instantiates Strategy
    VaultMath <- PricingHistory <- PricingKeeper
    VaultMath <- BlendPool <- Recovery

(`A <- B`: B extends A.) The refinement mappings are `Terms`/`Notice` for `Timelock`
and `Claim`/`Unit` for `Strategy`. `Execution` and `Recovery` look at the same calls
from two sides: `Execution` has the whole protocol (who signed what, which budget
is left) and one reserve asset without debt; `Recovery` has debt, collateral and
the pool's rates, and leaves the protocol out.

Definitions introduced by a comment "A fault:" are not part of the system: each
is a wrong variant of the definition that follows it, and some property of the
runs fails when it takes that definition's place.

### How the state corresponds to the code

`VaultShares`: `state` is the `State` record of `types.rs` without what only
execution and governance use; `fees` is `Config.fees`; `balance` and `allowance`
are the persistent entries (an absent entry is zero, or `NoAllowance`);
`holdings` is the vault's balance of the settlement asset and of one other asset
together with its Blend position; `price` is the mark of that other asset, zero
when `pricing::price` returns an error; `now` is the ledger. `signers` records
whose authorization the last call required; it exists for the authorization
property only.

Every flow of the code begins with `enter_flow`: price the holdings, settle
fees, credit the fee shares, then act on the settled record. The action
therefore takes the settlement `s` as a parameter, and the guards that the code
evaluates after settling are evaluated on `s` and on the balances with the fee
shares credited.

`Governance` adds the roles, the pending slot and the version. The hash of a
change is modelled by what it is computed from, the version and the change.

`PricingHistory`: `completed` and `pending` are `History`; `live` is the last
ledger of the temporary entry; `pool` and `feeds` are what outsiders set. Reading
the history promotes a pending sample of an earlier ledger, in the code as in
`Samples`; only `observe` writes the result.

`Execution`: `target` is the storage key `Target`; `book` is `nonce`,
`last_execution`, `window_ledger`, `turnover` and `loss` of `State`, whose
`window_equity` is in `state` because flows move it. `signed` is the network: plans the
executor has signed, which may arrive at any time, several times or never. `stale`
and `spent` are history variables of the properties; no action reads them to decide
anything. A leg's outcome is a set: a swap fills anywhere within the slippage bound, a
pool request loses up to `Rounding` atoms. `Conclude` is the common tail of `execute` and
`unwind`: fees settled at the equity before, the budget charged, the nonce
consumed. The hashes of target and holdings are modelled by what they hash. `spent`
is the list of all charges, each with the totals up to it, so that what a stretch of
calls came to is one subtraction.

`Recovery`: `positions` are pool tokens, `rates` the pool's rates after accrual, `price` the
vault's mark and `oracle` the pool's own price of the other asset (zero: none).
`rewards` are the emission ids with an unclaimed entitlement; while there is one,
`holdings` of the code aborts. A record `x` is a state inside a call, between two legs;
`Run` is the function from the number of legs done to the records they may lead to.

`PricingKeeper`: one source, the subject, with the `EARLIER` sources listed before it. A
pass of the runner calls `observe` for each in turn (`next`) and ends at the first refusal,
as `invoke` of `d3-observe.py` raises: `RefusedEarlier` is the call after which the subject
gets none. Of an earlier source `earlier` keeps what decides a refusal: when it was last
sampled, by whom, and whether its pool is deep enough. `started` and `passed` are when the
last pass began and when one last reached the subject. `outage` is "on" from any pass that
fails (network, funds, hash, schedule), that is refused before the subject, or that
finds the subject's own pool too shallow, until a call reaches the subject again; failures
and returns are any number, at any time. Sources listed after the subject cannot disturb
it. All sources have the same limits.

`Adapter`: the adapter is the holder `Self`; `cash` is what the parent and the recipients
of its withdrawals hold. Only the parent makes the adapter act, so that every other
step is one of `VaultShares` in which the adapter signs nothing. `Answers` is when the
vault's `convert_to_assets` returns for the adapter's shares. `deposit` and `withdraw` of
the adapter end with `balance` and fail with it, so `Answers'` is among their guards;
`max_withdraw` asks the same view first.
`Strategy` allows the claim to lag behind the cash by a `unit`: what one share and the
fee shares that are pending after the call are worth, rounded up. One share alone is
not enough. A performance charge below one fee share leaves the mark where it was
(`fees.rs:69`), so a deposit many times the supply is charged the same gain per share
on many times the shares, and part of the depositor's own cash then pays for it. At
the deployed scale this takes a share price of about a thousand times the first one and
a deposit of more than a hundred times the supply; TLC's instance does not reach it, the
attempt to prove the narrower promise does.

### Abstractions

- Amounts are unbounded integers; checked additions and narrowing conversions
  that overflow abort the call, so they only take behaviours away. `MAX_AMOUNT`
  is kept, because it bounds arguments.
- One unit of `now` is a ledger; in `VaultShares` seconds and ledgers advance
  together. `PricingHistory` keeps both, because spacing is in seconds and
  promotion in ledgers.
- Besides the settlement asset there is one other asset. `equity_of` adds assets
  independently and skips those not held; the second asset suffices for a missing
  price and for a basket of two. The Blend position is in settlement units.
- In `VaultShares` a mark is any number or missing; that a mark is produced as
  the provider promises is the subject of `PricingHistory`.
- `Rebalance` of `VaultShares` stands for `execute` and `unwind`, with any holdings of
  positive value afterwards. That `Execution`'s calls are such steps is checked
  (`ChargesAreRebalances`). `RecoverSupply` and `Repay` are the two price-free calls.
- `Execution` is the flagship configuration: one reserve asset beside the
  settlement asset, borrowing off. A plan's legs are chosen when it runs and not
  when it is signed, which allows more than a signature does.
- `Recovery` leaves out targets, nonces, deadlines, the leg, turnover and loss limits
  and the fees of its calls: it allows more than the code. Rewards arrive as a
  token no position is held in. The pool answers as the tests' pool does
  (`testutils.rs`); its own health check, liquidity, caps and freezes are left out and
  would only refuse more.
- In `Adapter` somebody checkpoints overdue fees before more time passes. How much a
  year costs and whether the calls are open is not affected; it keeps the years
  to catch up finite.
- `extend_ttl`, instance lifetimes and the reentrancy guard are left out: archived
  persistent entries are restored unchanged, and nothing can reenter an atomic
  action. Events are left out.
- Decimals of feeds and tokens are equal; error codes are not told apart.

## Runs

| Run | Question | Distinct states |
| --- | --- | --- |
| `shares` | Can carried fees block a solvent vault, or be charged twice? Does any flow or basket exit lower the others' share? Is `max_withdraw` executable? | 42,608 |
| `token` | Is supply the sum of balances, does the seed stay, are debits authorized? | 14,014 |
| `max_redeem` | Is `max_redeem` executable? (No.) | violated |
| `governance` | Does the vault keep its notice, do hashes stay current, does the mark survive new terms? | 29,358 |
| `fee_holiday` | Are fee changes prospective? (Not from a zero rate.) | violated |
| `execution` | Does an overtaken plan ever run? Does a pause freeze the strategy? Are accepted calls the rebalances the share ledger assumes? | 18,814 |
| `budget` | Does the tumbling window bound losses and turnover of every window, whatever flows do to its baseline? | 26,217 |
| `recovery` | Does the pool answer as predicted, can every position be closed, do calls ever add risk outside the limits, is an unwind a way to trade, do rewards unblock? | 22,822 |
| `repay_cash` | Does `repay` reduce the debt by the cash it spends? (Not to the atom.) | violated |
| `pricing` | Is the window in order, the reference within samples, the mark fixed within a ledger? | about 200,000 |
| `pricing_live` | Does a source that every pass reaches keep a usable window against anybody's observations, and get one back after failed passes? Who can end a pass? | 699,024 |
| `adapter` | Does the adapter keep a parent's claim in step with its cash? Does a vault nobody called for years catch up? | 8,942 |

### Bounds

Each is a named constant of the module or of its MC module.

- `shares`: `BPS = 10`, `SCALE = 4`, a year of 2 ledgers, management at its ceiling
  of 2/10 and performance of 5/10, seed of 2 assets and 4 shares. `MaxTime = 4` and
  steps of 3 ledgers, so that a year can be overdue and caught up;
  `MaxSupply = 7`, `MaxHolding = 3`, `MaxAsset = 2`. The scales are so small
  that every division has remainders, the mark moves above and below the price, and
  dust reaches its bound. Executions leave a gain, a loss, the other asset, a
  supplied and a leveraged position.
- `token`: two holders, no executions, allowances in both directions that expire
  within the run.
- `governance`: a delay of 2 ledgers in 5, so that two changes can follow each other;
  changes are valid and invalid fee terms, a handover to a person and to the vault
  itself, and the resume. Hashes of versions 1 to 3 are presented at any time.
- `execution`: a vault of ten units, `MaxTime = 3`, two executions or unwinds
  (`MaxNonce = 2`), one change of version, epochs 1 and 2, one plan in flight at
  a time (`MaxSigned = 1`; a plan may be lost to make room for the next). A plan can
  so be overtaken by each of its four enemies (execution, unwind, new target, new
  version) and still arrive. Routes buy, sell, lend, withdraw, and withdraw then sell.
- `budget`: windows of 2 ledgers in a run of 5 with up to four calls, which is two
  full windows and the border between them; a tenth may be lost and six tenths turned
  over, and two swaps can use either up. Deposits and withdrawals move the baseline.
- `recovery`: rates of 1, of 6/5 and 7/5, and of 7/5 on both sides, so that all six
  request kinds round; the other asset's mark doubles, which takes a borrower out of
  the limits; the pool's oracle is stale or agrees; one emission id at a time has an
  entitlement; balances up to `MaxSpot = 12`. The mark only rises, because a price that
  goes back and forth feeds the vault without end. `repay_cash` is the same instance.
- `pricing`: eight ledgers of one or two seconds with spacing 2, gap 3, age 6
  and a lifetime of 4 ledgers: enough to fill the window, drop the oldest sample, let
  a gap reset it and let the entry expire. The pool has two prices and one reserve that
  is too shallow; divergence of three tenths makes marks ready and refused, by
  the provider and by the vault's own narrower limit.
- `pricing_live`: one source before the subject; spacing 2, passes every 2 seconds that
  take up to 1, so that two samples are up to `Interval = 4` apart; gap 4, age and skew 12.
  These are the smallest values `ScheduleAssumption` admits, and an age or a skew of 11 or a
  gap of 3 breaks `StaysUsable`. Others trade, extend and sample the earlier source until
  second 5 and the runner fails at will until second 8, by when the subject's window has been
  full; passes return by second 9, and 19 seconds leave time for three samples after that.
  Observing the subject is open to all throughout. The feed publishes in second 17, when
  it is farthest from the oldest sample.
- `adapter`: a year of one ledger and steps of three, so that years can be overdue; a
  gain and a leveraged loss; withdrawals to the parent's side, to the adapter and to
  the vault (both refused). `MaxSupply = 8`, `MaxHolding = 4`.

The views hide what nothing in the run reads: `window_equity` and the signers of the
previous call, in `execution` and `budget` the other run's history variable.
Properties of steps are checked on every step, before views apply. Where liveness
is checked (`recovery`, `pricing_live`, `adapter`) there is no view, and the bounds are
part of the step and not a constraint, so that no behaviour is cut off: in
`recovery` the claim never leaves the bounds, in `adapter` checkpoints are exempt from
them.

### Fairness

Four actions are assumed weakly fair, each in the run whose liveness needs it.

- `ClaimRewards` (`recovery`): `claim_rewards` is public, it succeeds in a vault with a
  reward asset, and nobody can exit or execute before it is called.
- `CheckpointFees` (`adapter`): `checkpoint_fees` is public, needs no price and moves
  the checkpoint by at most a year each time.
- `CloseOnSchedule` (`pricing_live`): ledgers go on closing.
- The runner's calls while `outage # "on"` (`pricing_live`): `docs/pricing.md:119` asks to
  schedule `scripts/d3-observe.py` externally, with spacing. That passes start between
  `SPACING` and `PERIOD` seconds apart and take at most `PASS` is in the guards of `Calling`
  and `CloseOnSchedule`. A failed call "requires an operator/runner retry"
  (`docs/pricing.md:120`): nothing forces one, nor keeps a pass from being refused early.
  That passes do reach the subject from some time on is the premise of `Recollects`, and
  that they always have is the premise of `StaysUsable`.

Holders, executors and guardians are obliged to nothing. Deadlock is checked in
all runs but `pricing_live`, whose time is bounded.

## Findings

`max_redeem` (`docs/interfaces.md:26` promises executable limits): the shares it
returns can be worth less than one asset atom, and `redeem` of that amount is
refused. The holder can still use `withdraw`, whose limit is executable.

`fee_holiday` (`docs/interfaces.md:118`, fee changes settle old terms first): at a
performance rate of zero the mark follows the price only if no fraction of a fee
share is carried. With a carried fraction (the normal case after any
performance fee) `charge` is positive, `minted` is zero and `performance`
returns before it raises the mark (`fees.rs:63`, `fees.rs:70`). A gain made during
the free period is then charged at the rate announced next. The comment at
`fees.rs:69` explains keeping the mark while a fee is owed but smaller than a
share; at a zero rate nothing of the gain is owed.

`repay_cash` (`docs/operations.md:48`, "debt reduction covers actual cash spent"):
`repay` tolerates one atom (`execution.rs:764`) and, at a debt rate above one, needs it:
repaid tokens round down and the remaining debt rounds up.

Not findings, but worth knowing:

- A resume announced before a pause lifts that pause once it has matured,
  because `pause` leaves the pending slot alone; and a change that can no longer be
  applied occupies the only slot until the guardian cancels it.
- `execute` compares equity and supply with the target's (`execution.rs:658`) but not the
  holdings; `docs/interfaces.md:57` reads as if new holdings always needed a new
  target. Holdings are compared when the target is published.
- The loss and turnover limits are a share of the smaller of the window's baseline and
  the current equity, and flows move the baseline. A deposit thus enlarges the
  absolute budget, and after a large exit the clamp at zero can block executions and
  unwinds until the window rolls over. `SlidingBudget` is stated against the largest
  base in sight for that reason.
- Everybody's unwind consumes the executor's nonce and restarts the cooldown; plans in
  flight are lost with it.
- At some rates a partial withdrawal or repayment loses two atoms where the code tolerates
  one, and a legal amount is refused. Closing a position in full is always accepted
  (`FullRecoveryAccepted`).
- While debt exceeds equity, `repay` can raise the ratio of the two by its rounding atom;
  an unwind cannot (`OnlyMarketsAddRisk`).
- The vault's constructor does not ask for a reward asset; without one `claim_rewards`
  fails (`execution.rs:773`) and a vault is blocked from its first entitlement on: every
  priced call and every recovery. `RewardsUnblock` is therefore stated for
  `REWARD_CONFIGURED` only.
- A schedule kept does not mean samples kept. The runner ends a pass at the first refused
  source, so one shallow pool, or somebody who samples an earlier source just before each
  pass, leaves every later source without the runner's sample for as long as that goes on
  (observing is open to all, so others may still take them). Only the first source of the
  configuration has no source before it. What holds is that a runner with
  `SPACING` never stops itself (`StoppedByOthers`); a pass that starts earlier can.
- The pricing constructor accepts a maximal age of twice the spacing, for which three
  samples are never all young enough. `ScheduleAssumption` names what an operator has
  to choose beyond it.

## Proofs

Every property that a passing run checks and that is not liveness is also a theorem:
the run shows it on its instance, the theorem for every value of the constants within
the named assumptions of the modules (below). One module per part:

| Module | About | Inductive invariant |
| --- | --- | --- |
| `VaultMath_proofs` | both roundings of `mul_div`, `fraction`, induction | |
| `VaultFees_proofs` | fee accrual | |
| `VaultShares_proofs` | the share ledger | `Inv` |
| `Governance_proofs` | governance on the ledger, `Timelock` | `GovernedInv` |
| `Execution_proofs` | plans, unwinds, budget on the governed ledger | `ExecutionInv` |
| `Recovery_proofs` | pool arithmetic, debt, recoveries | `RecoveryTypeOK` |
| `Pricing_proofs` | observation window and runner | `WindowInv`, `PassInv`, `KeeperInv` |
| `Adapter_proofs` | adapter on the ledger, `Strategy` | `AInv` |

*Fees* (`VaultFees_proofs`). `CarriedDust` shows that after a performance fee the
remainder is at most the value of one share at the new mark; `PerformanceNeverBlocks`
that a remainder of at most one share at the mark, plus a charge on a gain above the
mark at a rate below one, is less than the equity. The divisor of `performance`
is then positive. `SettleAgain` is about settling twice: no time passes, and the mark,
rounded up over the equity, leaves nothing above it (`MarkCovers`), so the second
settlement is the identity on the record, carried remainders included.

*Share ledger* (`VaultShares_proofs`). `Inv` consists of `TypeOK`, the balances summing
to the supply with the seed untouched (`BalancesOK`), the bound on the carried fee, and a
checkpoint that is not in the future. The sum is needed for the others: it keeps the
supply positive, because the seed is never burned. One lemma per action shows that `Inv`
is preserved and, in the same step, that the mark does not fall and only governance
changes terms (`Steady`). From `Inv` follow `TypeCorrect`, `SupplyIsSumOfBalances`,
`SeedNeverMoves`, `DustIsBounded`, `FeesAlwaysSettle`, `MarkNeverFalls` and `SettlesOnce`.
`DebitsAreAuthorized` goes through the calls by who signs them; fee shares only add
(`SettledGrows`). `FlowsNeverDilute` and `BasketExitsNeverDilute` reduce to `IssueKeeps`
and `ExitKeeps`, one inequality each, which the rounding of each conversion satisfies;
`ManagementFirst` rules out that a checkpoint is taken for a flow. `MaxWithdrawHolds`
rests on `CeilOfFloor`: rounding down to assets and up to shares comes back to at
most the shares one has.

*Governance* (`Governance_proofs`). `GovernedInv` adds the types of the new
variables and that the pending hash is current. `GovernanceKeepsNotice` is the
refinement: flows change neither terms nor notice (`Steady`), and each governance
call is the step of `Timelock` with the corresponding name. `GovernedTypeCorrect`,
`GovernedFeesAlwaysSettle` and `GovernedMarkNeverFalls` carry the ledger's guarantees
through changes of terms.

*Execution* (`Execution_proofs`). `ExecutionInv` adds two things to `GovernedInv`.
`PlansBehind`: a signed plan was signed at a nonce, version and epoch not ahead of the
present ones, and a stale one at least one behind; that is why it is never current
again (`StalePlansStayOut`). `BudgetInv` relates the book to the history of charges:
there is an `m` such that the charges after the `m`-th are the book's window, and those
before it that a sliding window can still reach fit the last baseline of the window
before. A sliding window of `WINDOW` ledgers then meets at most two tumbling ones, and
what it charged fits one baseline of each (`BudgetSlides`). `ChargesRebalance` shows that
what `Run` leaves is a priced portfolio of type `HoldingSet`, by induction over the
legs. It is what lets the ledger's theorems hold of the whole protocol:
`ExecutionKeepsLedger`, `ExecutionMarkNeverFalls`, and `ExecutionKeepsNotice`, the
refinement of `Timelock` with plans in between. `PausesHold` splits on who acts while
the vault is paused.

*Recovery* (`Recovery_proofs`). The type invariant is inductive by itself. The rest is
integer division at rates not below one. `FloorSplits` and `CeilSplits` bound what is lost
when a position is divided, `ClaimCloses` and `DebtCloses` say that the tokens asked for by
the whole value are the whole position; from these follow `PredictionsAreExact` and
`PositionsClose`. For `UnwindsDoNotTrade` a measure is carried through the legs
(`Balanced`): gross holdings of the other asset, less debt repaid, grow by no more than
what was bought. `CallsAddNoRisk` turns the rounded comparisons of `check_recovery` into
exact ones (`CrossFloor`, `CrossCeil`), which is sound because each side is rounded
against the caller.

*Pricing* (`Pricing_proofs`). `NoMoveWithinLedger`: an observation leaves the usable
samples alone unless the window is overdue, and an overdue window is already
unusable (`OverdueUnusable`), so that the reset cannot move the mark either.
`WindowInv` says that samples lie in earlier ledgers, in order and spaced; with it the
weights of the mean are positive and `ReferenceStaysWithin` is a fact about a weighted mean
rounded down (`MeanBounds`).

*Runner* (`Pricing_proofs`). `PassInv` says that its own samples of sources it has yet to
call are `MIN_SPACING` old, in a pass now and between two at the earliest start of the
next; `PassesStoppedByOthers` follows at once. `WindowStaysUsable` needs to know where the runner
is: `OnSchedule` says, while every pass has reached the subject, that it was last called at
most a period and a pass ago and the newest sample is less than a spacing older than that
call, that samples are at most `Interval` apart, and that the entry lives long enough for
the next. A call that is refused as too early leaves this true, because it found a young
sample (`YoungSubject`).

*Adapter* (`Adapter_proofs`). `AInv` is the ledger's invariant, a parent that owes no
cash and an adapter that earns no fees. `ImplementsStrategy` is the refinement: `Harvest`
and everybody else move no cash; for a deposit or a withdrawal `CashMoved` compares the two
claims. Its core is `Spread`, an identity: how far `b + j` of `S + j` shares of `E + d` are
from `b` of `S` shares of `E` with `d` added is `(dS - jE)(S - b)`. The sign of the first
factor is the rounding of the flow: with `j` the shares really issued it favours the
vault (`ClaimAtMost`), with one share more and the pending fee shares it no longer does
(`ClaimAtLeast`). The second factor is never negative because no holder has more than the
supply, which is the ledger's invariant. `AdapterKeepsLedger` carries the ledger's
guarantees to the composition.

### Assumptions

- `FeeScaleAssumption`: positive scales, fee ceilings below one.
- `ShareAssumption`, `GovernanceAssumption`, `ExecutionAssumption`: types of the inputs, a
  finite set of holders without the vault, a positive seed; limits that are fractions of
  `BPS`, a positive window (the constructor's checks).
- `RateAssumption`, `RecoveryAssumption`: positive scales and factors, pool rates not below
  one (Blend's rates start at one and grow), plans and unwinds made of legs.
- `PricingAssumption`: the constructor's limits on a source.
- `ScheduleAssumption`: what an operator has to choose beyond them, for `StaysUsable`
  and `StoppedByOthers` only: three intervals of the schedule fit the maximal age and skew,
  one interval the maximal gap, two the entry's lifetime; passes are spaced by
  `MIN_SPACING`, and by a pass more if there are several sources before the subject, for
  one may be called late in a pass and early in the next. One conjunct came out of the
  proof: `FEED_MAX_AGE <= MAX_SKEW`, since the skew is also measured to the feeds'
  timestamps and a feed that is still fresh may be too far from the newest sample.
- `AdapterAssumption`: the adapter is a holder and not the fee recipient. If it were,
  settling would raise its claim without cash.

### Means

Recursion is written as recursive functions (`Turnover` and `Run`). What they
compute is proved by ordinary induction over `Nat`: the least counterexample
(`Induct` in `VaultMath_proofs`, from the library's minimum of a well-founded set)
contradicts the step. Products of unknowns are kept in lemmas over plain integers, with
the state's expressions as arguments.

Model-checked only: the liveness properties `RewardsUnblock`, `OverdueCatchesUp` and
`Recollects`, which need fairness and enabledness and are outside the prover's reach;
and the three violations, where the counterexample is the result.

## Plan

What is left is narrower than what is done: the safety part of `OverdueCatchesUp` (a
checkpoint of an overdue vault brings it a whole year nearer) and of `RewardsUnblock` (a
claim leaves no entitlement) as step theorems; `max_redeem` restricted to limits worth at
least one atom; and that every accepted call of `Recovery` is a `Rebalance`, `RecoverSupply`
or `Repay` of the share ledger, which joins the two views of the execution calls.

## Not modelled

- Swap routes and the authorizations nested in them (`check_auth` and the route
  checks of `execution.rs`): a swap is what it may deliver. Matching argument vectors
  against routes is data, not control.
- The accrual formula of `pending_reward` and the identity checks of the pool's
  replies: whether there is an entitlement is what the vault acts on.
- The pool's own health, utilization, caps and freezes: they refuse requests.
- Instance and entry lifetimes of the vault and the reentrancy guard: archived entries
  come back unchanged, and a call is one atomic action.
- Scripts (but for the runner's passes and schedule), fixtures, probes, the test doubles other than
  the pool's arithmetic, and the vendored DeFindex contracts.
