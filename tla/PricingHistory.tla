---------------------------- MODULE PricingHistory ----------------------------
(***************************************************************************)
(* The pricing provider (contracts/pricing/src) for one asset, and the     *)
(* check the vault makes of its mark (contracts/vault/src/pricing.rs).     *)
(*                                                                         *)
(* Anybody may call observe, which samples the pool's reserves.  A sample  *)
(* counts only from the next ledger on; the last three make a time-        *)
(* weighted mean, against which the price of the feeds is checked.         *)
(*                                                                         *)
(* Assets do not share state, so one asset is enough.  Which of the error  *)
(* codes a refused mark returns is left out: the vault treats all alike.   *)
(***************************************************************************)
EXTENDS VaultMath, Sequences

CONSTANTS
    BPS, SCALE,
    MIN_SPACING, MAX_GAP, MAX_AGE, MAX_SKEW,    \* seconds, from Source
    MIN_ASSET_RESERVE, MIN_USDC_RESERVE,
    DIVERGENCE_BPS,
    FEED_MAX_AGE,           \* Feed.max_age, the same for both legs
    Legs,                   \* "numerator", and "denominator" if there is one
    TTL,                    \* ledgers a history entry is kept
    MAX_PRICE_AGE,          \* the vault's own limits on a mark
    MAX_DIVERGENCE_BPS,
    NoFeed,                 \* a feed that fails, is missing or misidentified
    InitialTime,
    Reserves,               \* what trades may make of the pool
    FeedPrices, FeedTimes,  \* what feeds may publish
    Durations               \* seconds between two ledgers

ReserveSet == [asset : Nat, usdc : Nat]

\* The constructor's limits on a source.
ASSUME PricingAssumption ==
    /\ BPS \in Nat \ {0} /\ SCALE \in Nat \ {0}
    /\ MIN_SPACING \in Nat \ {0} /\ MAX_GAP \in Nat /\ MAX_AGE \in Nat
    /\ MAX_SKEW \in Nat /\ DIVERGENCE_BPS \in Nat /\ FEED_MAX_AGE \in Nat
    /\ MIN_SPACING <= MAX_GAP /\ MAX_GAP <= MAX_AGE
    /\ 2 * MIN_SPACING <= MAX_AGE /\ 2 * MIN_SPACING <= MAX_SKEW
    /\ MIN_ASSET_RESERVE \in Nat \ {0} /\ MIN_USDC_RESERVE \in Nat \ {0}
    /\ Legs \in {{"numerator"}, {"numerator", "denominator"}}
    /\ TTL \in Nat /\ MAX_PRICE_AGE \in Nat /\ MAX_DIVERGENCE_BPS \in Nat
    /\ InitialTime \in Nat
    /\ Reserves \subseteq ReserveSet
    /\ FeedPrices \subseteq Nat \ {0} /\ FeedTimes \subseteq Nat
    /\ Durations \subseteq Nat \ {0}
    /\ NoFeed \notin [price : Nat, timestamp : Nat]

VARIABLES
    completed,  \* History.completed
    pending,    \* History.pending: zero or one observation
    live,       \* last ledger at which the history entry still exists
    ledger,     \* ledger sequence
    time,       \* ledger timestamp
    pool,       \* the pair's reserves
    feeds       \* what lastprice returns for every leg

vars == <<completed, pending, live, ledger, time, pool, feeds>>

-----------------------------------------------------------------------------
(* The history.                                                            *)

\* A fault: a sample counts in the ledger that observed it.
PromotingAtOnce == pending # <<>> /\ pending[1].ledger <= ledger

\* history(): a sample of an earlier ledger joins the completed ones, and the
\* oldest of three is dropped.
Promoting == pending # <<>> /\ pending[1].ledger < ledger

\* A fault: the oldest of three samples is kept.
SamplesKept == IF Promoting THEN Append(completed, pending[1]) ELSE completed

Samples ==
    IF ~Promoting THEN completed
    ELSE Append(IF Len(completed) = 3 THEN Tail(completed) ELSE completed,
                pending[1])

\* A fault: a promoted sample stays pending.
StillPendingKept == pending

StillPending == IF Promoting THEN <<>> ELSE pending

Last(samples) == samples[Len(samples)]

\* A fault: the spacing itself is still too soon.
TooSoonAtSpacing == Samples # <<>> /\ time - Last(Samples).timestamp <= MIN_SPACING

\* Too soon after the last sample, in seconds.
TooSoon == Samples # <<>> /\ time - Last(Samples).timestamp < MIN_SPACING

\* A fault: a gap in the collection goes unnoticed.
OverdueNever == FALSE

\* A broken collection interval cannot be filled with reconstructed history.
Overdue == Samples # <<>> /\ time - Last(Samples).timestamp > MAX_GAP

DeepEnough(reserves) ==
    /\ reserves.asset >= MIN_ASSET_RESERVE
    /\ reserves.usdc >= MIN_USDC_RESERVE

PoolPrice == MulDivFloor(pool.usdc, SCALE, pool.asset)

\* extend_ttl(TTL / 2, TTL)
Extended == IF live - ledger <= TTL \div 2 THEN ledger + TTL ELSE live

Observe ==
    /\ StillPending = <<>>
    /\ ~TooSoon
    /\ DeepEnough(pool) /\ PoolPrice > 0
    /\ completed' = IF Overdue THEN <<>> ELSE Samples
    /\ pending' = <<[price         |-> PoolPrice,
                     timestamp     |-> time,
                     ledger        |-> ledger,
                     asset_reserve |-> pool.asset,
                     usdc_reserve  |-> pool.usdc]>>
    /\ live' = Extended
    /\ UNCHANGED <<ledger, time, pool, feeds>>

\* Anybody may keep an existing entry alive; the samples do not change.
Upkeep ==
    /\ live >= ledger
    /\ live' = Extended
    /\ UNCHANGED <<completed, pending, ledger, time, pool, feeds>>

-----------------------------------------------------------------------------
(* The mark.                                                               *)

Fresh(timestamp, max_age) == timestamp <= time /\ time - timestamp <= max_age

FeedsUsable ==
    \A leg \in Legs : feeds[leg] # NoFeed /\ Fresh(feeds[leg].timestamp, FEED_MAX_AGE)

FeedPrice ==
    MulDivFloor(feeds["numerator"].price, SCALE,
                IF "denominator" \in Legs THEN feeds["denominator"].price ELSE 1)

SampleUsable(p) ==
    /\ Fresh(p.timestamp, MAX_AGE)
    /\ p.ledger < ledger /\ p.price > 0
    /\ p.asset_reserve >= MIN_ASSET_RESERVE
    /\ p.usdc_reserve >= MIN_USDC_RESERVE

Consecutive(p, q) ==
    /\ p.ledger < q.ledger
    /\ q.timestamp - p.timestamp \in MIN_SPACING .. MAX_GAP

WindowUsable(samples) ==
    /\ Len(samples) = 3
    /\ \A i \in 1 .. 3 : SampleUsable(samples[i])
    /\ Consecutive(samples[1], samples[2]) /\ Consecutive(samples[2], samples[3])
    /\ Fresh(samples[3].timestamp, MAX_GAP)

\* Timestamps of everything a mark is made of.
Stamps(samples) ==
    {samples[i].timestamp : i \in 1 .. 3} \cup {feeds[leg].timestamp : leg \in Legs}

\* A fault: every trapezoid is divided, and truncated, before the sum.
TwapTruncated(a, b, c) ==
    LET span == (c.timestamp - a.timestamp) * 2
    IN  ((a.price + b.price) * (b.timestamp - a.timestamp)) \div span
          + ((b.price + c.price) * (c.timestamp - b.timestamp)) \div span

\* The mean over time of the line through the three samples.
Twap(a, b, c) ==
    ((a.price + b.price) * (b.timestamp - a.timestamp)
       + (b.price + c.price) * (c.timestamp - b.timestamp))
      \div ((c.timestamp - a.timestamp) * 2)

\* ceil(|price - reference| * 10_000 / price) <= limit
Within(price, reference, limit) ==
    (Greatest(price, reference) - Least(price, reference)) * BPS <= price * limit

NoMark == [price |-> 0, reference |-> 0, timestamp |-> 0, ready |-> FALSE]

\* evaluate, and mark: a mark that is not ready is returned as an error.
Evaluate(samples) ==
    IF ~(FeedsUsable /\ WindowUsable(samples)) THEN NoMark
    ELSE LET oldest    == CHOOSE t \in Stamps(samples) : \A u \in Stamps(samples) : t <= u
             newest    == CHOOSE t \in Stamps(samples) : \A u \in Stamps(samples) : t >= u
             reference == Twap(samples[1], samples[2], samples[3])
         IN  IF /\ FeedPrice > 0 /\ reference > 0
                /\ newest - oldest <= MAX_SKEW
                /\ Within(FeedPrice, reference, DIVERGENCE_BPS)
               THEN [price |-> FeedPrice, reference |-> reference,
                     timestamp |-> oldest, ready |-> TRUE]
               ELSE NoMark

Mark == Evaluate(Samples)

\* pricing::price in the vault: the price it values the asset at, or 0.
VaultPrice ==
    IF /\ Mark.ready
       /\ Fresh(Mark.timestamp, MAX_PRICE_AGE)
       /\ Within(Mark.price, Mark.reference, MAX_DIVERGENCE_BPS)
      THEN Mark.price ELSE 0

-----------------------------------------------------------------------------
(* The environment.                                                        *)

Trade(reserves) ==
    /\ pool' = reserves
    /\ UNCHANGED <<completed, pending, live, ledger, time, feeds>>

Publish(leg, value) ==
    /\ feeds' = [feeds EXCEPT ![leg] = value]
    /\ UNCHANGED <<completed, pending, live, ledger, time, pool>>

\* A temporary entry that nobody extended is gone, and cannot be restored.
Close(duration) ==
    /\ ledger' = ledger + 1
    /\ time' = time + duration
    /\ IF live >= ledger' THEN UNCHANGED <<completed, pending>>
       ELSE completed' = <<>> /\ pending' = <<>>
    /\ UNCHANGED <<live, pool, feeds>>

-----------------------------------------------------------------------------
(* The specification.                                                      *)

Published == [price : FeedPrices, timestamp : FeedTimes] \cup {NoFeed}

Init ==
    /\ completed = <<>> /\ pending = <<>> /\ live = 0
    /\ ledger = 1 /\ time = InitialTime
    /\ pool \in Reserves
    /\ feeds \in [Legs -> {NoFeed}]

Next ==
    \/ Observe
    \/ Upkeep
    \/ \E reserves \in Reserves : Trade(reserves)
    \/ \E leg \in Legs, value \in Published : Publish(leg, value)
    \/ \E duration \in Durations : Close(duration)

Spec == Init /\ [][Next]_vars

-----------------------------------------------------------------------------
(* Properties.                                                             *)

Observation == [price : Nat \ {0}, timestamp : Nat, ledger : Nat,
                asset_reserve : Nat, usdc_reserve : Nat]

TypeOK ==
    /\ completed \in Seq(Observation) /\ Len(completed) \in 0 .. 3
    /\ pending \in Seq(Observation) /\ Len(pending) \in 0 .. 1
    /\ live \in Nat /\ ledger \in Nat /\ time \in Nat
    /\ pool \in ReserveSet
    /\ feeds \in [Legs -> [price : Nat, timestamp : Nat] \cup {NoFeed}]

\* Whatever trades, observations, overdue collections and expiries happen, what
\* is stored is one window in order: no two samples of a ledger, none closer
\* than MIN_SPACING, none across a gap.  Collection alone keeps the window
\* usable; only age, skew and divergence can refuse it.
WindowInOrder ==
    LET window == completed \o pending
    IN  \A i \in 1 .. Len(window) - 1 : Consecutive(window[i], window[i + 1])

\* No transaction can move the price the vault uses in its own ledger: trading
\* in the pool, observing it or extending storage, in any order and number,
\* changes the mark only from the next ledger on.
MarkFixedWithinLedger ==
    [][(ledger' = ledger /\ feeds' = feeds)
         => Mark' = Mark /\ VaultPrice' = VaultPrice]_vars

\* The reference of a ready mark lies between the prices of real samples, all
\* from earlier ledgers, so that one extreme sample cannot take it outside of
\* what the pool showed.
ReferenceWithinSamples ==
    Mark.ready =>
        /\ \E i \in 1 .. 3 : Samples[i].price <= Mark.reference
        /\ \E i \in 1 .. 3 : Mark.reference <= Samples[i].price

=============================================================================
