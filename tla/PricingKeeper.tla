---------------------------- MODULE PricingKeeper ----------------------------
(***************************************************************************)
(* The pricing provider with the runner that collects its samples          *)
(* (scripts/d3-observe.py), for one source of several.  A pass of the      *)
(* runner observes the sources in the order of the configuration and ends  *)
(* at the first refusal: a pool that is too shallow, or a sample that is   *)
(* too young, which may be anybody's, for observing is open to all.        *)
(*                                                                         *)
(* The subject source is the one of PricingHistory.  Of the sources listed *)
(* before it only what makes the provider refuse them is kept; those       *)
(* listed after it cannot disturb it.  All have the same limits.           *)
(***************************************************************************)
EXTENDS PricingHistory

CONSTANTS
    EARLIER,    \* how many sources are listed before the subject
    SPACING,    \* seconds between the starts of two passes: at least,
    PERIOD,     \* and at most
    PASS        \* the longest pass, in seconds

\* The longest interval between two samples while every pass reaches the
\* subject: a call that just fails, then one late in the last pass in time.
Interval == MIN_SPACING + PERIOD + PASS - 1

\* What an operator has to choose beyond the constructor's limits, which admit
\* a source whose three samples can never all be young enough, and feeds that
\* are still fresh when they are too far behind the samples.  Passes are spaced
\* so that the first source, and with more than one a source called late in one
\* pass and early in the next, is MIN_SPACING older at its next call.
ASSUME ScheduleAssumption ==
    /\ EARLIER \in Nat /\ SPACING \in Nat /\ PERIOD \in Nat \ {0} /\ PASS \in Nat
    /\ MIN_SPACING + (IF EARLIER > 1 THEN PASS ELSE 0) <= SPACING
    /\ SPACING <= PERIOD /\ PASS <= PERIOD
    /\ Interval <= MAX_GAP
    /\ 3 * Interval <= Least(MAX_AGE, MAX_SKEW)
    /\ 2 * Interval <= TTL
    /\ FEED_MAX_AGE <= MAX_SKEW
    /\ MIN_SPACING <= InitialTime

VARIABLES
    earlier,    \* the sources before the subject: the time of the newest sample
                \* (no entry expires within MIN_SPACING of it), whether the
                \* runner took it, and whether the pool is deep enough
    next,       \* the source the pass calls next, 1 between two passes
    started,    \* when the last pass began
    passed,     \* when a pass last reached the subject
    outage      \* "none" yet; "on" while passes fail, do not reach the subject
                \* or are not made at all; "over" once it is reached again

runnerVars == <<earlier, next, started, passed, outage>>
keeperVars == <<vars, runnerVars>>

EarlierSource == [sampled : Nat, own : BOOLEAN, deep : BOOLEAN]

-----------------------------------------------------------------------------
(* Calls.                                                                  *)

\* A fault: the spacing itself is still too soon.
AcceptedAfterSpacing(source) == source.deep /\ time - source.sampled > MIN_SPACING

\* When observe succeeds for an earlier source.
Accepted(source) == source.deep /\ time - source.sampled >= MIN_SPACING

Sampled(source, own) ==
    earlier' = [earlier EXCEPT ![source].sampled = time, ![source].own = own]

\* The subject has a sample of this ledger, or one that is too recent.
Young == StillPending # <<>> \/ TooSoon

\* When observe succeeds for the subject.
Observable == ~Young /\ DeepEnough(pool) /\ PoolPrice > 0

-----------------------------------------------------------------------------
(* The runner.                                                             *)

\* The first call of a pass waits for the schedule.
Calling ==
    /\ next = 1 => time - started >= SPACING
    /\ started' = IF next = 1 THEN time ELSE started

CallEarlier ==
    /\ next <= EARLIER /\ Accepted(earlier[next])
    /\ Calling
    /\ Sampled(next, TRUE)
    /\ next' = next + 1
    /\ UNCHANGED <<vars, passed, outage>>

\* invoke raises, and the rest of the sources is not called.
RefusedEarlier ==
    /\ next <= EARLIER /\ ~Accepted(earlier[next])
    /\ Calling
    /\ next' = 1 /\ outage' = "on"
    /\ UNCHANGED <<vars, earlier, passed>>

\* The pass reaches the subject; whether it goes on does not matter here.
CallSubject ==
    /\ next = EARLIER + 1
    /\ Calling
    /\ IF Observable THEN Observe ELSE UNCHANGED vars
    /\ outage' = IF ~Observable /\ ~Young THEN "on"
                 ELSE IF outage = "on" THEN "over" ELSE outage
    /\ passed' = time /\ next' = 1
    /\ UNCHANGED earlier

Call == CallEarlier \/ RefusedEarlier \/ CallSubject

-----------------------------------------------------------------------------
(* The environment.                                                        *)

\* The network, the identity's funds, the configuration hash or the scheduler
\* fails: the pass ends, and there may be none for any time.
Stop ==
    /\ next' = 1 /\ outage' = "on"
    /\ UNCHANGED <<vars, earlier, started, passed>>

\* A pass takes at most PASS seconds and, while passes are made, no more than
\* PERIOD go by between the starts of two.
CloseOnSchedule ==
    /\ \E duration \in Durations :
         /\ next # 1 => time + duration - started <= PASS
         /\ next = 1 /\ outage # "on" => time + duration - started <= PERIOD
         /\ Close(duration)
    /\ UNCHANGED runnerVars

\* Everybody else: observations, upkeep, trades and feeds of the subject, and
\* observations and trades of the sources before it.
Anybody ==
    \/ /\ \/ Observe
          \/ Upkeep
          \/ \E reserves \in Reserves : Trade(reserves)
          \/ \E leg \in Legs, value \in Published : Publish(leg, value)
       /\ UNCHANGED runnerVars
    \/ /\ \E source \in 1 .. EARLIER :
            \/ Accepted(earlier[source]) /\ Sampled(source, FALSE)
            \/ earlier' = [earlier EXCEPT ![source].deep = ~@]
       /\ UNCHANGED <<vars, next, started, passed, outage>>

-----------------------------------------------------------------------------
(* The specification.                                                      *)

KeeperInit ==
    /\ Init
    /\ earlier = [source \in 1 .. EARLIER |->
                    [sampled |-> 0, own |-> FALSE, deep |-> TRUE]]
    /\ next = 1 /\ started = InitialTime /\ passed = InitialTime
    /\ outage = "none"

KeeperNext == Call \/ Stop \/ CloseOnSchedule \/ Anybody

\* Ledgers go on closing, and a runner that is up eventually makes the calls
\* that are due.  Nothing makes an operator retry after a failed pass.
KeeperSpec ==
    /\ KeeperInit /\ [][KeeperNext]_keeperVars
    /\ WF_keeperVars(CloseOnSchedule) /\ WF_keeperVars(outage # "on" /\ Call)

-----------------------------------------------------------------------------
(* Properties.                                                             *)

\* Collection gives no reason to refuse a mark; what remains is up to the feeds
\* (their age, and the price they agree on with the pool).
Usable ==
    /\ WindowUsable(Samples)
    /\ FeedsUsable =>
         \A t, u \in Stamps(Samples) : t - u <= MAX_SKEW

\* As long as every pass has reached the subject and found its pool deep enough,
\* nobody's observations of it, however timed, make a usable window unusable, by
\* age, gap or skew, in any ledger.
StaysUsable ==
    [][(outage' = "none" /\ Usable) => Usable']_keeperVars

\* However long passes failed or stopped short of the subject, and whatever the
\* old window was, passes that reach it from some time on lead to a usable
\* window that stays usable.
Recollects == <>[](outage # "on") => <>[]Usable

\* Only others end a pass before the subject: a shallow pool, or somebody else's
\* sample.  A runner that keeps its spacing is never stopped by a sample of its
\* own, whatever passes failed before.
StoppedByOthers ==
    [][RefusedEarlier => ~earlier[next].deep \/ ~earlier[next].own]_keeperVars

=============================================================================
