------------------------------ MODULE VaultFees ------------------------------
(***************************************************************************)
(* Fee accrual of the vault (contracts/vault/src/fees.rs).                 *)
(*                                                                         *)
(* Every priced call first settles fees: a management fee minted as shares *)
(* for the time since the last checkpoint, then a performance fee on the   *)
(* equity above the high-water mark.  Both round down to whole shares and  *)
(* carry the remainder ("dust") to the next settlement.                    *)
(*                                                                         *)
(* The operators are pure: they map a State record (the fields of          *)
(* types.rs State that fees touch) and a Fees record to the next State and *)
(* the shares minted, like the Rust functions do to their &mut State.      *)
(***************************************************************************)
EXTENDS VaultMath

CONSTANTS
    BPS,                    \* basis points in one                     (10_000)
    SCALE,                  \* fixed-point one of high_water and dust    (10^18)
    YEAR,                   \* longest interval one checkpoint accrues
    MAX_MANAGEMENT_BPS,     \* ceiling of Fees.management_bps             (200)
    MAX_PERFORMANCE_BPS     \* ceiling of Fees.performance_bps          (2_000)

ASSUME FeeScaleAssumption ==
    /\ BPS \in Nat \ {0} /\ SCALE \in Nat \ {0} /\ YEAR \in Nat \ {0}
    /\ MAX_MANAGEMENT_BPS \in 0 .. BPS - 1
    /\ MAX_PERFORMANCE_BPS \in 0 .. BPS - 1

\* The State record, without the counters only execution.rs uses.
StateSet == [supply           : Nat,
             high_water       : Nat,
             last_fee         : Nat,
             management_dust  : 0 .. SCALE - 1,
             performance_dust : Nat,
             paused           : BOOLEAN,
             window_equity    : Nat]

-----------------------------------------------------------------------------
(* Management fee.                                                         *)

Elapsed(s, time) == time - s.last_fee

\* A settlement without `checkpoint` refuses (Error::CatchUp) when more than a
\* year is outstanding: checkpoint_fees has to be called first.
CaughtUp(s, time) == Elapsed(s, time) <= YEAR

\* A fault: the whole shares minted stay in the carried remainder.
ManagementDustKept(s, f, time) ==
    LET dt          == Least(Elapsed(s, time), YEAR)
        rate_time   == f.management_bps * dt
        denominator == BPS * YEAR - rate_time
        scaled      == Fraction(s.supply, rate_time, denominator, SCALE)
                         + s.management_dust
        minted      == MulDivFloor(s.supply, rate_time, denominator)
                         + scaled \div SCALE
    IN  [minted |-> minted,
         state  |-> [s EXCEPT !.management_dust = scaled,
                              !.supply          = @ + minted,
                              !.last_fee        = @ + dt]]

Management(s, f, time) ==
    LET dt          == Least(Elapsed(s, time), YEAR)
        rate_time   == f.management_bps * dt
        denominator == BPS * YEAR - rate_time
        scaled      == Fraction(s.supply, rate_time, denominator, SCALE)
                         + s.management_dust
        minted      == MulDivFloor(s.supply, rate_time, denominator)
                         + scaled \div SCALE
    IN  [minted |-> minted,
         state  |-> [s EXCEPT !.management_dust = scaled % SCALE,
                              !.supply          = @ + minted,
                              !.last_fee        = @ + dt]]

-----------------------------------------------------------------------------
(* Performance fee.                                                        *)

\* The equity the current supply represents at the high-water mark.
Baseline(s) == MulDivCeil(s.high_water, s.supply, SCALE)

Gain(s, equity) == Greatest(equity - Baseline(s), 0)

\* The fee owed, in 1/SCALE units of the settlement asset.
Charge(s, f, equity) ==
    MulDivFloor(Gain(s, equity), f.performance_bps * SCALE, BPS)
      + s.performance_dust

\* A fault: the divisor ignores that minting the fee dilutes it.
FeeSharesUndiluted(s, f, equity) ==
    MulDivFloor(Charge(s, f, equity), s.supply, equity * SCALE)

\* Whole shares worth at most the charge once they are minted.
FeeShares(s, f, equity) ==
    LET charge == Charge(s, f, equity)
    IN  MulDivFloor(charge, s.supply, equity * SCALE - charge)

\* A fault: the mark rounds down.
RaisedMarkFloor(s, equity) ==
    Greatest(s.high_water, MulDivFloor(equity, SCALE, s.supply))

\* The mark never decreases, and rounds up so that the same gain is not
\* charged twice.
RaisedMark(s, equity) ==
    Greatest(s.high_water, MulDivCeil(equity, SCALE, s.supply))

\* Nothing is owed: performance returns before it computes a fee share.
NoCharge(s, f, equity) ==
    equity <= 0 \/ Gain(s, equity) = 0 \/ Charge(s, f, equity) = 0

\* mul_div aborts the whole call when its divisor is not positive, so this is
\* when a priced settlement can be computed at all.
PerformanceDefined(s, f, equity) ==
    NoCharge(s, f, equity) \/ Charge(s, f, equity) < equity * SCALE

\* A fault: what the minted shares paid stays owed.
PerformanceUnpaid(s, f, equity) ==
    LET minted == FeeShares(s, f, equity)
        grown  == [s EXCEPT !.supply = @ + minted]
    IN  IF NoCharge(s, f, equity) \/ minted = 0
          THEN [minted |-> 0, state |-> s]
        ELSE [minted |-> minted,
              state  |-> [grown EXCEPT
                            !.performance_dust = Charge(s, f, equity),
                            !.high_water       = RaisedMark(grown, equity)]]

Performance(s, f, equity) ==
    LET minted == FeeShares(s, f, equity)
        grown  == [s EXCEPT !.supply = @ + minted]
        paid   == MulDivFloor(minted, equity * SCALE, grown.supply)
    IN  IF equity <= 0 \/ Gain(s, equity) = 0
          THEN [minted |-> 0, state |-> s]
        ELSE IF Charge(s, f, equity) = 0
          THEN [minted |-> 0,
                state  |-> [s EXCEPT !.high_water = RaisedMark(s, equity)]]
        ELSE IF minted = 0
          THEN [minted |-> 0, state |-> s]
        ELSE [minted |-> minted,
              state  |-> [grown EXCEPT
                            !.performance_dust = Charge(s, f, equity) - paid,
                            !.high_water       = RaisedMark(grown, equity)]]

-----------------------------------------------------------------------------
(* Settlement: management, then performance at the given equity.           *)

Settle(s, f, time, equity) ==
    LET m == Management(s, f, time)
        p == Performance(m.state, f, equity)
    IN  [minted |-> m.minted + p.minted, state |-> p.state]

SettleDefined(s, f, time, equity) ==
    /\ CaughtUp(s, time)
    /\ PerformanceDefined(Management(s, f, time).state, f, equity)

=============================================================================
