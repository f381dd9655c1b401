--------------------------- MODULE VaultFees_proofs ---------------------------
(***************************************************************************)
(* Facts about the fee operators, for all values of the constants and all  *)
(* arguments of their types.                                               *)
(***************************************************************************)
EXTENDS VaultFees, VaultMath_proofs

-----------------------------------------------------------------------------
(* Fees.                                                                   *)

\* Fee rates within the ceilings that fees::validate enforces.
RatesOK(f) == /\ f.management_bps \in 0 .. MAX_MANAGEMENT_BPS
              /\ f.performance_bps \in 0 .. MAX_PERFORMANCE_BPS

\* A management settlement mints a whole number of shares, keeps less than one
\* share as dust, and leaves the performance fields alone.
LEMMA ManagementPreserves ==
    ASSUME NEW s \in StateSet, NEW f, RatesOK(f),
           NEW time \in Nat, s.last_fee <= time
    PROVE  LET m == Management(s, f, time)
           IN  /\ m.minted \in Nat
               /\ m.state \in StateSet
               /\ m.state.supply = s.supply + m.minted
               /\ m.state.last_fee <= time
               /\ m.state.high_water = s.high_water
               /\ m.state.performance_dust = s.performance_dust
               /\ m.state.paused = s.paused
<1> USE FeeScaleAssumption
<1> DEFINE dt     == Least(Elapsed(s, time), YEAR)
           rt     == f.management_bps * dt
           den    == BPS * YEAR - rt
           scaled == Fraction(s.supply, rt, den, SCALE) + s.management_dust
           minted == MulDivFloor(s.supply, rt, den) + scaled \div SCALE
<1>1. /\ s.supply \in Nat /\ s.last_fee \in Nat
      /\ s.management_dust \in 0 .. SCALE - 1
  BY DEF StateSet
<1>2. dt \in Nat /\ dt <= YEAR /\ s.last_fee + dt <= time
  BY <1>1 DEF Least, Elapsed
<1>3. f.management_bps \in Nat /\ f.management_bps <= BPS - 1
  BY DEF RatesOK
<1>4. rt \in Nat
  BY <1>2, <1>3
<1>5. rt <= (BPS - 1) * YEAR
  <2>1. f.management_bps * dt <= (BPS - 1) * dt
    BY <1>2, <1>3
  <2>2. (BPS - 1) * dt <= (BPS - 1) * YEAR
    BY <1>2
  <2> QED
    BY <2>1, <2>2, <1>2, <1>3
<1>6. den \in Nat \ {0}
  <2>1. (BPS - 1) * YEAR = BPS * YEAR - YEAR
    OBVIOUS
  <2> QED
    BY <2>1, <1>4, <1>5
<1> HIDE DEF rt, den
<1>7. scaled \in Nat
  <2>1. Fraction(s.supply, rt, den, SCALE) \in 0 .. SCALE - 1
    BY <1>1, <1>4, <1>6, FractionBounds
  <2> QED
    BY <1>1, <2>1
<1> HIDE DEF scaled
<1>8. scaled \div SCALE \in Nat /\ scaled % SCALE \in 0 .. SCALE - 1
  BY <1>7
<1>9. minted \in Nat
  <2>1. MulDivFloor(s.supply, rt, den) \in Nat
    BY <1>1, <1>4, <1>6, FloorBounds
  <2> QED
    BY <1>8, <2>1
<1> DEFINE next == [s EXCEPT !.management_dust = scaled % SCALE,
                             !.supply          = @ + minted,
                             !.last_fee        = @ + dt]
<1>10. Management(s, f, time) = [minted |-> minted, state |-> next]
  BY DEF Management, scaled, den, rt
<1> HIDE DEF dt, minted
<1>11. /\ s.supply + minted \in Nat /\ s.last_fee + dt \in Nat
       /\ scaled % SCALE \in 0 .. SCALE - 1
  BY <1>1, <1>2, <1>8, <1>9
<1>12. next \in StateSet
  BY <1>11 DEF StateSet
<1>13. /\ next.supply = s.supply + minted
       /\ next.last_fee = s.last_fee + dt
       /\ next.high_water = s.high_water
       /\ next.performance_dust = s.performance_dust
       /\ next.paused = s.paused
  BY DEF StateSet
<1> HIDE DEF next
<1> QED
  BY <1>1, <1>2, <1>9, <1>10, <1>12, <1>13

\* With the dust within its bound, a positive equity always covers the charge:
\* `performance` never divides by zero or a negative number.
LEMMA PerformanceNeverBlocks ==
    ASSUME NEW s \in StateSet, NEW f, RatesOK(f), NEW equity \in Nat \ {0},
           s.supply > 0, s.performance_dust <= s.high_water
    PROVE  PerformanceDefined(s, f, equity)
<1> USE FeeScaleAssumption
<1> SUFFICES ASSUME ~NoCharge(s, f, equity)
             PROVE  Charge(s, f, equity) < equity * SCALE
  BY DEF PerformanceDefined
<1> DEFINE H    == s.high_water
           S    == s.supply
           base == Baseline(s)
           gain == Gain(s, equity)
           q    == MulDivFloor(gain, f.performance_bps * SCALE, BPS)
<1>1. H \in Nat /\ S \in Nat \ {0} /\ s.performance_dust \in Nat
  BY DEF StateSet
<1>2. base \in Nat /\ H * S <= base * SCALE
  BY <1>1, CeilBounds DEF Baseline
<1>3. gain \in Nat \ {0} /\ gain = equity - base
  BY <1>2 DEF NoCharge, Gain, Greatest
<1>4. f.performance_bps \in Nat /\ f.performance_bps <= BPS - 1
  BY DEF RatesOK
<1>5. f.performance_bps * SCALE \in Nat
  BY <1>4
<1>6. q \in Nat /\ q * BPS <= gain * (f.performance_bps * SCALE)
  BY <1>3, <1>5, FloorBounds
<1>7. q < gain * SCALE
  <2> DEFINE g == gain * SCALE
  <2>1. g \in Nat \ {0}
    BY <1>3
  <2>2. gain * (f.performance_bps * SCALE) = g * f.performance_bps
    BY <1>3, <1>4
  <2>3. g * f.performance_bps <= g * (BPS - 1)
    BY <2>1, <1>4
  <2>4. g * (BPS - 1) < g * BPS
    BY <2>1
  <2> HIDE DEF g
  <2>5. q * BPS < g * BPS
    BY <2>1, <2>2, <2>3, <2>4, <1>6, <1>4
  <2> QED
    BY <2>5, <2>1, <1>6 DEF g
<1>8. H <= H * S
  BY <1>1
<1>9. gain * SCALE = equity * SCALE - base * SCALE
  BY <1>2, <1>3
<1>10. Charge(s, f, equity) = q + s.performance_dust
  BY DEF Charge
<1> HIDE DEF H, S, base, gain, q
<1>11. s.performance_dust <= H
  BY DEF H
<1>12. equity * SCALE \in Nat /\ base * SCALE \in Nat /\ gain * SCALE \in Nat
       /\ H * S \in Nat
  BY <1>1, <1>2, <1>3
<1> QED
  BY <1>1, <1>2, <1>6, <1>7, <1>8, <1>9, <1>10, <1>11, <1>12

\* The arithmetic core of a crystallization: `minted` shares worth at most the
\* charge c are issued on a supply S; what they are not worth is carried on,
\* and it is neither negative nor more than the value H of one share.
LEMMA CarriedDust ==
    ASSUME NEW S \in Nat \ {0}, NEW E \in Nat, NEW c \in Nat, c < E,
           NEW minted \in Nat,
           minted * (E - c) <= c * S,
           c * S < (minted + 1) * (E - c),
           NEW paid \in Nat,
           paid * (S + minted) <= minted * E,
           minted * E < (paid + 1) * (S + minted),
           NEW H \in Nat, E <= H * (S + minted)
    PROVE  c - paid \in 0 .. H
<1> DEFINE G == S + minted
<1>1. G \in Nat \ {0}
  OBVIOUS
<1>2. minted * E <= c * G
  <2>1. minted * (E - c) = minted * E - minted * c
    OBVIOUS
  <2>2. c * G = c * S + minted * c
    OBVIOUS
  <2> QED
    BY <2>1, <2>2
<1>3. paid <= c
  <2>1. paid * G <= c * G
    BY <1>2
  <2> HIDE DEF G
  <2> QED
    BY <2>1, <1>1
<1>4. c * (G + 1) < (minted + 1) * E
  <2>1. (minted + 1) * (E - c) = (minted + 1) * E - (minted + 1) * c
    OBVIOUS
  <2>2. c * (G + 1) = c * S + (minted + 1) * c
    OBVIOUS
  <2> QED
    BY <2>1, <2>2
<1>5. c * G < (paid + 1 + H) * G
  <2>1. (minted + 1) * E = minted * E + E
    OBVIOUS
  <2>2. (paid + 1 + H) * G = (paid + 1) * G + H * G
    OBVIOUS
  <2>3. c * G <= c * (G + 1)
    BY <1>1
  <2>4. minted * E < (paid + 1) * G /\ E <= H * G
    OBVIOUS
  <2>5. /\ c * G \in Int /\ c * (G + 1) \in Int /\ (minted + 1) * E \in Int
        /\ minted * E \in Int /\ (paid + 1) * G \in Int /\ H * G \in Int
    BY <1>1
  <2> HIDE DEF G
  <2> QED
    BY <2>1, <2>2, <2>3, <2>4, <2>5, <1>4
<1>6. c < paid + 1 + H
  <2> HIDE DEF G
  <2> QED
    BY <1>5, <1>1
<1> QED
  BY <1>3, <1>6

\* A performance settlement mints a whole number of shares, never lowers the
\* high-water mark and keeps the carried dust within its bound.
LEMMA PerformancePreserves ==
    ASSUME NEW s \in StateSet, NEW f, RatesOK(f), NEW equity \in Int,
           s.supply > 0, s.performance_dust <= s.high_water,
           PerformanceDefined(s, f, equity)
    PROVE  LET p == Performance(s, f, equity)
           IN  /\ p.minted \in Nat
               /\ p.state \in StateSet
               /\ p.state.supply = s.supply + p.minted
               /\ p.state.high_water >= s.high_water
               /\ p.state.performance_dust <= p.state.high_water
               /\ p.state.last_fee = s.last_fee
               /\ p.state.paused = s.paused
<1> USE FeeScaleAssumption
<1>1. /\ s.supply \in Nat \ {0} /\ s.high_water \in Nat
      /\ s.performance_dust \in Nat
  BY DEF StateSet
<1>2. CASE equity <= 0 \/ Gain(s, equity) = 0
  <2>1. Performance(s, f, equity) = [minted |-> 0, state |-> s]
    BY <1>2 DEF Performance
  <2> QED
    BY <2>1, <1>1
<1>3. CASE ~(equity <= 0 \/ Gain(s, equity) = 0)
  <2>1. equity \in Nat \ {0} /\ equity * SCALE \in Nat
    BY <1>3
  <2> DEFINE c      == Charge(s, f, equity)
             E      == equity * SCALE
             minted == FeeShares(s, f, equity)
             grown  == [s EXCEPT !.supply = s.supply + minted]
             paid   == MulDivFloor(minted, E, s.supply + minted)
             mark(n) == Greatest(s.high_water, MulDivCeil(equity, SCALE, n))
  <2>2. c \in Nat
    <3>1. Gain(s, equity) \in Nat
      <4>1. Baseline(s) \in Nat
        BY <1>1, CeilBounds DEF Baseline
      <4> QED
        BY <4>1, <2>1 DEF Gain, Greatest
    <3>2. f.performance_bps * SCALE \in Nat
      BY DEF RatesOK
    <3>3. MulDivFloor(Gain(s, equity), f.performance_bps * SCALE, BPS) \in Nat
      BY <3>1, <3>2, FloorBounds
    <3> QED
      BY <3>3, <1>1 DEF Charge
  <2>3. \A n \in Nat \ {0} : /\ mark(n) \in Nat
                             /\ mark(n) >= s.high_water
                             /\ E <= mark(n) * n
    <3> TAKE n \in Nat \ {0}
    <3> DEFINE up == MulDivCeil(equity, SCALE, n)
    <3>1. up \in Nat /\ E <= up * n
      BY <2>1, CeilBounds
    <3> HIDE DEF up
    <3>2. Greatest(s.high_water, up) \in Nat
          /\ Greatest(s.high_water, up) >= s.high_water
          /\ Greatest(s.high_water, up) >= up
      BY <1>1, <3>1 DEF Greatest
    <3>3. up * n <= Greatest(s.high_water, up) * n
      BY <3>1, <3>2
    <3>4. Greatest(s.high_water, up) * n \in Nat /\ up * n \in Nat
      BY <3>1, <3>2
    <3> QED
      BY <3>1, <3>2, <3>3, <3>4, <2>1 DEF up
  <2>4. CASE c = 0
    <3>1. Performance(s, f, equity) =
            [minted |-> 0,
             state  |-> [s EXCEPT !.high_water = mark(s.supply)]]
      BY <1>3, <2>4 DEF Performance, RaisedMark
    <3>2. mark(s.supply) \in Nat /\ mark(s.supply) >= s.high_water
      BY <1>1, <2>3
    <3> HIDE DEF mark
    <3>3. s.performance_dust <= mark(s.supply)
      BY <3>2, <1>1
    <3> QED
      BY <3>1, <3>2, <3>3, <1>1 DEF StateSet
  <2>5. CASE c # 0
    <3>1. c < E
      BY <1>3, <2>5 DEF PerformanceDefined, NoCharge
    <3>2. /\ minted \in Nat
          /\ minted * (E - c) <= c * s.supply
          /\ c * s.supply < (minted + 1) * (E - c)
      <4>1. E - c \in Nat \ {0}
        BY <3>1, <2>1, <2>2
      <4> QED
        BY <4>1, <2>2, <1>1, FloorBounds DEF FeeShares
    <3>3. CASE minted = 0
      <4>1. Performance(s, f, equity) = [minted |-> 0, state |-> s]
        BY <1>3, <2>5, <3>3 DEF Performance
      <4> QED
        BY <4>1, <1>1
    <3>4. CASE minted # 0
      <4> DEFINE G == s.supply + minted
                 H == mark(G)
      <4>1. G \in Nat \ {0}
        BY <1>1, <3>2
      <4>2. paid \in Nat /\ paid * G <= minted * E /\ minted * E < (paid + 1) * G
        BY <4>1, <3>2, <2>1, FloorBounds
      <4>3. H \in Nat /\ H >= s.high_water /\ E <= H * G
        BY <4>1, <2>3
      <4>4. Performance(s, f, equity) =
              [minted |-> minted,
               state  |-> [grown EXCEPT !.performance_dust = c - paid,
                                        !.high_water       = H]]
        <5>1. grown.supply = G /\ grown.high_water = s.high_water
          BY DEF StateSet
        <5> QED
          BY <5>1, <1>3, <2>5, <3>4 DEF Performance, RaisedMark
      <4> HIDE DEF c, E, minted, paid, mark, H
      <4>5. c - paid \in 0 .. H
        BY <1>1, <2>1, <2>2, <3>1, <3>2, <4>2, <4>3, CarriedDust DEF E
      <4> DEFINE after == [grown EXCEPT !.performance_dust = c - paid,
                                        !.high_water       = H]
      <4>6. after \in StateSet
        <5>1. c - paid \in Nat /\ H \in Nat /\ s.supply + minted \in Nat
          BY <4>1, <4>3, <4>5
        <5> QED
          BY <5>1 DEF StateSet
      <4>7. /\ after.supply = G /\ after.high_water = H
            /\ after.performance_dust = c - paid
            /\ after.last_fee = s.last_fee /\ after.paused = s.paused
        BY DEF StateSet
      <4> HIDE DEF after
      <4>8. Performance(s, f, equity) = [minted |-> minted, state |-> after]
        BY <4>4 DEF after
      <4> QED
        BY <4>3, <4>5, <4>6, <4>7, <4>8, <3>2, <1>1
    <3> QED
      BY <3>3, <3>4
  <2> QED
    BY <2>4, <2>5
<1> QED
  BY <1>2, <1>3

\* A whole settlement: management, then performance.
LEMMA SettlePreserves ==
    ASSUME NEW s \in StateSet, NEW f, RatesOK(f), NEW equity \in Int,
           NEW time \in Nat, s.last_fee <= time,
           s.supply > 0, s.performance_dust <= s.high_water,
           SettleDefined(s, f, time, equity)
    PROVE  LET r == Settle(s, f, time, equity)
           IN  /\ r.minted \in Nat
               /\ r.state \in StateSet
               /\ r.state.supply = s.supply + r.minted
               /\ r.state.last_fee <= time
               /\ r.state.high_water >= s.high_water
               /\ r.state.performance_dust <= r.state.high_water
               /\ r.state.paused = s.paused
<1> DEFINE m == Management(s, f, time)
           p == Performance(m.state, f, equity)
<1>1. /\ m.minted \in Nat
      /\ m.state \in StateSet
      /\ m.state.supply = s.supply + m.minted
      /\ m.state.last_fee <= time
      /\ m.state.high_water = s.high_water
      /\ m.state.performance_dust = s.performance_dust
      /\ m.state.paused = s.paused
  BY ManagementPreserves
<1>2. s.supply \in Nat /\ s.high_water \in Nat
  BY DEF StateSet
<1>3. m.state.supply > 0 /\ PerformanceDefined(m.state, f, equity)
  BY <1>1, <1>2 DEF SettleDefined
<1>4. Settle(s, f, time, equity) = [minted |-> m.minted + p.minted, state |-> p.state]
  BY DEF Settle
<1> HIDE DEF m
<1>5. /\ p.minted \in Nat
      /\ p.state \in StateSet
      /\ p.state.supply = m.state.supply + p.minted
      /\ p.state.high_water >= m.state.high_water
      /\ p.state.performance_dust <= p.state.high_water
      /\ p.state.last_fee = m.state.last_fee
      /\ p.state.paused = m.state.paused
  BY <1>1, <1>3, PerformancePreserves
<1> HIDE DEF p
<1> QED
  BY <1>1, <1>2, <1>4, <1>5

\* Less than a year behind and with a positive equity, fees can be settled.
LEMMA SettleNeverBlocks ==
    ASSUME NEW s \in StateSet, NEW f, RatesOK(f), NEW equity \in Nat \ {0},
           NEW time \in Nat, s.last_fee <= time, CaughtUp(s, time),
           s.supply > 0, s.performance_dust <= s.high_water
    PROVE  SettleDefined(s, f, time, equity)
<1> DEFINE m == Management(s, f, time)
<1>1. /\ m.state \in StateSet /\ m.minted \in Nat
      /\ m.state.supply = s.supply + m.minted
      /\ m.state.high_water = s.high_water
      /\ m.state.performance_dust = s.performance_dust
  BY ManagementPreserves
<1>2. s.supply \in Nat
  BY DEF StateSet
<1> HIDE DEF m
<1>3. PerformanceDefined(m.state, f, equity)
  BY <1>1, <1>2, PerformanceNeverBlocks
<1> QED
  BY <1>3 DEF SettleDefined, m

-----------------------------------------------------------------------------
(* Settling twice.                                                         *)

\* Nothing accrues in no time: the carried dust is less than one share.
LEMMA ManagementAtOnce ==
    ASSUME NEW s \in StateSet, NEW f, RatesOK(f), NEW time \in Nat,
           s.last_fee = time
    PROVE  Management(s, f, time) = [minted |-> 0, state |-> s]
<1> USE FeeScaleAssumption
<1>1. /\ s.supply \in Nat /\ s.last_fee \in Nat
      /\ s.management_dust \in 0 .. SCALE - 1
  BY DEF StateSet
<1>2. Least(Elapsed(s, time), YEAR) = 0
  BY DEF Least, Elapsed
<1>3. f.management_bps * 0 = 0 /\ s.supply * 0 = 0
  BY <1>1 DEF RatesOK
<1> DEFINE den == BPS * YEAR - 0
<1>4. den \in Nat \ {0}
  OBVIOUS
<1>5. MulDivFloor(s.supply, 0, den) = 0 /\ Fraction(s.supply, 0, den, SCALE) = 0
  <2> HIDE DEF den
  <2>1. 0 % den = 0 /\ 0 \div den = 0 /\ 0 * SCALE = 0
    BY <1>4
  <2> QED
    BY <1>3, <2>1 DEF MulDivFloor, Fraction
<1>6. /\ s.management_dust \div SCALE = 0
      /\ s.management_dust % SCALE = s.management_dust
      /\ 0 + s.management_dust = s.management_dust
      /\ 0 + 0 = 0 /\ s.supply + 0 = s.supply /\ s.last_fee + 0 = s.last_fee
  BY <1>1
<1> HIDE DEF den
<1>7. Management(s, f, time) =
        [minted |-> 0,
         state  |-> [s EXCEPT !.management_dust = s.management_dust,
                              !.supply          = s.supply,
                              !.last_fee        = s.last_fee]]
  BY <1>2, <1>3, <1>5, <1>6 DEF Management, den
<1>8. [s EXCEPT !.management_dust = s.management_dust, !.supply = s.supply,
                !.last_fee = s.last_fee] = s
  BY DEF StateSet
<1> QED
  BY <1>7, <1>8

\* Within a year of the last checkpoint a settlement reaches the present.
LEMMA ManagementCatchesUp ==
    ASSUME NEW s \in StateSet, NEW f, NEW time \in Nat,
           s.last_fee <= time, CaughtUp(s, time)
    PROVE  Management(s, f, time).state.last_fee = time
<1>1. s.last_fee \in Nat /\ s.last_fee + Least(Elapsed(s, time), YEAR) = time
  BY FeeScaleAssumption DEF StateSet, CaughtUp, Elapsed, Least
<1> QED
  BY <1>1 DEF Management, StateSet

\* A mark at or above the equity per share leaves no gain to charge.
LEMMA NothingAboveMark ==
    ASSUME NEW s \in StateSet, NEW equity \in Nat, s.supply > 0,
           equity * SCALE <= s.high_water * s.supply
    PROVE  Gain(s, equity) = 0
<1> DEFINE base == Baseline(s)
<1>1. s.supply \in Nat \ {0} /\ s.high_water \in Nat /\ SCALE \in Nat \ {0}
  BY FeeScaleAssumption DEF StateSet
<1>2. base \in Nat /\ s.high_water * s.supply <= base * SCALE
  BY <1>1, CeilBounds DEF Baseline
<1> HIDE DEF base
<1>3. equity * SCALE \in Nat /\ base * SCALE \in Nat /\ s.high_water * s.supply \in Nat
  BY <1>1, <1>2
<1>4. equity * SCALE <= base * SCALE
  BY <1>2, <1>3
<1>5. equity <= base
  BY <1>1, <1>2, <1>4
<1> QED
  BY <1>2, <1>5 DEF Gain, Greatest, base

\* RaisedMark covers the whole equity.
LEMMA MarkCovers ==
    ASSUME NEW s, NEW equity \in Nat, s.supply \in Nat \ {0}, s.high_water \in Nat
    PROVE  /\ RaisedMark(s, equity) \in Nat
           /\ equity * SCALE <= RaisedMark(s, equity) * s.supply
<1> DEFINE up == MulDivCeil(equity, SCALE, s.supply)
<1>1. up \in Nat /\ equity * SCALE <= up * s.supply
  BY FeeScaleAssumption, CeilBounds
<1>2. RaisedMark(s, equity) = Greatest(s.high_water, up)
  BY DEF RaisedMark
<1> HIDE DEF up
<1>3. RaisedMark(s, equity) \in Nat /\ up <= RaisedMark(s, equity)
  BY <1>1, <1>2 DEF Greatest
<1>4. up * s.supply <= RaisedMark(s, equity) * s.supply
  BY <1>1, <1>3
<1>5. /\ equity * SCALE \in Nat /\ up * s.supply \in Nat
      /\ RaisedMark(s, equity) * s.supply \in Nat
  BY <1>1, <1>3, FeeScaleAssumption
<1> QED
  BY <1>1, <1>3, <1>4, <1>5

\* A second performance settlement at the same equity charges nothing: either
\* the first changed nothing, or it raised the mark over the whole equity.
LEMMA PerformanceAgain ==
    ASSUME NEW s \in StateSet, NEW f, RatesOK(f), NEW equity \in Nat \ {0},
           s.supply > 0, s.performance_dust <= s.high_water,
           PerformanceDefined(s, f, equity)
    PROVE  LET p == Performance(s, f, equity)
           IN  Performance(p.state, f, equity) = [minted |-> 0, state |-> p.state]
<1> DEFINE p == Performance(s, f, equity)
<1>1. /\ p.minted \in Nat /\ p.state \in StateSet
      /\ p.state.supply = s.supply + p.minted
  BY PerformancePreserves
<1>2. s.supply \in Nat \ {0} /\ s.high_water \in Nat
  BY DEF StateSet
<1>3. CASE p = [minted |-> 0, state |-> s]
  BY <1>3
<1>4. CASE \E t : /\ t.supply = p.state.supply /\ t.high_water \in Nat
                  /\ p.state.high_water = RaisedMark(t, equity)
  <2>1. PICK t : /\ t.supply = p.state.supply /\ t.high_water \in Nat
                 /\ p.state.high_water = RaisedMark(t, equity)
    BY <1>4
  <2>2. p.state.supply \in Nat \ {0}
    BY <1>1, <1>2
  <2> HIDE DEF p
  <2>3. equity * SCALE <= p.state.high_water * p.state.supply
    BY <2>1, <2>2, MarkCovers
  <2>4. Gain(p.state, equity) = 0
    BY <1>1, <2>2, <2>3, NothingAboveMark
  <2>5. Performance(p.state, f, equity) = [minted |-> 0, state |-> p.state]
    BY <2>4 DEF Performance
  <2> QED
    BY <2>5 DEF p
<1>5. p = [minted |-> 0, state |-> s]
        \/ \E t : /\ t.supply = p.state.supply /\ t.high_water \in Nat
                  /\ p.state.high_water = RaisedMark(t, equity)
  <2> DEFINE minted == FeeShares(s, f, equity)
             grown  == [s EXCEPT !.supply = s.supply + minted]
             paid   == MulDivFloor(minted, equity * SCALE, grown.supply)
  <2>1. CASE Gain(s, equity) = 0
    BY <2>1 DEF Performance
  <2>2. CASE Gain(s, equity) # 0 /\ Charge(s, f, equity) = 0
    <3>1. p.state = [s EXCEPT !.high_water = RaisedMark(s, equity)]
      BY <2>2 DEF Performance
    <3>2. p.state.supply = s.supply /\ p.state.high_water = RaisedMark(s, equity)
      BY <3>1 DEF StateSet
    <3> QED
      BY <1>2, <3>2
  <2>3. CASE Gain(s, equity) # 0 /\ Charge(s, f, equity) # 0 /\ minted = 0
    BY <2>3 DEF Performance
  <2>4. CASE Gain(s, equity) # 0 /\ Charge(s, f, equity) # 0 /\ minted # 0
    <3>1. p.state = [grown EXCEPT !.performance_dust = Charge(s, f, equity) - paid,
                                  !.high_water       = RaisedMark(grown, equity)]
      BY <2>4 DEF Performance
    <3> DEFINE mark == RaisedMark(grown, equity)
    <3>2. grown.supply = s.supply + minted /\ grown.high_water = s.high_water
      BY DEF StateSet
    <3> HIDE DEF mark, paid
    <3>3. p.state.supply = grown.supply /\ p.state.high_water = mark
      BY <3>1 DEF StateSet, mark
    <3> QED
      BY <1>2, <3>2, <3>3 DEF mark
  <2> QED
    BY <2>1, <2>2, <2>3, <2>4
<1> QED
  BY <1>3, <1>4, <1>5

\* A second settlement in the same ledger, at the same equity, changes nothing.
LEMMA SettleAgain ==
    ASSUME NEW s \in StateSet, NEW f, RatesOK(f), NEW equity \in Nat \ {0},
           NEW time \in Nat, s.last_fee <= time,
           s.supply > 0, s.performance_dust <= s.high_water,
           SettleDefined(s, f, time, equity)
    PROVE  LET r == Settle(s, f, time, equity)
           IN  Settle(r.state, f, time, equity) = [minted |-> 0, state |-> r.state]
<1> DEFINE m == Management(s, f, time)
           p == Performance(m.state, f, equity)
           r == Settle(s, f, time, equity)
<1>1. /\ m.minted \in Nat /\ m.state \in StateSet
      /\ m.state.supply = s.supply + m.minted
      /\ m.state.high_water = s.high_water
      /\ m.state.performance_dust = s.performance_dust
  BY ManagementPreserves
<1>2. m.state.last_fee = time
  BY ManagementCatchesUp DEF SettleDefined
<1>3. m.state.supply > 0 /\ PerformanceDefined(m.state, f, equity)
  BY <1>1 DEF SettleDefined, StateSet
<1>4. r.state = p.state
  BY DEF Settle
<1> HIDE DEF m, r
<1>5. p.state \in StateSet /\ p.state.last_fee = time
  BY <1>1, <1>2, <1>3, PerformancePreserves
<1>6. Performance(p.state, f, equity) = [minted |-> 0, state |-> p.state]
  BY <1>1, <1>3, PerformanceAgain
<1> HIDE DEF p
<1>7. Management(p.state, f, time) = [minted |-> 0, state |-> p.state]
  BY <1>5, ManagementAtOnce
<1>8. Settle(p.state, f, time, equity) = [minted |-> 0, state |-> p.state]
  BY <1>6, <1>7 DEF Settle
<1> QED
  BY <1>4, <1>8 DEF r

=============================================================================
