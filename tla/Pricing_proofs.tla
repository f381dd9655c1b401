--------------------------- MODULE Pricing_proofs ---------------------------
(***************************************************************************)
(* The window of observations stays in order and, on the runner's          *)
(* schedule, usable; a mark cannot be moved within its ledger, and its     *)
(* reference stays among the samples; for any limits, pools, feeds and     *)
(* closing times.                                                          *)
(***************************************************************************)
EXTENDS PricingKeeper, SequenceTheorems, TLAPS

-----------------------------------------------------------------------------
(* The completed samples, with a matured pending one joined.               *)

LEMMA SamplesType ==
    ASSUME TypeOK
    PROVE  Samples \in Seq(Observation) /\ Len(Samples) \in 0 .. 3
<1>1. completed \in Seq(Observation) /\ Len(completed) \in 0 .. 3
  BY DEF TypeOK
<1>2. CASE ~Promoting
  BY <1>1, <1>2 DEF Samples
<1>3. CASE Promoting
  <2> DEFINE kept == IF Len(completed) = 3 THEN Tail(completed) ELSE completed
  <2>1. pending[1] \in Observation
    BY <1>3 DEF Promoting, TypeOK
  <2>2. kept \in Seq(Observation) /\ Len(kept) \in 0 .. 2
    <3>1. CASE Len(completed) = 3
      <4>1. completed # <<>>
        BY <3>1
      <4>2. Tail(completed) \in Seq(Observation)
            /\ Len(Tail(completed)) = Len(completed) - 1
        BY <1>1, <4>1, HeadTailProperties
      <4> QED
        BY <3>1, <4>2
    <3>2. CASE Len(completed) # 3
      BY <1>1, <3>2
    <3> QED
      BY <3>1, <3>2
  <2>3. Samples = Append(kept, pending[1])
    BY <1>3 DEF Samples
  <2> HIDE DEF kept
  <2> QED
    BY <2>1, <2>2, <2>3
<1> QED
  BY <1>2, <1>3

LEMMA NewObservation ==
    ASSUME TypeOK, Observe
    PROVE  /\ pending' \in Seq(Observation) /\ Len(pending') = 1
           /\ pending'[1] \in Observation
           /\ pending'[1].ledger = ledger /\ pending'[1].timestamp = time
<1>1. PoolPrice \in Nat \ {0}
  <2>1. pool.usdc * SCALE \in Nat /\ pool.asset \in Nat \ {0}
    BY PricingAssumption DEF Observe, DeepEnough, TypeOK, ReserveSet
  <2>2. (pool.usdc * SCALE) \div pool.asset \in Int
    BY <2>1
  <2> QED
    BY <2>2 DEF Observe, PoolPrice, MulDivFloor
<1> DEFINE p == [price         |-> PoolPrice,
                 timestamp     |-> time,
                 ledger        |-> ledger,
                 asset_reserve |-> pool.asset,
                 usdc_reserve  |-> pool.usdc]
<1>2. p \in Observation
  BY <1>1 DEF TypeOK, ReserveSet, Observation
<1>3. pending' = <<p>>
  BY DEF Observe
<1> QED
  BY <1>2, <1>3

\* A new observation joins the samples only in a later ledger.
LEMMA ObservedSamples ==
    ASSUME TypeOK, Observe
    PROVE  Samples' = IF Overdue THEN <<>> ELSE Samples
<1>1. ~Promoting'
  BY NewObservation DEF Promoting, Observe, TypeOK
<1> QED
  BY <1>1 DEF Samples, Observe

-----------------------------------------------------------------------------
(* Types.                                                                  *)

LEMMA TypeStep ==
    ASSUME TypeOK, [Next]_vars PROVE TypeOK'
<1>1. Extended \in Nat
  BY PricingAssumption DEF Extended, TypeOK
<1>2. CASE Observe
  <2>1. completed' \in Seq(Observation) /\ Len(completed') \in 0 .. 3
    <3>1. completed' = <<>> \/ completed' = Samples
      BY <1>2 DEF Observe
    <3>2. Samples \in Seq(Observation) /\ Len(Samples) \in 0 .. 3
      BY SamplesType
    <3>3. CASE completed' = <<>>
      BY <3>3
    <3>4. CASE completed' = Samples
      BY <3>2, <3>4
    <3> QED
      BY <3>1, <3>3, <3>4
  <2>2. pending' \in Seq(Observation) /\ Len(pending') \in 0 .. 1
    BY <1>2, NewObservation
  <2>3. live' \in Nat /\ UNCHANGED <<ledger, time, pool, feeds>>
    BY <1>1, <1>2 DEF Observe
  <2> QED
    BY <2>1, <2>2, <2>3 DEF TypeOK
<1>3. CASE Upkeep
  BY <1>1, <1>3 DEF Upkeep, TypeOK
<1>4. CASE \E reserves \in Reserves : Trade(reserves)
  BY <1>4, PricingAssumption DEF Trade, TypeOK
<1>5. CASE \E leg \in Legs, value \in Published : Publish(leg, value)
  <2>1. PICK leg \in Legs, value \in Published : Publish(leg, value)
    BY <1>5
  <2>2. value \in [price : Nat, timestamp : Nat] \cup {NoFeed}
    BY PricingAssumption DEF Published
  <2>3. feeds' \in [Legs -> [price : Nat, timestamp : Nat] \cup {NoFeed}]
    BY <2>1, <2>2 DEF Publish, TypeOK
  <2> QED
    BY <2>1, <2>3 DEF Publish, TypeOK
<1>6. CASE \E duration \in Durations : Close(duration)
  <2>1. PICK duration \in Durations : Close(duration)
    BY <1>6
  <2>2. duration \in Nat
    BY PricingAssumption
  <2>3. /\ completed' \in Seq(Observation) /\ Len(completed') \in 0 .. 3
        /\ pending' \in Seq(Observation) /\ Len(pending') \in 0 .. 1
    <3>1. CASE UNCHANGED <<completed, pending>>
      BY <3>1 DEF TypeOK
    <3>2. CASE completed' = <<>> /\ pending' = <<>>
      BY <3>2
    <3> QED
      BY <2>1, <3>1, <3>2 DEF Close
  <2>4. /\ ledger' \in Nat /\ time' \in Nat
        /\ UNCHANGED <<live, pool, feeds>>
    BY <2>1, <2>2 DEF Close, TypeOK
  <2> QED
    BY <2>3, <2>4 DEF TypeOK
<1>7. CASE UNCHANGED vars
  BY <1>7 DEF vars, TypeOK
<1> QED
  BY <1>2, <1>3, <1>4, <1>5, <1>6, <1>7 DEF Next

LEMMA TypeInit == ASSUME Init PROVE TypeOK
  BY PricingAssumption DEF Init, TypeOK

\* Every variable keeps its type; the window never holds more than three
\* completed samples and one pending.
THEOREM PricingTypeCorrect == Spec => []TypeOK
<1>1. TypeOK /\ [Next]_vars => TypeOK'
  BY TypeStep
<1> QED
  BY <1>1, TypeInit, PTL DEF Spec

-----------------------------------------------------------------------------
(* The mark within one ledger.                                             *)

LEMMA OverdueUnusable ==
    ASSUME TypeOK, Overdue PROVE ~WindowUsable(Samples)
<1> SUFFICES ASSUME WindowUsable(Samples) PROVE FALSE
  OBVIOUS
<1>1. Len(Samples) = 3 /\ Fresh(Samples[3].timestamp, MAX_GAP)
  BY DEF WindowUsable
<1>2. Samples[3] \in Observation
  BY <1>1, SamplesType
<1>3. Samples[3].timestamp \in Nat
  BY <1>2 DEF Observation
<1>4. time - Samples[3].timestamp > MAX_GAP
  BY <1>1 DEF Overdue, Last
<1> QED
  BY <1>1, <1>3, <1>4, PricingAssumption DEF Fresh, TypeOK

\* The mark depends on the samples, the feeds, the ledger and its time only.
LEMMA SameSamplesSameMark ==
    ASSUME Samples' = Samples, UNCHANGED <<feeds, ledger, time>>
    PROVE  Mark' = Mark
<1>1. FeedsUsable' = FeedsUsable /\ FeedPrice' = FeedPrice
  BY DEF FeedsUsable, Fresh, FeedPrice
<1>2. WindowUsable(Samples)' = WindowUsable(Samples)
  BY DEF WindowUsable, SampleUsable, Fresh
<1>3. Stamps(Samples)' = Stamps(Samples)
  BY DEF Stamps
<1>4. Evaluate(Samples)' = Evaluate(Samples)
  BY <1>1, <1>2, <1>3 DEF Evaluate
<1> QED
  BY <1>4 DEF Mark

LEMMA SameMarkSamePrice ==
    ASSUME Mark' = Mark, time' = time PROVE VaultPrice' = VaultPrice
  BY DEF VaultPrice, Fresh

LEMMA MarkStep ==
    ASSUME TypeOK, [Next]_vars, ledger' = ledger, feeds' = feeds
    PROVE  Mark' = Mark /\ VaultPrice' = VaultPrice
<1>1. time' = time
  BY DEF Next, Observe, Upkeep, Trade, Publish, Close, TypeOK, vars
<1>2. ASSUME Observe, ~Overdue PROVE Mark' = Mark
  <2>1. Samples' = Samples /\ UNCHANGED <<feeds, ledger, time>>
    BY <1>1, <1>2, ObservedSamples
  <2> QED
    BY <2>1, SameSamplesSameMark
<1>3. ASSUME Observe, Overdue PROVE Mark' = Mark
  <2>1. Mark = NoMark
    BY <1>3, OverdueUnusable DEF Mark, Evaluate
  <2>2. Samples' = <<>>
    BY <1>3, ObservedSamples
  <2>3. ~WindowUsable(Samples)'
    BY <2>2 DEF WindowUsable
  <2>4. Mark' = NoMark
    BY <2>3 DEF Mark, Evaluate, NoMark
  <2> QED
    BY <2>1, <2>4
<1>4. ASSUME UNCHANGED <<completed, pending>> PROVE Mark' = Mark
  <2>1. Samples' = Samples
    BY <1>4 DEF Samples, Promoting
  <2> QED
    BY <1>1, <2>1, SameSamplesSameMark
<1>5. Observe \/ UNCHANGED <<completed, pending>>
  BY DEF Next, Upkeep, Trade, Publish, Close, TypeOK, vars
<1>6. Mark' = Mark
  BY <1>2, <1>3, <1>4, <1>5
<1> QED
  BY <1>1, <1>6, SameMarkSamePrice

\* Pool trades, observations and upkeep, in any order, cannot move the mark or
\* the price the vault uses within their own ledger.
THEOREM NoMoveWithinLedger == Spec => MarkFixedWithinLedger
<1>1. TypeOK /\ [Next]_vars
        => [(ledger' = ledger /\ feeds' = feeds)
               => Mark' = Mark /\ VaultPrice' = VaultPrice]_vars
  BY MarkStep
<1> QED
  BY <1>1, PricingTypeCorrect, PTL DEF Spec, MarkFixedWithinLedger

-----------------------------------------------------------------------------
(* The window in order.                                                    *)

\* What is stored, oldest first.
Window == completed \o pending

LEMMA WindowType ==
    ASSUME NEW c \in Seq(Observation), NEW p \in Seq(Observation), Len(p) \in 0 .. 1
    PROVE  /\ c \o p \in Seq(Observation)
           /\ Len(c \o p) = Len(c) + Len(p)
           /\ \A i \in 1 .. Len(c) : (c \o p)[i] = c[i]
           /\ p # <<>> => /\ Len(c \o p) = Len(c) + 1
                          /\ (c \o p)[Len(c) + 1] = p[1]
<1>1. /\ Len(c) \in Nat
      /\ p # <<>> => Len(p) = 1
  OBVIOUS
<1>2. /\ c \o p \in Seq(Observation)
      /\ Len(c \o p) = Len(c) + Len(p)
      /\ \A i \in 1 .. Len(c) + Len(p) : (c \o p)[i] =
            IF i <= Len(c) THEN c[i] ELSE p[i - Len(c)]
  BY ConcatProperties
<1> QED
  BY <1>1, <1>2

\* The samples are a slice of the window, which reaches its end unless the last
\* observation, of this ledger, is still pending.
LEMMA SamplesSlice ==
    ASSUME TypeOK
    PROVE  \E k \in 0 .. 1 :
             /\ \A i \in 1 .. Len(Samples) :
                  i + k \in 1 .. Len(Window) /\ Samples[i] = Window[i + k]
             /\ StillPending = <<>> => Len(Samples) + k = Len(Window)
             /\ StillPending # <<>> =>
                  /\ Len(Samples) + k + 1 = Len(Window)
                  /\ Window[Len(Window)].ledger >= ledger
<1>1. /\ completed \in Seq(Observation) /\ pending \in Seq(Observation)
      /\ Len(completed) \in 0 .. 3 /\ Len(pending) \in 0 .. 1
  BY DEF TypeOK
<1>2. /\ Len(Window) = Len(completed) + Len(pending)
      /\ \A i \in 1 .. Len(completed) : Window[i] = completed[i]
      /\ pending # <<>> => /\ Len(Window) = Len(completed) + 1
                           /\ Window[Len(Window)] = pending[1]
  BY <1>1, WindowType DEF Window
<1>3. CASE ~Promoting
  <2>1. /\ Samples = completed
        /\ StillPending = <<>> => Len(pending) = 0
        /\ StillPending # <<>> => pending # <<>>
    BY <1>1, <1>3 DEF Samples, StillPending
  <2>2. /\ \A i \in 1 .. Len(Samples) :
             i + 0 \in 1 .. Len(Window) /\ Samples[i] = Window[i + 0]
        /\ StillPending = <<>> => Len(Samples) + 0 = Len(Window)
    BY <1>1, <1>2, <2>1
  <2>3. ASSUME StillPending # <<>>
        PROVE  /\ Len(Samples) + 0 + 1 = Len(Window)
               /\ Window[Len(Window)].ledger >= ledger
    <3>1. pending # <<>> /\ pending[1].ledger >= ledger
      <4>1. pending # <<>> /\ pending[1] \in Observation
        BY <1>1, <2>1, <2>3
      <4>2. pending[1].ledger \in Nat /\ ledger \in Nat
        BY <4>1 DEF Observation, TypeOK
      <4> QED
        BY <1>3, <4>1, <4>2 DEF Promoting
    <3> QED
      BY <1>1, <1>2, <2>1, <3>1
  <2> QED
    BY <2>2, <2>3
<1>4. CASE Promoting
  <2> DEFINE p    == pending[1]
             k    == IF Len(completed) = 3 THEN 1 ELSE 0
             kept == IF Len(completed) = 3 THEN Tail(completed) ELSE completed
  <2>1. pending # <<>> /\ p \in Observation
    BY <1>1, <1>4 DEF Promoting
  <2>2. Samples = Append(kept, p)
    BY <1>4 DEF Samples
  <2>3. /\ kept \in Seq(Observation) /\ Len(kept) + k = Len(completed)
        /\ \A i \in 1 .. Len(kept) : kept[i] = completed[i + k]
    <3>1. CASE Len(completed) = 3
      <4>1. completed # <<>>
        BY <3>1
      <4>2. /\ kept \in Seq(Observation) /\ Len(kept) = Len(completed) - 1
            /\ \A i \in 1 .. Len(kept) : kept[i] = completed[i + 1]
        BY <1>1, <3>1, <4>1, HeadTailProperties
      <4> HIDE DEF kept
      <4> QED
        BY <3>1, <4>2
    <3>2. CASE Len(completed) # 3
      BY <1>1, <3>2
    <3> QED
      BY <3>1, <3>2
  <2>4. k \in 0 .. 1
    OBVIOUS
  <2> HIDE DEF p, k, kept
  <2>5. /\ Len(Samples) = Len(kept) + 1 /\ Len(kept) \in Nat
        /\ \A i \in 1 .. Len(kept) : Samples[i] = kept[i]
        /\ Samples[Len(kept) + 1] = p
    BY <2>1, <2>2, <2>3, AppendProperties, LenProperties
  <2>6. ASSUME NEW i \in 1 .. Len(Samples)
        PROVE  i + k \in 1 .. Len(Window) /\ Samples[i] = Window[i + k]
    <3>1. CASE i = Len(kept) + 1
      BY <1>1, <1>2, <2>1, <2>3, <2>4, <2>5, <3>1 DEF p
    <3>2. CASE i # Len(kept) + 1
      <4>1. i \in 1 .. Len(kept) /\ i + k \in 1 .. Len(completed)
        BY <1>1, <2>3, <2>4, <2>5, <3>2
      <4> QED
        BY <1>1, <1>2, <2>3, <2>4, <2>5, <4>1
    <3> QED
      BY <3>1, <3>2
  <2>7. Len(Samples) + k = Len(Window)
    BY <1>1, <1>2, <2>1, <2>3, <2>4, <2>5
  <2>8. StillPending = <<>>
    BY <1>4 DEF StillPending
  <2> QED
    BY <2>4, <2>6, <2>7, <2>8
<1> QED
  BY <1>3, <1>4

\* An observation is the new end of the window; what it keeps is the old end.
LEMMA ObservedWindow ==
    ASSUME TypeOK, Observe
    PROVE  /\ Window' \in Seq(Observation) /\ Len(Window') \in 1 .. 4
           /\ Window'[Len(Window')].ledger = ledger
           /\ Window'[Len(Window')].timestamp = time
           /\ Window'[Len(Window')].asset_reserve = pool.asset
           /\ Window'[Len(Window')].usdc_reserve = pool.usdc
           /\ \E k \in 0 .. 1 :
                /\ \A i \in 1 .. Len(Window') - 1 :
                     i + k \in 1 .. Len(Window) /\ Window'[i] = Window[i + k]
                /\ Len(Window') > 1 =>
                     /\ ~Overdue /\ Last(Samples) = Window[Len(Window)]
                     /\ Samples # <<>>
                     /\ Len(Window) >= 1 /\ Len(Window') - 1 + k = Len(Window)
<1> DEFINE V == Window'
           c == completed'
           p == pending'
<1>1. c \in Seq(Observation) /\ Len(c) \in 0 .. 3
  BY TypeStep DEF TypeOK, Next
<1>2. /\ p \in Seq(Observation) /\ p # <<>> /\ Len(p) = 1
      /\ p[1].ledger = ledger /\ p[1].timestamp = time
      /\ p[1].asset_reserve = pool.asset /\ p[1].usdc_reserve = pool.usdc
  BY NewObservation DEF Observe
<1>3. c = IF Overdue THEN <<>> ELSE Samples
  BY DEF Observe
<1>4. V = c \o p
  BY DEF Window
<1> HIDE DEF V, c, p
<1>5. /\ V \in Seq(Observation) /\ Len(V) = Len(c) + 1
      /\ V[Len(V)] = p[1]
      /\ \A i \in 1 .. Len(c) : V[i] = c[i]
  BY <1>1, <1>2, <1>4, WindowType
<1>6. PICK k \in 0 .. 1 :
        /\ \A i \in 1 .. Len(Samples) :
             i + k \in 1 .. Len(Window) /\ Samples[i] = Window[i + k]
        /\ Len(Samples) + k = Len(Window)
  BY SamplesSlice DEF Observe
<1>7. Samples \in Seq(Observation) /\ Len(Samples) \in 0 .. 3
  BY SamplesType
<1>8. \A i \in 1 .. Len(V) - 1 :
         i + k \in 1 .. Len(Window) /\ V[i] = Window[i + k]
  <2>1. Len(V) - 1 = Len(c)
    BY <1>1, <1>5
  <2>2. CASE Overdue
    <3>1. c = <<>> /\ Len(c) = 0
      BY <1>3, <2>2
    <3>2. \A i \in 1 .. Len(c) : FALSE
      BY <3>1
    <3> QED
      BY <2>1, <3>2
  <2>3. CASE ~Overdue
    BY <1>3, <1>5, <1>6, <2>1, <2>3
  <2> QED
    BY <2>2, <2>3
<1>9. ASSUME Len(V) > 1
      PROVE  /\ ~Overdue /\ Last(Samples) = Window[Len(Window)]
             /\ Samples # <<>>
             /\ Len(Window) >= 1 /\ Len(V) - 1 + k = Len(Window)
  <2>1. c = Samples /\ ~Overdue /\ Len(Samples) \in 1 .. 3
    BY <1>1, <1>3, <1>5, <1>9
  <2>2. Last(Samples) = Window[Len(Samples) + k]
    BY <1>6, <2>1 DEF Last
  <2>3. Len(Samples) + k = Len(Window) /\ Len(V) - 1 = Len(Samples)
    BY <1>5, <1>6, <2>1
  <2>4. Len(Window) >= 1 /\ Len(V) - 1 + k = Len(Window) /\ Samples # <<>>
    BY <2>1, <2>3
  <2> QED
    BY <2>1, <2>2, <2>3, <2>4
<1>10. /\ V[Len(V)].ledger = ledger /\ V[Len(V)].timestamp = time
       /\ V[Len(V)].asset_reserve = pool.asset
       /\ V[Len(V)].usdc_reserve = pool.usdc
  BY <1>2, <1>5
<1>11. Len(V) \in 1 .. 4
  BY <1>1, <1>5
<1> QED
  BY <1>5, <1>8, <1>9, <1>10, <1>11 DEF V

\* The order of the window needs the ledgers of its samples: whatever counts as
\* completed was observed in an earlier ledger.
WindowInv ==
    /\ TypeOK
    /\ WindowInOrder
    /\ \A i \in 1 .. Len(completed) : completed[i].ledger < ledger
    /\ \A i \in 1 .. Len(Window) : Window[i].ledger <= ledger

\* Samples were observed in earlier ledgers.
LEMMA SamplesEarlier ==
    ASSUME WindowInv, NEW i \in 1 .. Len(Samples)
    PROVE  Samples[i].ledger < ledger
<1>1. /\ completed \in Seq(Observation) /\ pending \in Seq(Observation)
      /\ \A j \in 1 .. Len(completed) : completed[j].ledger < ledger
  BY DEF WindowInv, TypeOK
<1>2. CASE ~Promoting
  BY <1>1, <1>2 DEF Samples
<1>3. CASE Promoting
  <2> DEFINE p    == pending[1]
             kept == IF Len(completed) = 3 THEN Tail(completed) ELSE completed
  <2>1. p \in Observation /\ p.ledger < ledger
    BY <1>1, <1>3 DEF Promoting
  <2>2. Samples = Append(kept, p)
    BY <1>3 DEF Samples
  <2>3. kept \in Seq(Observation) /\ \A j \in 1 .. Len(kept) : kept[j].ledger < ledger
    <3>1. CASE Len(completed) = 3
      <4>1. completed # <<>>
        BY <3>1
      <4>2. /\ kept \in Seq(Observation) /\ Len(kept) = Len(completed) - 1
            /\ \A j \in 1 .. Len(kept) : kept[j] = completed[j + 1]
        BY <1>1, <3>1, <4>1, HeadTailProperties
      <4> HIDE DEF kept
      <4> QED
        BY <1>1, <3>1, <4>2
    <3>2. CASE Len(completed) # 3
      BY <1>1, <3>2
    <3> QED
      BY <3>1, <3>2
  <2> HIDE DEF p, kept
  <2>4. /\ Len(Samples) = Len(kept) + 1 /\ Len(kept) \in Nat
        /\ \A j \in 1 .. Len(kept) : Samples[j] = kept[j]
        /\ Samples[Len(kept) + 1] = p
    BY <2>1, <2>2, <2>3, AppendProperties, LenProperties
  <2>5. CASE i = Len(kept) + 1
    BY <2>1, <2>4, <2>5
  <2>6. CASE i # Len(kept) + 1
    BY <2>3, <2>4, <2>6
  <2> QED
    BY <2>5, <2>6
<1> QED
  BY <1>2, <1>3

LEMMA WindowStep ==
    ASSUME WindowInv, [Next]_vars PROVE WindowInv'
<1>1. TypeOK /\ TypeOK'
  BY TypeStep DEF WindowInv
<1>2. ledger \in Nat /\ \A o \in Observation : o.ledger \in Nat /\ o.timestamp \in Nat
  BY <1>1 DEF Observation, TypeOK
<1>3. Window \in Seq(Observation) /\ \A i \in 1 .. Len(Window) : Window[i] \in Observation
  BY <1>1, WindowType, ElementOfSeq DEF TypeOK, Window
<1>4. CASE Observe
  <2> DEFINE W == Window
             V == Window'
             n == Len(V)
  <2>1. /\ V \in Seq(Observation) /\ n \in 1 .. 4
        /\ V[n].ledger = ledger /\ V[n].timestamp = time
        /\ ledger' = ledger
    BY <1>1, <1>4, ObservedWindow DEF Observe
  <2>2. PICK k \in 0 .. 1 :
          /\ \A i \in 1 .. n - 1 : i + k \in 1 .. Len(W) /\ V[i] = W[i + k]
          /\ n > 1 => /\ ~Overdue /\ Last(Samples) = W[Len(W)]
                      /\ Samples # <<>>
                      /\ Len(W) >= 1 /\ n - 1 + k = Len(W)
    BY <1>1, <1>4, ObservedWindow
  <2>3. /\ \A i \in 1 .. Len(W) - 1 : Consecutive(W[i], W[i + 1])
        /\ \A i \in 1 .. Len(W) : W[i].ledger <= ledger
    BY DEF WindowInv, WindowInOrder, Window
  <2>4. Len(W) \in Nat
    BY <1>3
  <2>5. \A i \in 1 .. Len(completed') : completed'[i].ledger < ledger'
    <3>1. completed' = <<>> \/ completed' = Samples
      BY <1>4 DEF Observe
    <3> QED
      BY <2>1, <3>1, SamplesEarlier
  <2>6. ASSUME n > 1 PROVE Consecutive(W[Len(W)], V[n])
    <3> DEFINE p == W[Len(W)]
    <3>1. p \in Observation
      BY <1>3, <2>2, <2>4, <2>6
    <3>2. /\ time - p.timestamp \in MIN_SPACING .. MAX_GAP
          /\ p.ledger < ledger
      <4>1. p = Last(Samples) /\ ~Overdue /\ ~TooSoon /\ Samples # <<>>
        BY <1>4, <2>2, <2>6 DEF Observe
      <4>2. p.ledger < ledger
        <5>1. Len(Samples) \in 1 .. Len(Samples)
          BY <1>1, <4>1, SamplesType
        <5> QED
          BY <4>1, <5>1, SamplesEarlier DEF Last
      <4> HIDE DEF p
      <4>3. time \in Nat /\ p.timestamp \in Nat
        BY <1>1, <1>2, <3>1 DEF TypeOK
      <4> QED
        BY <4>1, <4>2, <4>3, PricingAssumption DEF TooSoon, Overdue
    <3> QED
      BY <2>1, <3>2 DEF Consecutive
  <2> HIDE DEF W, V, n
  <2>7. ASSUME NEW i \in 1 .. n - 1 PROVE Consecutive(V[i], V[i + 1])
    <3>1. i \in Nat /\ n \in Nat /\ n > 1
      BY <2>1
    <3>2. i + k \in 1 .. Len(W) /\ V[i] = W[i + k] /\ n - 1 + k = Len(W)
      BY <2>2, <3>1
    <3>3. CASE i = n - 1
      <4>1. i + 1 = n /\ i + k = Len(W)
        BY <2>1, <3>2, <3>3
      <4> QED
        BY <2>6, <3>1, <3>2, <4>1
    <3>4. CASE i # n - 1
      <4>1. i + 1 \in 1 .. n - 1 /\ i + k \in 1 .. Len(W) - 1
            /\ (i + 1) + k = (i + k) + 1
        BY <2>1, <2>2, <3>2, <3>4
      <4>2. V[i + 1] = W[(i + 1) + k]
        BY <2>2, <4>1
      <4> QED
        BY <2>3, <3>2, <4>1, <4>2
    <3> QED
      BY <3>3, <3>4
  <2>8. ASSUME NEW i \in 1 .. n PROVE V[i].ledger <= ledger
    <3>1. CASE i = n
      BY <1>2, <2>1, <3>1
    <3>2. CASE i # n
      <4>1. i \in 1 .. n - 1
        BY <2>1, <3>2
      <4> QED
        BY <2>2, <2>3, <4>1
    <3> QED
      BY <3>1, <3>2
  <2>9. WindowInOrder'
    BY <2>7 DEF WindowInOrder, Consecutive, Window, V, n
  <2> QED
    BY <1>1, <2>1, <2>5, <2>8, <2>9 DEF WindowInv, V, n
<1>5. CASE UNCHANGED <<completed, pending>> /\ ledger' \in Nat /\ ledger' >= ledger
  <2>1. WindowInOrder' /\ Window' = Window /\ completed' = completed
    BY <1>5 DEF WindowInv, WindowInOrder, Window
  <2>2. \A i \in 1 .. Len(completed) : completed[i] \in Observation
    BY <1>1, ElementOfSeq DEF TypeOK
  <2>3. /\ \A i \in 1 .. Len(completed) : completed[i].ledger < ledger
        /\ \A i \in 1 .. Len(Window) : Window[i].ledger <= ledger
    BY DEF WindowInv
  <2>4. /\ \A i \in 1 .. Len(completed) : completed[i].ledger < ledger'
        /\ \A i \in 1 .. Len(Window) : Window[i].ledger <= ledger'
    BY <1>2, <1>3, <1>5, <2>2, <2>3
  <2> QED
    BY <1>1, <2>1, <2>4 DEF WindowInv
<1>6. CASE completed' = <<>> /\ pending' = <<>>
  <2>1. Window' = <<>>
    BY <1>6 DEF Window
  <2> QED
    BY <1>1, <1>6, <2>1 DEF WindowInv, WindowInOrder, Window
<1>7. \/ Observe
      \/ UNCHANGED <<completed, pending>> /\ ledger' \in Nat /\ ledger' >= ledger
      \/ completed' = <<>> /\ pending' = <<>>
  BY <1>2 DEF Next, Upkeep, Trade, Publish, Close, vars
<1> QED
  BY <1>4, <1>5, <1>6, <1>7

\* Observations by anyone at any time, gaps and expiries leave a window in
\* order: later ledgers, spacing within MIN_SPACING and MAX_GAP (pricing lib.rs
\* observe and history).
THEOREM WindowStaysInOrder == Spec => []WindowInOrder
<1>1. Init => WindowInv
  BY TypeInit DEF WindowInv, WindowInOrder, Init, Window
<1>2. WindowInv /\ [Next]_vars => WindowInv'
  BY WindowStep
<1>3. WindowInv => WindowInOrder
  BY DEF WindowInv
<1> QED
  BY <1>1, <1>2, <1>3, PTL DEF Spec

-----------------------------------------------------------------------------
(* The reference of a mark.                                                *)

\* The mean of a line through a, b and c, over u and then v seconds.
LEMMA MeanBounds ==
    ASSUME NEW a \in Nat, NEW b \in Nat, NEW c \in Nat,
           NEW u \in Nat \ {0}, NEW v \in Nat \ {0}
    PROVE  LET mean == ((a + b) * u + (b + c) * v) \div ((u + v) * 2)
           IN  /\ a <= mean \/ b <= mean \/ c <= mean
               /\ mean <= a \/ mean <= b \/ mean <= c
<1> DEFINE n == (a + b) * u + (b + c) * v
           d == (u + v) * 2
           q == n \div d
<1>1. n \in Nat /\ d \in Nat \ {0}
  OBVIOUS
<1>2. q \in Nat /\ q * d <= n /\ n < (q + 1) * d
  <2>1. \A k \in Nat : /\ k \div d \in Nat /\ (k \div d) * d <= k
                       /\ k < ((k \div d) + 1) * d
    BY <1>1
  <2> QED
    BY <1>1, <2>1
<1>3. \A k \in Nat : k * d = (k + k) * u + (k + k) * v
  OBVIOUS
<1> HIDE DEF d, q
<1>4. ~(a > q /\ b > q /\ c > q)
  <2> SUFFICES ASSUME a >= q + 1, b >= q + 1, c >= q + 1 PROVE FALSE
    BY <1>2
  <2> DEFINE k == q + 1
  <2>1. k \in Nat /\ a + b >= k + k /\ b + c >= k + k
    BY <1>2
  <2> HIDE DEF k
  <2>2. (a + b) * u >= (k + k) * u /\ (b + c) * v >= (k + k) * v
    BY <2>1
  <2>3. k * d = (k + k) * u + (k + k) * v
    BY <1>3, <2>1
  <2>4. /\ (a + b) * u \in Nat /\ (b + c) * v \in Nat
        /\ (k + k) * u \in Nat /\ (k + k) * v \in Nat
    BY <2>1
  <2> QED
    BY <1>2, <2>2, <2>3, <2>4 DEF k
<1>5. ~(q > a /\ q > b /\ q > c)
  <2> SUFFICES ASSUME q >= a + 1, q >= b + 1, q >= c + 1 PROVE FALSE
    BY <1>2
  <2>1. a + b < q + q /\ b + c < q + q
    BY <1>2
  <2>2. (a + b) * u < (q + q) * u /\ (b + c) * v < (q + q) * v
    BY <1>2, <2>1
  <2>3. q * d = (q + q) * u + (q + q) * v
    BY <1>2, <1>3
  <2>4. /\ (a + b) * u \in Nat /\ (b + c) * v \in Nat
        /\ (q + q) * u \in Nat /\ (q + q) * v \in Nat
    BY <1>2
  <2> QED
    BY <1>2, <2>2, <2>3, <2>4
<1> QED
  BY <1>2, <1>4, <1>5 DEF q, d

\* A ready mark's reference is a mean of three admissible samples.
LEMMA ReferenceIsMean ==
    ASSUME TypeOK PROVE ReferenceWithinSamples
<1> SUFFICES ASSUME Mark.ready PROVE ReferenceWithinSamples
  BY DEF ReferenceWithinSamples
<1> DEFINE s == Samples
<1>1. /\ WindowUsable(s)
      /\ Mark.reference = Twap(s[1], s[2], s[3])
  BY DEF Mark, Evaluate, NoMark
<1>2. s \in Seq(Observation) /\ Len(s) = 3
  BY <1>1, SamplesType DEF WindowUsable
<1> HIDE DEF s
<1> DEFINE a == s[1]
           b == s[2]
           c == s[3]
           u == b.timestamp - a.timestamp
           v == c.timestamp - b.timestamp
<1>3. a \in Observation /\ b \in Observation /\ c \in Observation
  BY <1>2, ElementOfSeq
<1>4. /\ a.price \in Nat /\ b.price \in Nat /\ c.price \in Nat
      /\ a.timestamp \in Nat /\ b.timestamp \in Nat /\ c.timestamp \in Nat
  BY <1>3 DEF Observation
<1>5. u \in Nat \ {0} /\ v \in Nat \ {0} /\ u + v = c.timestamp - a.timestamp
  <2>1. u \in MIN_SPACING .. MAX_GAP /\ v \in MIN_SPACING .. MAX_GAP
    BY <1>1 DEF WindowUsable, Consecutive
  <2> QED
    BY <1>4, <2>1, PricingAssumption
<1>6. Mark.reference = ((a.price + b.price) * u + (b.price + c.price) * v)
                         \div ((u + v) * 2)
  BY <1>1, <1>5 DEF Twap
<1> HIDE DEF a, b, c, u, v
<1>7. /\ \/ a.price <= Mark.reference \/ b.price <= Mark.reference
         \/ c.price <= Mark.reference
      /\ \/ Mark.reference <= a.price \/ Mark.reference <= b.price
         \/ Mark.reference <= c.price
  <2> DEFINE A == a.price
             B == b.price
             C == c.price
  <2>1. /\ A \in Nat /\ B \in Nat /\ C \in Nat
        /\ Mark.reference = ((A + B) * u + (B + C) * v) \div ((u + v) * 2)
    BY <1>4, <1>6
  <2> HIDE DEF A, B, C
  <2>2. /\ A <= Mark.reference \/ B <= Mark.reference \/ C <= Mark.reference
        /\ Mark.reference <= A \/ Mark.reference <= B \/ Mark.reference <= C
    BY <1>5, <2>1, MeanBounds
  <2> QED
    BY <2>2 DEF A, B, C
<1> QED
  BY <1>7 DEF ReferenceWithinSamples, a, b, c, s

\* No single extreme sample takes the reference price outside of what the pool
\* showed at the three observations (pricing lib.rs evaluate).
THEOREM ReferenceStaysWithin == Spec => []ReferenceWithinSamples
<1>1. TypeOK => ReferenceWithinSamples
  BY ReferenceIsMean
<1> QED
  BY <1>1, PricingTypeCorrect, PTL

-----------------------------------------------------------------------------
(* Passes.                                                                 *)

\* The runner's own samples of the sources it has yet to call are MIN_SPACING
\* old: in a pass now, between two passes at the earliest start of the next.
PassInv ==
    /\ time \in Nat /\ started \in Nat /\ passed \in Nat
    /\ started <= time /\ passed <= time
    /\ next \in 1 .. EARLIER + 1
    /\ next # 1 => time - started <= PASS
    /\ earlier \in [1 .. EARLIER -> EarlierSource]
    /\ \A source \in 1 .. EARLIER : earlier[source].own =>
         /\ earlier[source].sampled + MIN_SPACING <= started + SPACING
         /\ next # 1 /\ source >= next =>
              earlier[source].sampled + MIN_SPACING <= started

LEMMA ScheduleNat ==
    /\ EARLIER \in Nat /\ SPACING \in Nat /\ PERIOD \in Nat \ {0} /\ PASS \in Nat
    /\ MIN_SPACING \in Nat \ {0} /\ MIN_SPACING <= SPACING
    /\ EARLIER > 1 => MIN_SPACING + PASS <= SPACING
    /\ PASS <= PERIOD
<1>1. CASE EARLIER > 1
  BY <1>1, PricingAssumption, ScheduleAssumption
<1>2. CASE ~(EARLIER > 1)
  BY <1>2, PricingAssumption, ScheduleAssumption
<1> QED
  BY <1>1, <1>2

\* A call that starts a pass finds every sample of the runner's own old enough.
LEMMA CallingOld ==
    ASSUME PassInv, Calling
    PROVE  /\ started' \in Nat /\ started <= started' /\ started' <= time
           /\ next = 1 => started' = time
           /\ next # 1 => started' = started
           /\ time - started' <= PASS
           /\ \A source \in 1 .. EARLIER : earlier[source].own =>
                /\ earlier[source].sampled \in Nat
                /\ earlier[source].sampled + MIN_SPACING <= started' + SPACING
                /\ source >= next => earlier[source].sampled + MIN_SPACING <= started'
<1>1. /\ time \in Nat /\ started \in Nat /\ started <= time
      /\ next # 1 => time - started <= PASS
      /\ \A source \in 1 .. EARLIER : earlier[source] \in EarlierSource
      /\ \A source \in 1 .. EARLIER : earlier[source].own =>
           /\ earlier[source].sampled + MIN_SPACING <= started + SPACING
           /\ next # 1 /\ source >= next =>
                earlier[source].sampled + MIN_SPACING <= started
  BY DEF PassInv
<1>2. \A source \in 1 .. EARLIER : earlier[source].sampled \in Nat
  BY <1>1 DEF EarlierSource
<1>3. CASE next = 1
  <2>1. started' = time /\ time - started >= SPACING
    BY <1>3 DEF Calling
  <2> QED
    BY <1>1, <1>2, <1>3, <2>1, ScheduleNat
<1>4. CASE next # 1
  <2>1. started' = started
    BY <1>4 DEF Calling
  <2> QED
    BY <1>1, <1>2, <1>4, <2>1, ScheduleNat
<1> QED
  BY <1>3, <1>4

LEMMA PassStart == ASSUME KeeperInit PROVE PassInv
<1>1. /\ time = InitialTime /\ started = InitialTime /\ passed = InitialTime
      /\ next = 1
      /\ earlier = [source \in 1 .. EARLIER |->
                      [sampled |-> 0, own |-> FALSE, deep |-> TRUE]]
  BY DEF KeeperInit, Init
<1>2. earlier \in [1 .. EARLIER -> EarlierSource]
      /\ \A source \in 1 .. EARLIER : ~earlier[source].own
  BY <1>1 DEF EarlierSource
<1> QED
  BY <1>1, <1>2, PricingAssumption, ScheduleNat DEF PassInv

\* What only Close changes, and what a step of the subject leaves alone.
LEMMA ClockSteps ==
    ASSUME Observe \/ Upkeep \/ (\E reserves \in Reserves : Trade(reserves))
             \/ (\E leg \in Legs, value \in Published : Publish(leg, value))
             \/ UNCHANGED vars
    PROVE  UNCHANGED <<ledger, time>>
BY DEF Observe, Upkeep, Trade, Publish, vars

\* Whoever samples a source, its record stays one.
LEMMA SampledSource ==
    ASSUME PassInv, NEW source \in 1 .. EARLIER, NEW own \in BOOLEAN,
           Sampled(source, own)
    PROVE  /\ earlier' \in [1 .. EARLIER -> EarlierSource]
           /\ earlier'[source].own = own /\ earlier'[source].sampled = time
           /\ \A other \in 1 .. EARLIER \ {source} : earlier'[other] = earlier[other]
BY DEF Sampled, PassInv, EarlierSource

LEMMA PassStep ==
    ASSUME PassInv, [KeeperNext]_keeperVars PROVE PassInv'
<1>1. /\ time \in Nat /\ started \in Nat /\ passed \in Nat
      /\ started <= time /\ passed <= time
      /\ next \in 1 .. EARLIER + 1
      /\ earlier \in [1 .. EARLIER -> EarlierSource]
      /\ \A source \in 1 .. EARLIER : earlier[source].sampled \in Nat
  BY DEF PassInv, EarlierSource
<1>2. CASE CallEarlier
  <2>1. /\ Calling /\ Sampled(next, TRUE) /\ next' = next + 1 /\ next <= EARLIER
        /\ passed' = passed /\ time' = time
    BY <1>2 DEF CallEarlier, vars
  <2>2. next \in 1 .. EARLIER /\ next' \in 1 .. EARLIER + 1 /\ EARLIER \in Nat
    BY <1>1, <2>1, ScheduleNat
  <2>3. /\ earlier' \in [1 .. EARLIER -> EarlierSource]
        /\ earlier'[next].sampled = time
        /\ \A other \in 1 .. EARLIER \ {next} : earlier'[other] = earlier[other]
    BY <2>1, <2>2, SampledSource
  <2>4. time + MIN_SPACING <= started' + SPACING
    <3>1. CASE next = 1
      BY <1>1, <2>1, <3>1, CallingOld, ScheduleNat
    <3>2. CASE next # 1
      <4>1. EARLIER > 1
        BY <2>2, <3>2
      <4> QED
        BY <1>1, <2>1, <4>1, CallingOld, ScheduleNat
    <3> QED
      BY <3>1, <3>2
  <2>5. ASSUME NEW source \in 1 .. EARLIER, earlier'[source].own
        PROVE  /\ earlier'[source].sampled + MIN_SPACING <= started' + SPACING
               /\ next' # 1 /\ source >= next' =>
                    earlier'[source].sampled + MIN_SPACING <= started'
    <3>1. CASE source = next
      BY <2>1, <2>2, <2>3, <2>4, <3>1
    <3>2. CASE source # next
      <4>1. earlier'[source] = earlier[source]
        BY <2>3, <3>2
      <4> QED
        BY <2>1, <2>2, <2>5, <4>1, CallingOld
    <3> QED
      BY <3>1, <3>2
  <2>6. /\ started' \in Nat /\ started' <= time /\ time - started' <= PASS
    BY <2>1, CallingOld
  <2> QED
    BY <1>1, <2>1, <2>2, <2>3, <2>5, <2>6 DEF PassInv
<1>3. CASE RefusedEarlier \/ CallSubject
  <2>1. Calling /\ next' = 1 /\ earlier' = earlier /\ passed' \in {passed, time}
    BY <1>3 DEF RefusedEarlier, CallSubject
  <2>2. time' = time
    BY <1>3, ClockSteps DEF RefusedEarlier, CallSubject
  <2>3. /\ started' \in Nat /\ started' <= time
        /\ \A source \in 1 .. EARLIER : earlier[source].own =>
             earlier[source].sampled + MIN_SPACING <= started' + SPACING
    BY <2>1, CallingOld
  <2> QED
    BY <1>1, <2>1, <2>2, <2>3, ScheduleNat DEF PassInv
<1>4. CASE Stop \/ UNCHANGED keeperVars
  <2>1. /\ UNCHANGED <<time, earlier, started, passed>>
        /\ next' = 1 \/ next' = next
    BY <1>4 DEF Stop, keeperVars, runnerVars, vars
  <2> QED
    BY <1>1, <2>1, ScheduleNat DEF PassInv
<1>5. CASE CloseOnSchedule
  <2>1. PICK duration \in Durations :
          /\ next # 1 => time + duration - started <= PASS
          /\ Close(duration)
    BY <1>5 DEF CloseOnSchedule
  <2>2. time' = time + duration /\ duration \in Nat
    BY <2>1, PricingAssumption DEF Close
  <2>3. UNCHANGED <<earlier, next, started, passed>>
    BY <1>5 DEF CloseOnSchedule, runnerVars
  <2> QED
    BY <1>1, <2>1, <2>2, <2>3 DEF PassInv
<1>6. CASE Anybody
  <2>1. UNCHANGED <<next, started, passed, time>>
    BY <1>6, ClockSteps DEF Anybody, runnerVars, vars
  <2>2. CASE UNCHANGED earlier
    BY <1>1, <2>1, <2>2 DEF PassInv
  <2>3. CASE \E source \in 1 .. EARLIER : Sampled(source, FALSE)
    <3>1. PICK source \in 1 .. EARLIER : Sampled(source, FALSE)
      BY <2>3
    <3>2. /\ earlier' \in [1 .. EARLIER -> EarlierSource]
          /\ ~earlier'[source].own
          /\ \A other \in 1 .. EARLIER \ {source} : earlier'[other] = earlier[other]
      BY <3>1, SampledSource
    <3>3. ASSUME NEW other \in 1 .. EARLIER, earlier'[other].own
          PROVE  earlier'[other] = earlier[other]
      BY <3>2, <3>3
    <3> QED
      BY <1>1, <2>1, <3>2, <3>3 DEF PassInv
  <2>4. CASE \E source \in 1 .. EARLIER :
               earlier' = [earlier EXCEPT ![source].deep = ~@]
    <3>1. PICK source \in 1 .. EARLIER :
            earlier' = [earlier EXCEPT ![source].deep = ~@]
      BY <2>4
    <3>2. /\ earlier' \in [1 .. EARLIER -> EarlierSource]
          /\ \A other \in 1 .. EARLIER :
               /\ earlier'[other].own = earlier[other].own
               /\ earlier'[other].sampled = earlier[other].sampled
      BY <1>1, <3>1 DEF EarlierSource
    <3> QED
      BY <1>1, <2>1, <3>2 DEF PassInv
  <2> QED
    BY <1>6, <2>2, <2>3, <2>4 DEF Anybody, runnerVars
<1> QED
  BY <1>2, <1>3, <1>4, <1>5, <1>6 DEF KeeperNext, Call

\* However many sources there are and whatever failed before, no pass ends at a
\* sample the runner itself took (scripts/d3-observe.py, pricing lib.rs observe).
THEOREM PassesStoppedByOthers == KeeperSpec => StoppedByOthers
<1>1. PassInv /\ RefusedEarlier => ~earlier[next].deep \/ ~earlier[next].own
  <2> SUFFICES ASSUME PassInv, RefusedEarlier, earlier[next].own, earlier[next].deep
               PROVE  FALSE
    OBVIOUS
  <2>1. Calling /\ next <= EARLIER /\ ~Accepted(earlier[next])
    BY DEF RefusedEarlier
  <2>2. next \in 1 .. EARLIER /\ time \in Nat /\ earlier[next] \in EarlierSource
    BY <2>1, ScheduleNat DEF PassInv
  <2>3. /\ earlier[next].sampled + MIN_SPACING <= started'
        /\ started' \in Nat /\ started' <= time /\ earlier[next].sampled \in Nat
    BY <2>1, <2>2, CallingOld
  <2> QED
    BY <2>1, <2>2, <2>3, ScheduleNat DEF Accepted, EarlierSource
<1>2. KeeperInit => PassInv
  BY PassStart
<1>3. PassInv /\ [KeeperNext]_keeperVars => PassInv'
  BY PassStep
<1>4. PassInv /\ [KeeperNext]_keeperVars
        => [RefusedEarlier => ~earlier[next].deep \/ ~earlier[next].own]_keeperVars
  BY <1>1
<1> QED
  BY <1>2, <1>3, <1>4, PTL DEF KeeperSpec, StoppedByOthers

-----------------------------------------------------------------------------
(* Every pass reaches the subject.                                         *)

LatestOf(w) == w[Len(w)]

\* No more than a period and a pass go by between two calls of the subject.
OnTime ==
    /\ next = 1 => started <= passed /\ time - started <= PERIOD
    /\ next # 1 => started - passed <= PERIOD /\ time - started <= PASS

\* What the schedule guarantees before the first outage: a sample is never far
\* from the one before, the last never old, and never left to expire.
OnSchedule ==
    /\ OnTime
    /\ \A i \in 1 .. Len(Window) - 1 :
          Window[i + 1].timestamp - Window[i].timestamp <= Interval
    /\ Window # <<>> =>
         /\ passed - LatestOf(Window).timestamp < MIN_SPACING
         /\ ledger - LatestOf(Window).ledger <= time - LatestOf(Window).timestamp
         /\ LatestOf(Window).ledger = ledger => LatestOf(Window).timestamp = time
         /\ LatestOf(Window).ledger + TTL \div 2 <= live

KeeperInv ==
    /\ WindowInv /\ PassInv
    /\ \A i \in 1 .. Len(Window) :
         /\ Window[i].timestamp <= time
         /\ Window[i].asset_reserve >= MIN_ASSET_RESERVE
         /\ Window[i].usdc_reserve >= MIN_USDC_RESERVE
    /\ outage = "none" => OnSchedule

LEMMA IntervalNat ==
    /\ Interval \in Nat \ {0} /\ TTL \div 2 \in Nat /\ Interval <= TTL \div 2
    /\ PERIOD \in Nat \ {0} /\ PASS \in Nat /\ MIN_SPACING \in Nat \ {0}
    /\ Interval = MIN_SPACING + PERIOD + PASS - 1
    /\ Interval <= MAX_GAP /\ 3 * Interval <= MAX_AGE /\ 3 * Interval <= MAX_SKEW
    /\ FEED_MAX_AGE <= MAX_SKEW
<1>1. 3 * Interval <= MAX_AGE /\ 3 * Interval <= MAX_SKEW
  BY PricingAssumption, ScheduleAssumption DEF Interval, Least
<1> QED
  BY <1>1, PricingAssumption, ScheduleAssumption DEF Interval

LEMMA KeeperTypes ==
    ASSUME KeeperInv
    PROVE  /\ TypeOK /\ ledger \in Nat /\ time \in Nat /\ live \in Nat
           /\ Window \in Seq(Observation) /\ Len(Window) \in Nat
           /\ \A i \in 1 .. Len(Window) :
                /\ Window[i] \in Observation
                /\ Window[i].timestamp \in Nat /\ Window[i].ledger \in Nat
                /\ Window[i].timestamp <= time /\ Window[i].ledger <= ledger
           /\ Window # <<>> => Len(Window) \in 1 .. Len(Window)
<1>1. TypeOK /\ Window \in Seq(Observation)
  BY WindowType DEF KeeperInv, WindowInv, TypeOK, Window
<1>2. \A i \in 1 .. Len(Window) : Window[i] \in Observation
  BY <1>1, ElementOfSeq
<1>3. \A o \in Observation : o.timestamp \in Nat /\ o.ledger \in Nat
  BY DEF Observation
<1>4. Len(Window) \in Nat /\ (Window # <<>> => Len(Window) \in 1 .. Len(Window))
  BY <1>1
<1> QED
  BY <1>1, <1>2, <1>3, <1>4 DEF KeeperInv, WindowInv, TypeOK

LEMMA OnTimeGap ==
    ASSUME PassInv, OnTime
    PROVE  /\ passed \in Nat /\ time \in Nat /\ passed <= time
           /\ time - passed <= PERIOD + PASS
BY ScheduleNat DEF PassInv, OnTime

LEMMA OnTimeStep ==
    ASSUME PassInv, outage = "none" => OnTime,
           [KeeperNext]_keeperVars, outage' = "none"
    PROVE  OnTime' /\ outage = "none"
<1>1. outage = "none"
  BY DEF KeeperNext, Call, CallEarlier, RefusedEarlier, CallSubject, Stop,
         CloseOnSchedule, Anybody, runnerVars, keeperVars
<1>2. /\ time \in Nat /\ started \in Nat /\ passed \in Nat
      /\ started <= time /\ passed <= time /\ OnTime /\ next \in 1 .. EARLIER + 1
  BY <1>1 DEF PassInv
<1>3. CASE CallEarlier
  <2>1. Calling /\ next' = next + 1 /\ time' = time /\ passed' = passed
    BY <1>3 DEF CallEarlier, vars
  <2>2. started' = (IF next = 1 THEN time ELSE started) /\ next' # 1
    BY <1>1, <1>2, <2>1, ScheduleNat DEF Calling
  <2> QED
    BY <1>1, <1>2, <2>1, <2>2, ScheduleNat DEF OnTime
<1>4. CASE CallSubject
  <2>1. Calling /\ next' = 1 /\ passed' = time
    BY <1>4 DEF CallSubject
  <2>2. time' = time
    BY <1>4, ClockSteps DEF CallSubject
  <2>3. started' = (IF next = 1 THEN time ELSE started)
    BY <2>1 DEF Calling
  <2> QED
    BY <1>1, <1>2, <2>1, <2>2, <2>3, ScheduleNat DEF OnTime
<1>5. CASE RefusedEarlier \/ Stop
  BY <1>5 DEF RefusedEarlier, Stop
<1>6. CASE CloseOnSchedule
  <2>1. PICK duration \in Durations :
          /\ next # 1 => time + duration - started <= PASS
          /\ next = 1 => time + duration - started <= PERIOD
          /\ Close(duration)
    BY <1>1, <1>6 DEF CloseOnSchedule
  <2>2. time' = time + duration /\ duration \in Nat
    BY <2>1, PricingAssumption DEF Close
  <2>3. UNCHANGED <<next, started, passed>>
    BY <1>6 DEF CloseOnSchedule, runnerVars
  <2> QED
    BY <1>1, <1>2, <2>1, <2>2, <2>3 DEF OnTime
<1>7. CASE Anybody \/ UNCHANGED keeperVars
  <2>1. UNCHANGED <<next, started, passed, time>>
    BY <1>7, ClockSteps DEF Anybody, runnerVars, keeperVars, vars
  <2> QED
    BY <1>1, <1>2, <2>1 DEF OnTime
<1> QED
  BY <1>3, <1>4, <1>5, <1>6, <1>7 DEF KeeperNext, Call

\* While the schedule is kept the last sample is at most one interval old.
LEMMA LatestYoung ==
    ASSUME KeeperInv, outage = "none", Window # <<>>
    PROVE  time - LatestOf(Window).timestamp <= Interval
<1> DEFINE t == LatestOf(Window).timestamp
<1>1. t \in Nat
  BY KeeperTypes DEF LatestOf
<1>2. /\ passed - t < MIN_SPACING /\ time - passed <= PERIOD + PASS
      /\ time \in Nat /\ passed \in Nat
  BY OnTimeGap DEF KeeperInv, OnSchedule
<1> HIDE DEF t
<1> QED
  BY <1>1, <1>2, IntervalNat DEF t

LEMMA KeeperObserves ==
    ASSUME KeeperInv, Observe, PassInv', passed' \in {passed, time},
           outage' = "none" => outage = "none" /\ OnTime'
    PROVE  KeeperInv'
<1> DEFINE W == Window
           V == Window'
           n == Len(V)
<1>1. WindowInv'
  BY WindowStep DEF KeeperInv, Next
<1>2. /\ V \in Seq(Observation) /\ n \in 1 .. 4
      /\ V[n].ledger = ledger /\ V[n].timestamp = time
      /\ V[n].asset_reserve = pool.asset /\ V[n].usdc_reserve = pool.usdc
  BY KeeperTypes, ObservedWindow
<1>3. PICK k \in 0 .. 1 :
        /\ \A i \in 1 .. n - 1 : i + k \in 1 .. Len(W) /\ V[i] = W[i + k]
        /\ n > 1 => Len(W) >= 1 /\ n - 1 + k = Len(W)
  BY KeeperTypes, ObservedWindow
<1>4. /\ UNCHANGED <<ledger, time, pool, feeds>> /\ live' = Extended
      /\ DeepEnough(pool) /\ PoolPrice > 0
  BY DEF Observe
<1>7. /\ \A i \in 1 .. Len(W) :
           /\ W[i].timestamp <= time
           /\ W[i].asset_reserve >= MIN_ASSET_RESERVE
           /\ W[i].usdc_reserve >= MIN_USDC_RESERVE
      /\ Len(W) \in Nat /\ time \in Nat /\ ledger \in Nat /\ live \in Nat
      /\ \A i \in 1 .. Len(W) : W[i].timestamp \in Nat
  BY KeeperTypes DEF KeeperInv
<1> HIDE DEF V, n
<1>8. ASSUME NEW i \in 1 .. n
      PROVE  /\ V[i].timestamp <= time
             /\ V[i].asset_reserve >= MIN_ASSET_RESERVE
             /\ V[i].usdc_reserve >= MIN_USDC_RESERVE
  <2>1. CASE i = n
    BY <1>2, <1>4, <1>7, <2>1 DEF DeepEnough
  <2>2. CASE i # n
    <3>1. i \in 1 .. n - 1
      BY <1>2, <2>2
    <3> QED
      BY <1>3, <1>7, <3>1
  <2> QED
    BY <2>1, <2>2
<1>9. ASSUME outage' = "none" PROVE OnSchedule'
  <2>1. /\ outage = "none" /\ OnTime' /\ passed <= time /\ passed \in Nat
        /\ \A i \in 1 .. Len(W) - 1 : W[i + 1].timestamp - W[i].timestamp <= Interval
    BY <1>9 DEF KeeperInv, OnSchedule, PassInv
  <2>3. ASSUME NEW i \in 1 .. n - 1
        PROVE  V[i + 1].timestamp - V[i].timestamp <= Interval
    <3>1. i \in Nat /\ n \in Nat /\ n > 1
      BY <1>2
    <3>2. i + k \in 1 .. Len(W) /\ V[i] = W[i + k] /\ n - 1 + k = Len(W)
      BY <1>3, <3>1
    <3>3. CASE i = n - 1
      <4>1. i + 1 = n /\ i + k = Len(W) /\ Len(W) >= 1
        BY <1>2, <1>7, <3>2, <3>3
      <4>2. W # <<>> /\ V[i] = LatestOf(W)
        BY <3>2, <4>1 DEF LatestOf
      <4>3. time - LatestOf(W).timestamp <= Interval
        BY <2>1, <4>2, LatestYoung
      <4> QED
        BY <1>2, <4>1, <4>2, <4>3
    <3>4. CASE i # n - 1
      <4>1. i + 1 \in 1 .. n - 1 /\ i + k \in 1 .. Len(W) - 1
            /\ (i + 1) + k = (i + k) + 1
        BY <1>2, <1>3, <1>7, <3>2, <3>4
      <4>2. V[i + 1] = W[(i + 1) + k]
        BY <1>3, <4>1
      <4> QED
        BY <2>1, <3>2, <4>1, <4>2
    <3> QED
      BY <3>3, <3>4
  <2>4. ledger + TTL \div 2 <= Extended
    BY <1>7, PricingAssumption, IntervalNat DEF Extended
  <2>5. /\ passed' - time < MIN_SPACING /\ ledger - ledger <= time - time
        /\ LatestOf(V).timestamp = time /\ LatestOf(V).ledger = ledger
    <3>1. LatestOf(V).timestamp = time /\ LatestOf(V).ledger = ledger
      BY <1>2 DEF LatestOf, n
    <3>2. passed' - time < MIN_SPACING
      <4> DEFINE p == passed'
      <4>1. p <= time /\ p \in Nat /\ time \in Nat
        BY <1>7, <2>1
      <4> HIDE DEF p
      <4>2. p - time < MIN_SPACING
        BY <4>1, IntervalNat
      <4> QED
        BY <4>2 DEF p
    <3> QED
      BY <1>7, <3>1, <3>2
  <2> QED
    BY <1>4, <2>1, <2>3, <2>4, <2>5 DEF OnSchedule, V, n, LatestOf
<1> QED
  BY <1>1, <1>4, <1>8, <1>9 DEF KeeperInv, V, n

LEMMA KeeperCloses ==
    ASSUME KeeperInv, CloseOnSchedule, PassInv',
           outage' = "none" => outage = "none" /\ OnTime'
    PROVE  KeeperInv'
<1>1. PICK duration \in Durations : Close(duration)
  BY DEF CloseOnSchedule
<1>2. duration \in Nat \ {0}
  BY PricingAssumption
<1>3. /\ ledger' = ledger + 1 /\ time' = time + duration
      /\ UNCHANGED <<live, pool, feeds, passed, outage>>
      /\ Window' = Window \/ Window' = <<>>
      /\ live >= ledger' => Window' = Window
  <2>1. UNCHANGED <<passed, outage>>
    BY Zenon DEF CloseOnSchedule, runnerVars
  <2>2. /\ ledger' = ledger + 1 /\ time' = time + duration
        /\ UNCHANGED <<live, pool, feeds>>
    BY <1>1, Zenon DEF Close
  <2>3. IF live >= ledger' THEN UNCHANGED <<completed, pending>>
        ELSE completed' = <<>> /\ pending' = <<>>
    BY <1>1, Zenon DEF Close
  <2>4. CASE live >= ledger'
    <3>1. Window' = Window
      BY <2>3, <2>4 DEF Window
    <3> QED
      BY <2>1, <2>2, <3>1
  <2>5. CASE ~(live >= ledger')
    <3>1. Window' = <<>>
      BY <2>3, <2>5 DEF Window
    <3> QED
      BY <2>1, <2>2, <2>5, <3>1
  <2> QED
    BY <2>4, <2>5
<1>4. WindowInv'
  BY <1>1, WindowStep DEF KeeperInv, Next
<1>6. \A i \in 1 .. Len(Window') :
        /\ Window'[i].timestamp <= time'
        /\ Window'[i].asset_reserve >= MIN_ASSET_RESERVE
        /\ Window'[i].usdc_reserve >= MIN_USDC_RESERVE
  <2>1. CASE Window' = <<>>
    BY <2>1
  <2>2. CASE Window' = Window
    BY <1>2, <1>3, <2>2, KeeperTypes DEF KeeperInv
  <2> QED
    BY <1>3, <2>1, <2>2
<1>7. ASSUME outage' = "none" PROVE OnSchedule'
  <2>1. OnSchedule /\ time \in Nat /\ ledger \in Nat /\ live \in Nat
    BY <1>7, KeeperTypes DEF KeeperInv
  <2>2. OnTime'
    BY <1>7
  <2>3. CASE Window' = <<>>
    BY <2>2, <2>3 DEF OnSchedule
  <2>4. CASE Window' = Window /\ Window # <<>>
    <3> DEFINE t == LatestOf(Window).timestamp
               l == LatestOf(Window).ledger
    <3>1. t \in Nat /\ l \in Nat /\ l <= ledger
      BY <2>4, KeeperTypes DEF LatestOf
    <3>2. /\ passed - t < MIN_SPACING /\ ledger - l <= time - t
          /\ l + TTL \div 2 <= live
      BY <2>1, <2>4 DEF OnSchedule
    <3> HIDE DEF t, l
    <3>3. ledger' - l <= time' - t /\ l # ledger'
      BY <1>2, <1>3, <2>1, <3>1, <3>2
    <3> QED
      BY <1>3, <2>1, <2>2, <2>4, <3>2, <3>3 DEF OnSchedule, t, l
  <2> QED
    BY <1>3, <2>3, <2>4
<1> QED
  BY <1>3, <1>4, <1>6, <1>7 DEF KeeperInv

\* A call that is too early finds a sample of this ledger, or one less than MIN_SPACING old.
LEMMA YoungSubject ==
    ASSUME KeeperInv, outage = "none", Young, Window # <<>>
    PROVE  time - LatestOf(Window).timestamp < MIN_SPACING
<1>1. PICK k \in 0 .. 1 :
        /\ \A i \in 1 .. Len(Samples) :
             i + k \in 1 .. Len(Window) /\ Samples[i] = Window[i + k]
        /\ StillPending = <<>> => Len(Samples) + k = Len(Window)
        /\ StillPending # <<>> => /\ Len(Samples) + k + 1 = Len(Window)
                                  /\ Window[Len(Window)].ledger >= ledger
  BY KeeperTypes, SamplesSlice
<1>2. OnSchedule /\ LatestOf(Window).ledger <= ledger /\ time \in Nat
      /\ LatestOf(Window).ledger \in Nat /\ ledger \in Nat
  BY KeeperTypes DEF KeeperInv, LatestOf
<1>3. StillPending # <<>> \/ TooSoon
  BY DEF Young
<1>4. CASE StillPending # <<>>
  <2>1. LatestOf(Window).ledger = ledger
    BY <1>1, <1>2, <1>4 DEF LatestOf
  <2>2. LatestOf(Window).timestamp = time
    BY <1>2, <2>1 DEF OnSchedule
  <2> QED
    BY <1>2, <2>2, IntervalNat
<1>5. CASE StillPending = <<>> /\ TooSoon
  <2>1. Samples # <<>> /\ time - Last(Samples).timestamp < MIN_SPACING
    BY <1>5 DEF TooSoon
  <2>2. Len(Samples) \in 1 .. Len(Samples)
    BY <2>1, KeeperTypes, SamplesType
  <2>3. Last(Samples) = Window[Len(Samples) + k] /\ Len(Samples) + k = Len(Window)
    BY <1>1, <1>5, <2>2 DEF Last
  <2> QED
    BY <2>1, <2>3 DEF LatestOf
<1> QED
  BY <1>3, <1>4, <1>5

LEMMA ExtendedLater ==
    ASSUME TypeOK PROVE Extended \in Nat /\ Extended >= live
  BY PricingAssumption DEF Extended, TypeOK

\* Steps that leave the window and the clock alone.
LEMMA KeeperQuiet ==
    ASSUME KeeperInv, [Next]_vars, UNCHANGED <<completed, pending, ledger, time>>,
           live' >= live, PassInv',
           outage' = "none" => outage = "none" /\ OnTime',
           outage' = "none" /\ Window # <<>> =>
             passed' - LatestOf(Window).timestamp < MIN_SPACING
    PROVE  KeeperInv'
<1>1. Window' = Window /\ WindowInv' /\ live' \in Nat
  BY WindowStep DEF KeeperInv, Window, WindowInv, TypeOK
<1>2. ASSUME outage' = "none" PROVE OnSchedule'
  <2>1. OnSchedule /\ live \in Nat
    BY <1>2, KeeperTypes DEF KeeperInv
  <2>2. ASSUME Window # <<>>
        PROVE  /\ passed' - LatestOf(Window).timestamp < MIN_SPACING
               /\ LatestOf(Window).ledger + TTL \div 2 <= live'
    <3>1. LatestOf(Window).ledger \in Nat
      BY <2>2, KeeperTypes DEF LatestOf
    <3> QED
      BY <1>1, <1>2, <2>1, <2>2, <3>1, IntervalNat DEF OnSchedule
  <2> QED
    BY <1>1, <1>2, <2>1, <2>2 DEF OnSchedule
<1> QED
  BY <1>1, <1>2 DEF KeeperInv

LEMMA KeeperStep ==
    ASSUME KeeperInv, [KeeperNext]_keeperVars PROVE KeeperInv'
<1>1. TypeOK /\ live \in Nat /\ PassInv'
  BY KeeperTypes, PassStep DEF KeeperInv
<1>2. outage' = "none" => outage = "none" /\ OnTime'
  BY OnTimeStep DEF KeeperInv, OnSchedule
<1>3. ASSUME passed' = passed
      PROVE  outage' = "none" /\ Window # <<>> =>
               passed' - LatestOf(Window).timestamp < MIN_SPACING
  BY <1>2, <1>3 DEF KeeperInv, OnSchedule
<1>4. ASSUME UNCHANGED vars
      PROVE  /\ UNCHANGED <<completed, pending, ledger, time>>
             /\ live' >= live /\ [Next]_vars
  BY <1>1, <1>4 DEF vars
<1>5. CASE CallSubject
  <2>1. CASE Observable
    BY <1>1, <1>2, <1>5, <2>1, KeeperObserves DEF CallSubject
  <2>2. CASE ~Observable
    <3>1. UNCHANGED vars /\ passed' = time /\ (outage' = "none" => Young)
      BY <1>5, <2>2 DEF CallSubject
    <3>2. outage' = "none" /\ Window # <<>> =>
            passed' - LatestOf(Window).timestamp < MIN_SPACING
      BY <1>2, <3>1, YoungSubject
    <3> QED
      BY <1>1, <1>2, <1>4, <3>1, <3>2, KeeperQuiet
  <2> QED
    BY <2>1, <2>2
<1>6. CASE CallEarlier \/ RefusedEarlier \/ Stop \/ UNCHANGED keeperVars
  <2>1. UNCHANGED vars /\ passed' = passed
    BY <1>6 DEF CallEarlier, RefusedEarlier, Stop, keeperVars, runnerVars
  <2> QED
    BY <1>1, <1>2, <1>3, <1>4, <2>1, KeeperQuiet
<1>7. CASE CloseOnSchedule
  BY <1>1, <1>2, <1>7, KeeperCloses
<1>8. CASE Anybody
  <2>1. passed' = passed
    BY <1>8 DEF Anybody, runnerVars
  <2>2. CASE Observe
    BY <1>1, <1>2, <2>1, <2>2, KeeperObserves
  <2>3. CASE \/ Upkeep
             \/ \E reserves \in Reserves : Trade(reserves)
             \/ \E leg \in Legs, value \in Published : Publish(leg, value)
    <3>1. UNCHANGED <<completed, pending, ledger, time>> /\ Next /\ live' >= live
      BY <1>1, <2>3, ExtendedLater DEF Upkeep, Trade, Publish, Next
    <3> QED
      BY <1>1, <1>2, <1>3, <2>1, <3>1, KeeperQuiet
  <2>4. CASE UNCHANGED vars
    BY <1>1, <1>2, <1>3, <1>4, <2>1, <2>4, KeeperQuiet
  <2> QED
    BY <1>8, <2>2, <2>3, <2>4 DEF Anybody
<1> QED
  BY <1>5, <1>6, <1>7, <1>8 DEF KeeperNext, Call

LEMMA KeeperStart == ASSUME KeeperInit PROVE KeeperInv
<1>1. WindowInv /\ Window = <<>>
  BY TypeInit DEF KeeperInit, Init, WindowInv, WindowInOrder, Window
<1>2. PassInv
  BY PassStart
<1>3. OnTime
  <2>1. next = 1 /\ started = InitialTime /\ passed = InitialTime /\ time = InitialTime
    BY DEF KeeperInit, Init
  <2> QED
    BY <2>1, PricingAssumption, ScheduleNat DEF OnTime
<1>4. OnSchedule
  BY <1>1, <1>3 DEF OnSchedule
<1> QED
  BY <1>1, <1>2, <1>4 DEF KeeperInv

-----------------------------------------------------------------------------
(* What the schedule gives the mark.                                       *)

\* Three samples collected on schedule are always a usable window.
LEMMA KeptUsable ==
    ASSUME KeeperInv, outage = "none", Len(Samples) = 3 PROVE Usable
<1> DEFINE s == Samples
<1>1. PICK k \in 0 .. 1 :
        /\ \A i \in 1 .. Len(Samples) :
             i + k \in 1 .. Len(Window) /\ Samples[i] = Window[i + k]
        /\ StillPending = <<>> => Len(Samples) + k = Len(Window)
        /\ StillPending # <<>> => /\ Len(Samples) + k + 1 = Len(Window)
                                  /\ Window[Len(Window)].ledger >= ledger
  BY KeeperTypes, SamplesSlice
<1>2. /\ TypeOK /\ time \in Nat /\ ledger \in Nat /\ OnSchedule
      /\ Len(Window) \in Nat
      /\ \A i \in 1 .. Len(Window) :
           /\ Window[i] \in Observation
           /\ Window[i].timestamp \in Nat /\ Window[i].timestamp <= time
           /\ Window[i].ledger \in Nat /\ Window[i].ledger <= ledger
           /\ Window[i].asset_reserve >= MIN_ASSET_RESERVE
           /\ Window[i].usdc_reserve >= MIN_USDC_RESERVE
  BY KeeperTypes DEF KeeperInv
<1>3. \A i \in 1 .. 3 : /\ s[i] = Window[i + k] /\ i + k \in 1 .. Len(Window)
                        /\ s[i].ledger < ledger
  BY <1>1, SamplesEarlier DEF KeeperInv
<1> HIDE DEF s
<1>4. /\ Consecutive(s[1], s[2]) /\ Consecutive(s[2], s[3])
      /\ s[2].timestamp - s[1].timestamp <= Interval
      /\ s[3].timestamp - s[2].timestamp <= Interval
  <2>1. \A i \in 1 .. Len(Window) - 1 :
           /\ Consecutive(Window[i], Window[i + 1])
           /\ Window[i + 1].timestamp - Window[i].timestamp <= Interval
    BY <1>2 DEF KeeperInv, WindowInv, WindowInOrder, OnSchedule, Window
  <2>2. /\ s[1] = Window[1 + k] /\ s[2] = Window[(1 + k) + 1]
        /\ s[2] = Window[2 + k] /\ s[3] = Window[(2 + k) + 1]
        /\ 1 + k \in 1 .. Len(Window) - 1 /\ 2 + k \in 1 .. Len(Window) - 1
    <3>1. 3 + k \in 1 .. Len(Window) /\ (1 + k) + 1 = 2 + k /\ (2 + k) + 1 = 3 + k
      BY <1>3
    <3> QED
      BY <1>2, <1>3, <3>1
  <2> QED
    BY <2>1, <2>2
<1>5. time - s[3].timestamp <= Interval
  <2>1. 3 + k \in 1 .. Len(Window) /\ s[3] = Window[3 + k]
    BY <1>3
  <2>2. Window # <<>> /\ Len(Window) \in 1 .. Len(Window)
    BY <1>2, <2>1
  <2>3. CASE StillPending = <<>>
    <3>1. LatestOf(Window) = s[3]
      BY <1>1, <2>1, <2>3 DEF LatestOf
    <3> QED
      BY <2>2, <3>1, LatestYoung
  <2>4. CASE StillPending # <<>>
    <3>1. (3 + k) + 1 = Len(Window) /\ 3 + k \in 1 .. Len(Window) - 1
      BY <1>1, <1>2, <2>1, <2>4
    <3>2. LatestOf(Window).ledger = ledger
      BY <1>1, <1>2, <2>2, <2>4 DEF LatestOf
    <3>3. LatestOf(Window).timestamp = time
      BY <1>2, <2>2, <3>2 DEF OnSchedule
    <3>4. Window[(3 + k) + 1].timestamp - Window[3 + k].timestamp <= Interval
      BY <1>2, <3>1 DEF OnSchedule
    <3> QED
      BY <2>1, <3>1, <3>3, <3>4 DEF LatestOf
  <2> QED
    BY <2>3, <2>4
<1> DEFINE a == s[1].timestamp
           b == s[2].timestamp
           c == s[3].timestamp
<1>6. /\ a \in Nat /\ b \in Nat /\ c \in Nat
      /\ a <= time /\ b <= time /\ c <= time
  <2>1. \A i \in 1 .. 3 : s[i].timestamp \in Nat /\ s[i].timestamp <= time
    BY <1>2, <1>3
  <2>2. 1 \in 1 .. 3 /\ 2 \in 1 .. 3 /\ 3 \in 1 .. 3
    OBVIOUS
  <2> QED
    BY <2>1, <2>2
<1>7. /\ time - a <= 3 * Interval /\ time - b <= 3 * Interval
      /\ time - c <= Interval
  <2>1. b - a <= Interval /\ c - b <= Interval /\ time - c <= Interval
    BY <1>4, <1>5
  <2> HIDE DEF a, b, c
  <2> QED
    BY <1>2, <1>6, <2>1, IntervalNat
<1>8. WindowUsable(Samples)
  <2>1. \A i \in 1 .. 3 : SampleUsable(s[i])
    <3> SUFFICES ASSUME NEW i \in 1 .. 3 PROVE SampleUsable(s[i])
      OBVIOUS
    <3>1. Fresh(s[i].timestamp, MAX_AGE)
      <4>1. /\ s[i].timestamp \in Nat /\ s[i].timestamp <= time
            /\ time - s[i].timestamp <= 3 * Interval
        <5>1. i = 1 \/ i = 2 \/ i = 3
          OBVIOUS
        <5>2. CASE i = 1
          BY <1>6, <1>7, <5>2
        <5>3. CASE i = 2
          BY <1>6, <1>7, <5>3
        <5>4. CASE i = 3
          <6>1. c \in Nat /\ c <= time /\ time - c <= 3 * Interval
            <7> HIDE DEF a, b, c
            <7> QED
              BY <1>2, <1>6, <1>7, IntervalNat
          <6> QED
            BY <5>4, <6>1
        <5> QED
          BY <5>1, <5>2, <5>3, <5>4
      <4> QED
        BY <1>2, <4>1, IntervalNat, PricingAssumption DEF Fresh
    <3>2. s[i] \in Observation
      BY <1>2, <1>3
    <3>3. s[i].price > 0
      BY <3>2 DEF Observation
    <3> QED
      BY <1>2, <1>3, <3>1, <3>3 DEF SampleUsable
  <2>2. Fresh(s[3].timestamp, MAX_GAP)
    <3>1. Fresh(c, MAX_GAP)
      <4> HIDE DEF a, b, c
      <4> QED
        BY <1>2, <1>6, <1>7, IntervalNat, PricingAssumption DEF Fresh
    <3> QED
      BY <3>1
  <2> QED
    BY <1>4, <2>1, <2>2 DEF WindowUsable, s
<1>9. ASSUME FeedsUsable, NEW t \in Stamps(Samples), NEW u \in Stamps(Samples)
      PROVE  t - u <= MAX_SKEW
  <2>1. ASSUME NEW x \in Stamps(Samples)
        PROVE  x \in Int /\ x <= time /\ time - x <= MAX_SKEW
    <3>1. CASE x \in {s[i].timestamp : i \in 1 .. 3}
      <4>1. x = a \/ x = b \/ x = c
        BY <3>1
      <4> HIDE DEF a, b, c
      <4> QED
        BY <1>2, <1>6, <1>7, <4>1, IntervalNat, PricingAssumption
    <3>2. CASE x \in {feeds[leg].timestamp : leg \in Legs}
      <4>1. PICK leg \in Legs : x = feeds[leg].timestamp
        BY <3>2
      <4>2. feeds[leg] \in [price : Nat, timestamp : Nat]
        BY <1>2, <1>9 DEF FeedsUsable, TypeOK
      <4>3. x \in Nat
        BY <4>1, <4>2
      <4>4. x <= time /\ time - x <= FEED_MAX_AGE
        BY <1>9, <4>1 DEF FeedsUsable, Fresh
      <4> QED
        BY <1>2, <4>3, <4>4, IntervalNat, PricingAssumption
    <3> QED
      BY <3>1, <3>2 DEF Stamps, s
  <2>2. t \in Int /\ t <= time /\ u \in Int /\ time - u <= MAX_SKEW
    BY <2>1
  <2> QED
    BY <1>2, <2>2, PricingAssumption
<1> QED
  BY <1>8, <1>9 DEF Usable

\* On schedule no step loses one of three samples.
LEMMA SamplesStay ==
    ASSUME KeeperInv, [KeeperNext]_keeperVars, outage' = "none", Usable
    PROVE  Len(Samples') = 3
<1>1. /\ TypeOK /\ Len(Samples) = 3 /\ WindowUsable(Samples)
  BY KeeperTypes DEF Usable, WindowUsable
<1>2. outage = "none"
  BY OnTimeStep DEF KeeperInv, OnSchedule
<1>3. CASE Observe
  <2>1. Samples' = Samples
    BY <1>1, <1>3, OverdueUnusable, ObservedSamples
  <2> QED
    BY <1>1, <2>1
<1>4. CASE UNCHANGED <<completed, pending, ledger>>
  <2>1. Samples' = Samples
    BY <1>4 DEF Samples, Promoting
  <2> QED
    BY <1>1, <2>1
<1>5. CASE CloseOnSchedule
  <2>1. PICK duration \in Durations : Close(duration)
    BY <1>5 DEF CloseOnSchedule
  <2>2. /\ duration \in Nat \ {0} /\ ledger \in Nat /\ time \in Nat /\ live \in Nat
        /\ passed \in Nat /\ time + duration - passed <= PERIOD + PASS
    <3>1. OnTime' /\ PassInv'
      BY OnTimeStep, PassStep DEF KeeperInv, OnSchedule
    <3>2. time' - passed' <= PERIOD + PASS
      <4> DEFINE t == time'
                 b == started'
                 p == passed'
      <4>1. t \in Nat /\ b \in Nat /\ p \in Nat /\ p <= t
        BY <3>1 DEF PassInv
      <4>2. \/ b <= p /\ t - b <= PERIOD
            \/ b - p <= PERIOD /\ t - b <= PASS
        BY <3>1 DEF OnTime
      <4> HIDE DEF t, b, p
      <4>3. t - p <= PERIOD + PASS
        BY <4>1, <4>2, ScheduleNat
      <4> QED
        BY <4>3 DEF t, p
    <3>3. time' = time + duration /\ passed' = passed
      BY <1>5, <2>1 DEF Close, CloseOnSchedule, runnerVars
    <3> QED
      BY <3>2, <3>3, KeeperTypes, PricingAssumption DEF KeeperInv, PassInv
  <2>3. Window # <<>>
    <3>1. Samples # <<>>
      BY <1>1
    <3>2. completed # <<>> \/ pending # <<>>
      BY <3>1 DEF Samples, Promoting
    <3>3. Len(Window) = Len(completed) + Len(pending)
      BY <1>1, WindowType DEF Window, TypeOK
    <3> QED
      BY <1>1, <3>2, <3>3 DEF TypeOK
  <2>4. live >= ledger'
    <3> DEFINE t == LatestOf(Window).timestamp
               l == LatestOf(Window).ledger
    <3>1. t \in Nat /\ l \in Nat
      BY <2>3, KeeperTypes DEF LatestOf
    <3>2. /\ passed - t < MIN_SPACING /\ ledger - l <= time - t
          /\ l + TTL \div 2 <= live
      BY <1>2, <2>3 DEF KeeperInv, OnSchedule
    <3>3. ledger' = ledger + 1
      BY <2>1 DEF Close
    <3> HIDE DEF t, l
    <3> QED
      BY <2>1, <2>2, <3>1, <3>2, <3>3, IntervalNat
  <2>5. UNCHANGED <<completed, pending>> /\ ledger' = ledger + 1
    BY <2>1, <2>4 DEF Close
  <2>6. CASE Promoting
    <3>1. Promoting'
      <4>1. pending # <<>> /\ pending[1] \in Observation /\ pending[1].ledger < ledger
        BY <1>1, <2>6 DEF Promoting, TypeOK
      <4>2. pending[1].ledger \in Nat
        BY <4>1 DEF Observation
      <4> QED
        BY <2>2, <2>5, <4>1, <4>2 DEF Promoting
    <3>2. Samples' = Samples
      BY <2>5, <2>6, <3>1 DEF Samples
    <3> QED
      BY <1>1, <3>2
  <2>7. CASE ~Promoting
    <3>1. completed \in Seq(Observation) /\ Len(completed) = 3
      BY <1>1, <2>7 DEF Samples, TypeOK
    <3>2. CASE ~Promoting'
      BY <2>5, <3>1, <3>2 DEF Samples
    <3>3. CASE Promoting'
      <4>1. pending # <<>> /\ pending[1] \in Observation
        BY <1>1, <2>5, <3>3 DEF Promoting, TypeOK
      <4>2. Tail(completed) \in Seq(Observation) /\ Len(Tail(completed)) = 2
        <5>1. completed # <<>>
          BY <3>1
        <5>2. /\ Tail(completed) \in Seq(Observation)
              /\ Len(Tail(completed)) = Len(completed) - 1
          BY <3>1, <5>1, HeadTailProperties
        <5> QED
          BY <3>1, <5>2
      <4>3. Samples' = Append(Tail(completed), pending[1])
        BY <2>5, <3>1, <3>3 DEF Samples
      <4> QED
        BY <4>1, <4>2, <4>3, AppendProperties
    <3> QED
      BY <3>2, <3>3
  <2> QED
    BY <2>6, <2>7
<1>6. Observe \/ CloseOnSchedule \/ UNCHANGED <<completed, pending, ledger>>
  BY DEF KeeperNext, Call, CallEarlier, RefusedEarlier, CallSubject, Stop,
         Anybody, Upkeep, Trade, Publish, keeperVars, vars
<1> QED
  BY <1>3, <1>4, <1>5, <1>6

\* As long as every pass reaches the source and finds its pool deep enough, a
\* usable window stays usable, whoever else observes, trades or extends the
\* entry, and whenever (pricing lib.rs observe, scripts/d3-observe.py).
THEOREM WindowStaysUsable == KeeperSpec => StaysUsable
<1> DEFINE Kept == KeeperInv /\ outage = "none" /\ Len(Samples) = 3
<1>1. KeeperInit => KeeperInv
  BY KeeperStart
<1>2. KeeperInv /\ [KeeperNext]_keeperVars => KeeperInv'
  BY KeeperStep
<1>3. Kept => Usable
  BY KeptUsable
<1>4. KeeperInv /\ [KeeperNext]_keeperVars /\ outage' = "none" /\ Usable => Kept'
  BY KeeperStep, SamplesStay
<1> HIDE DEF Kept
<1> QED
  BY <1>1, <1>2, <1>3, <1>4, PTL DEF KeeperSpec, StaysUsable

=============================================================================
