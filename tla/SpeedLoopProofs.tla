-------------------------- MODULE SpeedLoopProofs --------------------------
(***************************************************************************)
(* What holds of the timing loop for every number of repetitions, every    *)
(* minimum time, every limit and every behaviour of the clock.             *)
(***************************************************************************)
EXTENDS SpeedLoop, TLAPS

\* Nobody has set the clock forward so far.
OnlySetBack == ~advanced

\* The measuring loop has refilled exactly the slots below k.
MeasuringInv ==
    pc \in {"start", "doit", "stop"} =>
        /\ k < TimeRepeat
        /\ tmin = BigTime
        /\ \A s \in Slots : s \in fresh <=> s < k

\* The scan reads slots that are all fresh, and tmin bounds those below k.
ScanInv ==
    pc \in {"scan", "reported"} =>
        /\ \A s \in Slots : s \in fresh
        /\ \A s \in Slots : s < k => tmin <= t[s]

\* A fresh slot was timed with the present iteration count.
FreshInv == \A s \in fresh : taken[s].iter = iter

\* What was handed to report() is the array the scan accepted.
ReportInv ==
    pc = "reported" => /\ k = TimeRepeat
                       /\ tmin >= TimeMin
                       /\ reported = [elapsed |-> t, iter |-> iter]

\* A clock that is only set back never shows more time than really passed.
ClockInv ==
    OnlySetBack => /\ pc = "doit" => since <= 0
                   /\ pc = "stop" => since <= run
                   /\ \A s \in fresh : t[s] <= taken[s].len

\* The minimum of the scan is one of the timings of this round, unless none was
\* below the 1.0e20 it began with.
WitnessInv == pc = "scan" => tmin = BigTime \/ \E s \in Slots : tmin = t[s]

IInv == /\ TypeOK /\ MeasuringInv /\ ScanInv /\ FreshInv /\ ReportInv /\ ClockInv
        /\ WitnessInv

-----------------------------------------------------------------------------
\* The length of a call of doit is a natural number whatever iter is.
LEMMA DurationsNat ==
    ASSUME cost \in Nat, NEW i \in Nat PROVE Durations(i) \subseteq Nat
<1>1. i * cost \in Nat OBVIOUS
<1>2. QED BY <1>1, EnvAssumption DEF Durations

\* speed() begins in the invariant: no slot is fresh, nothing is reported.
LEMMA InitInv == Init => IInv
<1> SUFFICES ASSUME Init PROVE IInv
  OBVIOUS
<1>1. TypeOK
  <2>1. t \in [Slots -> Int] BY EnvAssumption DEF Init
  <2>2. taken \in [Slots -> [iter : Nat, len : Nat]]
    BY DEF Init, NotTaken
  <2>3. reported \in [elapsed : [Slots -> Int], iter : Nat]
    BY DEF Init, NoBatch
  <2>4. advanced \in BOOLEAN BY Zenon DEF Init
  <2>5. steps \in 0 .. MaxSteps /\ cost \in Nat
    BY EnvAssumption DEF Init
  <2>6. /\ iter \in 1 .. IterLimit - 1 /\ k \in 0 .. TimeRepeat
        /\ tmin \in Int /\ since \in Int /\ setupTime \in Int /\ run \in Nat
    BY TimeAssumption, IterAssumption DEF Init
  <2>7. pc = "setup" /\ fresh \subseteq Slots BY DEF Init
  <2>8. QED
    BY <2>1, <2>2, <2>3, <2>4, <2>5, <2>6, <2>7, Zenon DEF TypeOK
<1>2. MeasuringInv /\ ScanInv /\ FreshInv /\ ReportInv /\ ClockInv /\ WitnessInv
  BY DEF Init, MeasuringInv, ScanInv, FreshInv, ReportInv, ClockInv, WitnessInv
<1>3. QED BY <1>1, <1>2 DEF IInv

\* Each statement keeps the types: the measuring loop stores inside the array
\* because it runs only while k < time_repeat, and doubling stops at the limit.
LEMMA TypeStep == TypeOK /\ MeasuringInv /\ [Next]_vars => TypeOK'
<1> SUFFICES ASSUME TypeOK, MeasuringInv, [Next]_vars PROVE TypeOK'
  OBVIOUS
<1> USE TimeAssumption, IterAssumption, EnvAssumption DEF TypeOK, clock
<1>1. CASE Setup BY <1>1 DEF Setup, code, history
<1>2. CASE SetupStop BY <1>2 DEF SetupStop, BeginRound
<1>3. CASE TimerStart BY <1>3 DEF TimerStart, code, history
<1>4. CASE Doit
  <2>1. PICK d \in Durations(iter) : since' = since + d /\ run' = d
    BY <1>4 DEF Doit
  <2>2. d \in Nat BY <2>1, DurationsNat
  <2>3. QED BY <1>4, <2>1, <2>2 DEF Doit, code
<1>5. CASE TimerStop
  <2>1. k \in Slots BY <1>5 DEF TimerStop, MeasuringInv, Slots
  <2>2. t' \in [Slots -> Int] BY <1>5 DEF TimerStop
  <2>3. [iter |-> iter, len |-> run] \in [iter : Nat, len : Nat] OBVIOUS
  <2>4. taken' \in [Slots -> [iter : Nat, len : Nat]]
    BY <1>5, <2>3 DEF TimerStop
  <2>5. fresh' \subseteq Slots BY <1>5, <2>1 DEF TimerStop
  <2>6. k' \in 0 .. TimeRepeat /\ pc' \in {"start", "scan"}
    BY <1>5 DEF TimerStop
  <2>7. QED BY <1>5, <2>2, <2>4, <2>5, <2>6 DEF TimerStop
<1>6. CASE StartOverNegative BY <1>6 DEF StartOverNegative, BeginRound
<1>7. CASE Scan
  <2>1. k \in Slots BY <1>7 DEF Scan, Slots
  <2>2. tmin' \in Int /\ k' \in 0 .. TimeRepeat BY <1>7, <2>1 DEF Scan
  <2>3. QED BY <1>7, <2>2 DEF Scan, history
<1>8. CASE Accept
  <2>1. reported' \in [elapsed : [Slots -> Int], iter : Nat]
    BY <1>8 DEF Accept
  <2>2. QED BY <1>8, <2>1 DEF Accept, code, history
<1>9. CASE Double BY <1>9 DEF Double, BeginRound
<1>10. CASE StartOverLimit BY <1>10 DEF StartOverLimit, BeginRound
<1>11. CASE StepClock BY <1>11 DEF StepClock, code, history
<1>12. CASE UNCHANGED vars BY <1>12 DEF vars
<1>13. QED
  BY <1>1, <1>2, <1>3, <1>4, <1>5, <1>6, <1>7, <1>8, <1>9, <1>10, <1>11,
     <1>12 DEF Next, Program, Finished

\* What TimerStop does to the two arrays, slot by slot.
LEMMA StoreSlot ==
    ASSUME TypeOK, TimerStop
    PROVE  \A s \in Slots : /\ t'[s] = IF s = k THEN since ELSE t[s]
                            /\ taken'[s] = IF s = k
                                           THEN [iter |-> iter, len |-> run]
                                           ELSE taken[s]
BY DEF TypeOK, TimerStop

\* The loop refills the slots in order, so the scan finds all of them fresh.
LEMMA FreshStep ==
    TypeOK /\ MeasuringInv /\ ScanInv /\ FreshInv /\ [Next]_vars
        => MeasuringInv' /\ FreshInv'
           /\ (pc' \in {"scan", "reported"} => \A s \in Slots : s \in fresh')
<1> SUFFICES ASSUME TypeOK, MeasuringInv, ScanInv, FreshInv, [Next]_vars
             PROVE  /\ MeasuringInv' /\ FreshInv'
                    /\ pc' \in {"scan", "reported"} =>
                         \A s \in Slots : s \in fresh'
  OBVIOUS
<1> USE TimeAssumption DEF MeasuringInv, FreshInv, ScanInv
<1>1. CASE Setup BY <1>1 DEF Setup, code, history
<1>2. CASE SetupStop BY <1>2 DEF SetupStop, BeginRound, Slots
<1>3. CASE TimerStart BY <1>3 DEF TimerStart, code, history
<1>4. CASE Doit BY <1>4 DEF Doit, code
<1>5. CASE TimerStop
  <2>1. /\ k < TimeRepeat /\ tmin = BigTime /\ k \in Int
        /\ \A s \in Slots : s \in fresh <=> s < k
    BY <1>5 DEF TimerStop, TypeOK
  <2>2. \A s \in Slots : s < k + 1 <=> (s < k \/ s = k)
    BY <2>1 DEF Slots
  <2>3. fresh' = fresh \cup {k} BY <1>5 DEF TimerStop
  <2>4. \A s \in Slots : s \in fresh' <=> s < k + 1
    BY <2>1, <2>2, <2>3
  <2>5. MeasuringInv' BY <1>5, <2>1, <2>4 DEF TimerStop
  <2>6. FreshInv'
    <3>1. \A s \in fresh' : taken'[s].iter = iter
      <4> SUFFICES ASSUME NEW s \in fresh' PROVE taken'[s].iter = iter
        OBVIOUS
      <4>1. s \in Slots /\ (s = k \/ s \in fresh)
        BY <2>1, <2>3 DEF TypeOK, Slots
      <4>2. taken'[s] = IF s = k THEN [iter |-> iter, len |-> run]
                                 ELSE taken[s]
        BY <1>5, <4>1, StoreSlot
      <4>3. QED BY <4>1, <4>2
    <3>2. QED BY <1>5, <3>1 DEF TimerStop
  <2>7. pc' = "scan" => \A s \in Slots : s \in fresh'
    BY <1>5, <2>1, <2>4 DEF TimerStop, Slots
  <2>8. pc' \in {"start", "scan"} BY <1>5 DEF TimerStop
  <2>9. QED BY <2>5, <2>6, <2>7, <2>8
<1>6. CASE StartOverNegative
  BY <1>6 DEF StartOverNegative, BeginRound, Slots
<1>7. CASE Scan BY <1>7 DEF Scan, history
<1>8. CASE Accept BY <1>8 DEF Accept, ScanDone, code, history
<1>9. CASE Double BY <1>9 DEF Double, BeginRound, Slots
<1>10. CASE StartOverLimit BY <1>10 DEF StartOverLimit, BeginRound, Slots
<1>11. CASE StepClock BY <1>11 DEF StepClock, code, history
<1>12. CASE UNCHANGED vars BY <1>12 DEF vars
<1>13. QED
  BY <1>1, <1>2, <1>3, <1>4, <1>5, <1>6, <1>7, <1>8, <1>9, <1>10, <1>11,
     <1>12 DEF Next, Program, Finished

\* The scan keeps tmin below every slot it has passed, and what is accepted
\* then is what is reported.
LEMMA MinimumStep ==
    TypeOK /\ MeasuringInv /\ ScanInv /\ ReportInv /\ [Next]_vars
        => ReportInv'
           /\ (pc' \in {"scan", "reported"} =>
                 \A s \in Slots : s < k' => tmin' <= t'[s])
<1> SUFFICES ASSUME TypeOK, MeasuringInv, ScanInv, ReportInv, [Next]_vars
             PROVE  /\ ReportInv'
                    /\ pc' \in {"scan", "reported"} =>
                         \A s \in Slots : s < k' => tmin' <= t'[s]
  OBVIOUS
<1> USE DEF ScanInv, ReportInv
<1>1. CASE Setup BY <1>1 DEF Setup
<1>2. CASE SetupStop BY <1>2 DEF SetupStop, BeginRound
<1>3. CASE TimerStart BY <1>3 DEF TimerStart
<1>4. CASE Doit BY <1>4 DEF Doit
<1>5. CASE TimerStop
  BY <1>5 DEF TimerStop, Slots
<1>6. CASE StartOverNegative BY <1>6 DEF StartOverNegative, BeginRound
<1>7. CASE Scan
  <2>1. \A s \in Slots : s < k + 1 => s < k \/ s = k
    BY DEF Slots, TypeOK
  <2>2. \A s \in Slots : t[s] \in Int BY DEF TypeOK
  <2>3. k \in Slots BY <1>7, TimeAssumption DEF Scan, TypeOK, Slots
  <2>4. tmin' <= tmin /\ tmin' <= t[k] /\ tmin' \in Int
    BY <1>7, <2>2, <2>3 DEF Scan, TypeOK
  <2>5. \A s \in Slots : s < k + 1 => tmin' <= t[s]
    BY <1>7, <2>1, <2>2, <2>4 DEF Scan, TypeOK
  <2>6. QED BY <1>7, <2>5 DEF Scan
<1>8. CASE Accept BY <1>8 DEF Accept, ScanDone, LongEnough, code
<1>9. CASE Double BY <1>9 DEF Double, BeginRound
<1>10. CASE StartOverLimit BY <1>10 DEF StartOverLimit, BeginRound
<1>11. CASE StepClock BY <1>11 DEF StepClock, code
<1>12. CASE UNCHANGED vars BY <1>12 DEF vars
<1>13. QED
  BY <1>1, <1>2, <1>3, <1>4, <1>5, <1>6, <1>7, <1>8, <1>9, <1>10, <1>11,
     <1>12 DEF Next, Program, Finished

\* Only doit makes the interval longer, by what it really takes; a change of
\* the clock only makes it shorter.
LEMMA ClockStep ==
    TypeOK /\ MeasuringInv /\ ClockInv /\ [Next]_vars => ClockInv'
<1> SUFFICES ASSUME TypeOK, MeasuringInv, ClockInv, [Next]_vars, OnlySetBack'
             PROVE  ClockInv'
  BY DEF ClockInv
<1>0. OnlySetBack
  BY DEF OnlySetBack, Next, Program, Finished, vars, clock, Setup, SetupStop,
         TimerStart, Doit, TimerStop, StartOverNegative, Scan, Accept, Double,
         StartOverLimit, StepClock, TypeOK
<1> USE <1>0 DEF ClockInv
<1>1. CASE Setup BY <1>1 DEF Setup, code, history
<1>2. CASE SetupStop BY <1>2 DEF SetupStop, BeginRound
<1>3. CASE TimerStart BY <1>3 DEF TimerStart, code, history
<1>4. CASE Doit
  <2>1. PICK d \in Durations(iter) : since' = since + d /\ run' = d
    BY <1>4 DEF Doit
  <2>2. d \in Nat BY <2>1, DurationsNat, IterAssumption DEF TypeOK
  <2>3. since' <= run' BY <1>4, <2>1, <2>2 DEF Doit, TypeOK
  <2>4. QED BY <1>4, <2>3 DEF Doit, code
<1>5. CASE TimerStop
  <2>1. \A s \in fresh' : t'[s] <= taken'[s].len
    <3> SUFFICES ASSUME NEW s \in fresh' PROVE t'[s] <= taken'[s].len
      OBVIOUS
    <3>1. s \in Slots BY <1>5, TypeStep DEF TypeOK
    <3>2. CASE s = k
      BY <1>5, <3>1, <3>2, StoreSlot DEF TimerStop
    <3>3. CASE s # k
      BY <1>5, <3>1, <3>3, StoreSlot DEF TimerStop
    <3>4. QED BY <3>2, <3>3
  <2>2. pc' \in {"start", "scan"} BY <1>5 DEF TimerStop
  <2>3. QED BY <2>1, <2>2
<1>6. CASE StartOverNegative BY <1>6 DEF StartOverNegative, BeginRound
<1>7. CASE Scan BY <1>7 DEF Scan, history
<1>8. CASE Accept BY <1>8 DEF Accept, code, history
<1>9. CASE Double BY <1>9 DEF Double, BeginRound
<1>10. CASE StartOverLimit BY <1>10 DEF StartOverLimit, BeginRound
<1>11. CASE StepClock
  <2>1. PICK c \in ClockSteps :
            since' = since + c /\ advanced' = (advanced \/ c > 0)
    BY <1>11 DEF StepClock
  <2>2. since' <= since
    <3>1. ~(c > 0) BY <2>1, Zenon DEF OnlySetBack
    <3>2. c \in Int BY EnvAssumption
    <3>3. QED BY <2>1, <3>1, <3>2 DEF TypeOK
  <2>3. since' \in Int BY <2>1, EnvAssumption DEF TypeOK
  <2>4. QED BY <1>11, <2>2, <2>3 DEF StepClock, code, history, TypeOK
<1>12. CASE UNCHANGED vars BY <1>12 DEF vars
<1>13. QED
  BY <1>1, <1>2, <1>3, <1>4, <1>5, <1>6, <1>7, <1>8, <1>9, <1>10, <1>11,
     <1>12 DEF Next, Program, Finished

\* The scan begins with the minimum that BeginRound set, and each iteration
\* leaves it or takes the timing it has read.
LEMMA WitnessStep ==
    TypeOK /\ MeasuringInv /\ WitnessInv /\ [Next]_vars => WitnessInv'
<1> SUFFICES ASSUME TypeOK, MeasuringInv, WitnessInv, [Next]_vars, pc' = "scan"
             PROVE  tmin' = BigTime \/ \E s \in Slots : tmin' = t'[s]
  BY DEF WitnessInv
<1>1. CASE TimerStop BY <1>1 DEF TimerStop, MeasuringInv
<1>2. CASE Scan
  <2>1. k \in Slots BY <1>2, TimeAssumption DEF Scan, TypeOK, Slots
  <2>2. CASE t[k] < tmin BY <1>2, <2>1, <2>2 DEF Scan
  <2>3. CASE ~(t[k] < tmin) BY <1>2, <2>3 DEF Scan, WitnessInv
  <2>4. QED BY <2>2, <2>3
<1>3. CASE UNCHANGED vars BY <1>3 DEF vars, WitnessInv
<1>4. CASE ~(TimerStop \/ Scan \/ UNCHANGED vars)
  BY <1>4 DEF Next, Program, Finished, Setup, SetupStop, TimerStart, Doit,
              StartOverNegative, Accept, Double, StartOverLimit, StepClock, BeginRound
<1>5. QED BY <1>1, <1>2, <1>3, <1>4

\* Every statement of the timing loop, every change of the clock, and doing
\* nothing keep the invariant.
LEMMA NextInv == IInv /\ [Next]_vars => IInv'
<1> SUFFICES ASSUME IInv, [Next]_vars PROVE IInv'
  OBVIOUS
<1>1. TypeOK' BY TypeStep DEF IInv
<1>2. MeasuringInv' /\ FreshInv' BY FreshStep DEF IInv
<1>3. ReportInv' BY MinimumStep DEF IInv
<1>4. ScanInv' BY FreshStep, MinimumStep DEF IInv, ScanInv
<1>5. ClockInv' BY ClockStep DEF IInv
<1>6. WitnessInv' BY WitnessStep DEF IInv
<1>7. QED BY <1>1, <1>2, <1>3, <1>4, <1>5, <1>6 DEF IInv

\* The inductive invariant holds throughout speed().
THEOREM InvariantHolds == Spec => []IInv
<1>1. QED BY InitInv, NextInv, PTL DEF Spec

-----------------------------------------------------------------------------
\* Every variable of the timing loop keeps its type; in particular iter stays
\* below the limit, so doubling it never overflows.
THEOREM TypeCorrect == Spec => []TypeOK
<1>1. IInv => TypeOK BY DEF IInv
<1>2. QED BY <1>1, InvariantHolds, PTL

\* For every number of repetitions, the scan and the report only ever read
\* timings that this round stored with this round's iteration count.
THEOREM NeverStale == Spec => []NoStaleTimes
<1>1. IInv => NoStaleTimes BY DEF IInv, ScanInv, FreshInv, NoStaleTimes
<1>2. QED BY <1>1, InvariantHolds, PTL

\* For every value of the constants, a reported batch was measured with one
\* iteration count below the limit and has no timing below time_min.
THEOREM ReportIsSound == Spec => []ReportedBatchSound
<1>1. IInv => ReportedBatchSound
  BY TimeAssumption
     DEF IInv, TypeOK, ScanInv, FreshInv, ReportInv, ReportedBatchSound, Slots
<1>2. QED BY <1>1, InvariantHolds, PTL

\* Whatever the constants are, a reported timing ran for at least time_min as
\* long as the clock has only been set back.
THEOREM ReportIsLong == Spec => []ReportedRunsAreLong
<1>1. IInv => ReportedRunsAreLong
  BY TimeAssumption
     DEF IInv, TypeOK, ScanInv, ReportInv, ClockInv, ReportedRunsAreLong,
         OnlySetBack, Slots
<1>2. QED BY <1>1, InvariantHolds, PTL

\* For every number of repetitions, an iteration count is given up only when a
\* timing taken with it is shorter than time_min: the minimum that decides is
\* one of them, and the negative one that starts over is shorter than any.
THEOREM GivesUpOnlyWhenShort == Spec => LeavesRoundOnlyWhenShort
<1>1. ASSUME IInv, [Next]_vars, pc = "scan", pc' = "start"
      PROVE  \E s \in Slots : t[s] < TimeMin
  <2> USE <1>1
  <2>1. CASE StartOverNegative
    <3>1. k \in Slots BY <2>1, TimeAssumption DEF StartOverNegative, IInv, TypeOK, Slots
    <3>2. t[k] \in Int /\ t[k] < 0
      BY <2>1, <3>1 DEF StartOverNegative, IInv, TypeOK
    <3>3. QED BY <3>1, <3>2, TimeAssumption
  <2>2. CASE ScanDone /\ ~LongEnough
    <3>1. tmin # BigTime BY <2>2, TimeAssumption DEF LongEnough, IInv, TypeOK
    <3>2. PICK s \in Slots : tmin = t[s] BY <3>1 DEF IInv, WitnessInv
    <3>3. QED BY <2>2, <3>2, TimeAssumption DEF LongEnough, IInv, TypeOK
  <2>3. StartOverNegative \/ (ScanDone /\ ~LongEnough)
    BY DEF Next, Program, Finished, vars, Setup, SetupStop, TimerStart, Doit,
           TimerStop, Scan, Accept, Double, StartOverLimit, StepClock
  <2>4. QED BY <2>1, <2>2, <2>3
<1>2. IInv /\ [Next]_vars
        => [(pc = "scan" /\ pc' = "start") => \E s \in Slots : t[s] < TimeMin]_vars
  BY <1>1
<1>3. QED BY <1>2, InvariantHolds, PTL DEF Spec, LeavesRoundOnlyWhenShort

\* speed() implements Measurement: it sets up once, publishes one good batch
\* and never publishes again.
THEOREM Refinement == Spec => RefinesMeasurement
<1> USE DEF M!Slots, M!NoBatch, M!Prepare, M!Publish, Slots, NoBatch, Phase
<1>1. Init => M!MInit
  BY DEF Init, M!MInit
<1>2. IInv /\ IInv' /\ [Next]_vars => [M!MNext]_M!mvars
  <2> SUFFICES ASSUME IInv, IInv', [Next]_vars PROVE [M!MNext]_M!mvars
    OBVIOUS
  <2> USE DEF M!MNext, M!mvars
  <2>1. CASE Setup BY <2>1 DEF Setup
  <2>2. CASE SetupStop BY <2>2 DEF SetupStop, BeginRound
  <2>3. CASE TimerStart BY <2>3 DEF TimerStart
  <2>4. CASE Doit BY <2>4 DEF Doit
  <2>5. CASE TimerStop BY <2>5 DEF TimerStop
  <2>6. CASE StartOverNegative BY <2>6 DEF StartOverNegative, BeginRound
  <2>7. CASE Scan BY <2>7 DEF Scan
  <2>8. CASE Accept
    <3>1. \A s \in Slots : t[s] \in Int /\ t[s] >= TimeMin
      <4>1. \A s \in Slots : tmin <= t[s]
        BY <2>8, TimeAssumption DEF Accept, ScanDone, IInv, ScanInv, Slots
      <4>2. tmin \in Int /\ tmin >= TimeMin /\ t \in [Slots -> Int]
        BY <2>8 DEF Accept, LongEnough, IInv, TypeOK
      <4>3. QED BY <4>1, <4>2, TimeAssumption
    <3>2. [elapsed |-> t, iter |-> iter]
            \in [elapsed : [Slots -> Int], iter : Int]
      BY IterAssumption DEF IInv, TypeOK
    <3>3. iter \in 1 .. IterLimit - 1 BY DEF IInv, TypeOK
    <3>4. reported' \in M!GoodBatch
      BY <2>8, <3>1, <3>2, <3>3 DEF Accept, M!GoodBatch
    <3>5. QED BY <2>8, <3>4 DEF Accept, ScanDone
  <2>9. CASE Double BY <2>9 DEF Double, ScanDone, BeginRound
  <2>10. CASE StartOverLimit BY <2>10 DEF StartOverLimit, ScanDone, BeginRound
  <2>11. CASE StepClock BY <2>11 DEF StepClock
  <2>12. CASE UNCHANGED vars BY <2>12 DEF vars
  <2>13. QED
    BY <2>1, <2>2, <2>3, <2>4, <2>5, <2>6, <2>7, <2>8, <2>9, <2>10, <2>11,
       <2>12 DEF Next, Program, Finished
<1>3. QED
  BY <1>1, <1>2, InvariantHolds, PTL DEF Spec, RefinesMeasurement, M!MSpec
=============================================================================
