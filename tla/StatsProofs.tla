---------------------------- MODULE StatsProofs ----------------------------
(***************************************************************************)
(* What holds of mkstat() for every number of timings and all timings.     *)
(***************************************************************************)
EXTENDS Stats, TLAPS

\* The array is, at every moment, the batch that was passed in.
ArrayInv == t = batch

\* After i timings min and max are timings and bound what was seen so far.
SeenInv ==
    /\ \E s \in Slots : batch[s] = min
    /\ \E s \in Slots : batch[s] = max
    /\ min <= max
    /\ \A s \in Slots : (pc = "scan" => s < i) =>
                            min <= batch[s] /\ batch[s] <= max

SumInv == LET n == IF pc = "scan" THEN i ELSE St
          IN  n * min <= avg /\ avg <= n * max

MedianInv == pc = "done" => \E s \in Slots : batch[s] = median

IInv == TypeOK /\ ArrayInv /\ SeenInv /\ SumInv /\ MedianInv

-----------------------------------------------------------------------------
\* Storing two values where they were read changes nothing.
LEMMA StoreBack ==
    ASSUME NEW f, NEW S, NEW V, f \in [S -> V], NEW a \in S, NEW b \in S
    PROVE  [f EXCEPT ![a] = f[a], ![b] = f[b]] = f
OBVIOUS

\* Scaling by a natural number preserves an order of integers.
LEMMA ScaleLeq ==
    ASSUME NEW n \in Nat, NEW a \in Int, NEW b \in Int, a <= b
    PROVE  n * a <= n * b
BY SMT

\* The indices of the inner loop are those of array elements, and the two
\* values it stores are the two it read.
LEMMA CompareKeeps == TypeOK /\ Compare => t' = t
<1> SUFFICES ASSUME TypeOK, Compare PROVE t' = t
  OBVIOUS
<1>1. j \in Slots /\ j + 1 \in Slots
  BY StatsAssumption DEF TypeOK, Compare, Slots
<1>2. CASE t[j] > t[j + 1]
  <2>1. t' = [t EXCEPT ![j] = t[j], ![j + 1] = t[j + 1]]
    BY <1>2 DEF Compare, Store
  <2>2. t \in [Slots -> Int] BY DEF TypeOK
  <2>3. QED BY <1>1, <2>1, <2>2, StoreBack
<1>3. CASE ~(t[j] > t[j + 1]) BY <1>3 DEF Compare
<1>4. QED BY <1>2, <1>3

\* mkstat starts with the first timing as both minimum and maximum.
LEMMA InitInv == Init => IInv
<1> SUFFICES ASSUME Init PROVE IInv
  OBVIOUS
<1>1. 0 \in Slots BY StatsAssumption DEF Slots
<1>2. t \in [Slots -> Int] /\ batch = t /\ t[0] \in Int
  BY <1>1, StatsAssumption DEF Init
<1>3. TypeOK BY <1>2, StatsAssumption DEF Init, TypeOK
<1>4. SeenInv BY <1>1, <1>2 DEF Init, SeenInv, Slots
<1>5. SumInv BY <1>2 DEF Init, SumInv
<1>6. QED BY <1>2, <1>3, <1>4, <1>5 DEF Init, IInv, ArrayInv, MedianInv

\* Every iteration of the three loops keeps the invariant.
LEMMA NextInv == IInv /\ [Next]_vars => IInv'
<1> SUFFICES ASSUME IInv, [Next]_vars PROVE IInv'
  OBVIOUS
<1> USE StatsAssumption DEF IInv
<1>1. CASE ScanTiming
  <2>1. i \in Slots /\ i \in Nat /\ t = batch /\ t[i] \in Int
    BY <1>1 DEF ScanTiming, TypeOK, ArrayInv, Slots
  <2>2. /\ min' \in Int /\ min' <= min /\ min' <= t[i]
        /\ max' \in Int /\ max <= max' /\ t[i] <= max'
        /\ min' \in {min, t[i]} /\ max' \in {max, t[i]}
    BY <1>1, <2>1 DEF ScanTiming, TypeOK
  <2>3. TypeOK' BY <1>1, <2>1, <2>2 DEF ScanTiming, TypeOK
  <2>4. SeenInv'
    <3>1. \A s \in Slots : s < i + 1 => s < i \/ s = i
      BY <2>1 DEF Slots
    <3>2. \A s \in Slots : s < i + 1 => min' <= batch[s] /\ batch[s] <= max'
      <4> SUFFICES ASSUME NEW s \in Slots, s < i + 1
                   PROVE  min' <= batch[s] /\ batch[s] <= max'
        OBVIOUS
      <4>1. batch[s] \in Int BY DEF TypeOK
      <4>2. CASE s < i
        <5>1. min <= batch[s] /\ batch[s] <= max
          BY <1>1, <4>2 DEF ScanTiming, SeenInv
        <5>2. QED BY <2>2, <4>1, <5>1 DEF TypeOK
      <4>3. CASE s = i BY <2>1, <2>2, <4>3
      <4>4. QED BY <3>1, <4>2, <4>3
    <3>3. min' <= max' BY <2>1, <2>2
    <3>4. /\ \E s \in Slots : batch[s] = min'
          /\ \E s \in Slots : batch[s] = max'
      BY <2>1, <2>2 DEF SeenInv
    <3>5. QED BY <1>1, <3>2, <3>3, <3>4 DEF ScanTiming, SeenInv
  <2>5. SumInv'
    <3>1. i * min' <= i * min /\ i * max <= i * max'
      BY <2>1, <2>2, ScaleLeq DEF TypeOK
    <3>2. i * min <= avg /\ avg <= i * max
      BY <1>1 DEF ScanTiming, SumInv
    <3>3. /\ (i + 1) * min' = i * min' + min'
          /\ (i + 1) * max' = i * max' + max'
      BY <2>1, <2>2
    <3>4. /\ i * min \in Int /\ i * max \in Int
          /\ i * min' \in Int /\ i * max' \in Int
      BY <2>1, <2>2 DEF TypeOK
    <3>5. avg' = avg + t[i] /\ i' = i + 1 /\ pc' = "scan"
      BY <1>1 DEF ScanTiming
    <3>6. (i + 1) * min' <= avg' /\ avg' <= (i + 1) * max'
      BY <2>1, <2>2, <3>1, <3>2, <3>3, <3>4, <3>5 DEF TypeOK
    <3>7. QED BY <3>5, <3>6 DEF SumInv
  <2>6. ArrayInv' /\ MedianInv'
    BY <1>1, <2>1 DEF ScanTiming, ArrayInv, MedianInv
  <2>7. QED BY <2>3, <2>4, <2>5, <2>6
<1>2. CASE ScanDone
  BY <1>2 DEF ScanDone, TypeOK, ArrayInv, SeenInv, SumInv, MedianInv, Slots
<1>3. CASE Compare
  <2>1. t' = t BY <1>3, CompareKeeps
  <2>2. j' \in 0 .. St BY <1>3 DEF Compare, TypeOK
  <2>3. TypeOK' BY <1>3, <2>1, <2>2 DEF Compare, TypeOK, Slots
  <2>4. QED
    BY <1>3, <2>1, <2>3 DEF Compare, ArrayInv, SeenInv, SumInv, MedianInv
<1>4. CASE NextPass
  BY <1>4 DEF NextPass, TypeOK, ArrayInv, SeenInv, SumInv, MedianInv, Slots
<1>5. CASE Median
  <2>1. St \div 2 \in Slots BY DEF Slots
  <2>2. t[St \div 2] \in Int BY <2>1 DEF TypeOK
  <2>3. MedianInv' BY <1>5, <2>1 DEF Median, MedianInv, ArrayInv
  <2>4. QED
    BY <1>5, <2>2, <2>3 DEF Median, TypeOK, ArrayInv, SeenInv, SumInv
<1>6. CASE UNCHANGED vars
  BY <1>6 DEF vars, TypeOK, ArrayInv, SeenInv, SumInv, MedianInv
<1>7. QED
  BY <1>1, <1>2, <1>3, <1>4, <1>5, <1>6 DEF Next, Finished

\* The inductive invariant holds throughout mkstat.
THEOREM InvariantHolds == Spec => []IInv
<1>1. QED BY InitInv, NextInv, PTL DEF Spec

-----------------------------------------------------------------------------
\* For every number of timings mkstat keeps its types and its array indices
\* inside the array.
THEOREM TypeCorrect == Spec => []TypeOK
<1>1. IInv => TypeOK BY DEF IInv
<1>2. QED BY <1>1, InvariantHolds, PTL

\* For every batch, the minimum, maximum, average and median that are printed
\* bound the timings and each other as they should.
THEOREM FiguresHold == Spec => []FiguresConsistent
<1>1. IInv => FiguresConsistent
  <2> SUFFICES ASSUME IInv, pc = "done" PROVE FiguresConsistent
    BY DEF FiguresConsistent
  <2>1. \A s \in Slots : min <= batch[s] /\ batch[s] <= max
    BY DEF IInv, SeenInv
  <2>2. min <= median /\ median <= max BY <2>1 DEF IInv, MedianInv
  <2>3. St * min <= avg /\ avg <= St * max BY DEF IInv, SumInv
  <2>4. QED
    BY <2>1, <2>2, <2>3 DEF IInv, SeenInv, FiguresConsistent
<1>2. QED BY <1>1, InvariantHolds, PTL

\* For every batch, at every step of the sorting loops, the array holds each
\* timing as often as the batch that was passed to mkstat.
THEOREM NothingLost == Spec => []BatchKept
<1>1. IInv => BatchKept BY DEF IInv, ArrayInv, BatchKept
<1>2. QED BY <1>1, InvariantHolds, PTL
=============================================================================
