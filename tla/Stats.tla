------------------------------- MODULE Stats -------------------------------
(***************************************************************************)
(* mkstat() of libbench/report.c: minimum, maximum, average and median of  *)
(* the timings of a batch, loop iteration by loop iteration.  The figures  *)
(* are what the four report functions print; a timing is an integer here,  *)
(* because the code only compares and adds them.                           *)
(***************************************************************************)
EXTENDS Integers, FiniteSets

CONSTANTS St,      \* how many timings a batch has (time_repeat)
          Timing   \* the values a timing may have

ASSUME StatsAssumption == St \in Nat \ {0} /\ Timing \subseteq Int

VARIABLES pc, i, j, t,
          min, max, avg,   \* avg is the sum until the division by St
          median,
          batch            \* history: the timings mkstat was called with

vars == <<pc, i, j, t, min, max, avg, median, batch>>

Slots == 0 .. St - 1

-----------------------------------------------------------------------------
Init == /\ pc = "scan"
        /\ t \in [Slots -> Timing]
        /\ batch = t
        /\ min = t[0] /\ max = t[0] /\ avg = 0
        /\ i = 0 /\ j = 0
        /\ median = 0

\* Mutant: the loop starts at the second timing, which is enough for the
\* minimum and the maximum but not for the sum.
ScanSkipsFirst == /\ pc = "scan" /\ i < St
                  /\ min' = IF t[i] < min THEN t[i] ELSE min
                  /\ max' = IF t[i] > max THEN t[i] ELSE max
                  /\ avg' = IF i = 0 THEN avg ELSE avg + t[i]
                  /\ i' = i + 1
                  /\ UNCHANGED <<pc, j, t, median, batch>>

\* One iteration of the loop over the timings.
ScanTiming == /\ pc = "scan" /\ i < St
              /\ min' = IF t[i] < min THEN t[i] ELSE min
              /\ max' = IF t[i] > max THEN t[i] ELSE max
              /\ avg' = avg + t[i]
              /\ i' = i + 1
              /\ UNCHANGED <<pc, j, t, median, batch>>

\* Mutant: the passes start one index too far to the right.
ScanDoneTooFar == /\ pc = "scan" /\ i = St
                  /\ i' = St + 1 /\ j' = 0
                  /\ pc' = "sort"
                  /\ UNCHANGED <<t, min, max, avg, median, batch>>

\* for (i = st - 1; i > 1; --i) for (j = 0; ...)
ScanDone == /\ pc = "scan" /\ i = St
            /\ i' = St - 1 /\ j' = 0
            /\ pc' = "sort"
            /\ UNCHANGED <<t, min, max, avg, median, batch>>

\* Mutant: one of the two stores of a swap is lost.
StoreHalfSwap(a, b) == t' = [t EXCEPT ![j] = b]

\* What the body of the inner loop stores when a = t[j] > b = t[j + 1].
Store(a, b) == t' = [t EXCEPT ![j] = a, ![j + 1] = b]

Compare == /\ pc = "sort" /\ i > 1 /\ j < i - 1
           /\ IF t[j] > t[j + 1] THEN Store(t[j], t[j + 1]) ELSE UNCHANGED t
           /\ j' = j + 1
           /\ UNCHANGED <<pc, i, min, max, avg, median, batch>>

\* Mutant: the next pass is as long as the last one.
NextPassSameLength == /\ pc = "sort" /\ i > 1 /\ j >= i - 1
                      /\ j' = 0
                      /\ UNCHANGED <<pc, i, t, min, max, avg, median, batch>>

NextPass == /\ pc = "sort" /\ i > 1 /\ j >= i - 1
            /\ i' = i - 1 /\ j' = 0
            /\ UNCHANGED <<pc, t, min, max, avg, median, batch>>

Median == /\ pc = "sort" /\ i <= 1
          /\ median' = t[St \div 2]
          /\ pc' = "done"
          /\ UNCHANGED <<i, j, t, min, max, avg, batch>>

Finished == pc = "done" /\ UNCHANGED vars

Next == ScanTiming \/ ScanDone \/ Compare \/ NextPass \/ Median \/ Finished

Spec == Init /\ [][Next]_vars
FairSpec == Spec /\ WF_vars(Next)

-----------------------------------------------------------------------------
\* Types, and the array indices of the two sorting loops stay inside t.
TypeOK == /\ pc \in {"scan", "sort", "done"}
          /\ i \in 0 .. St /\ j \in 0 .. St
          /\ t \in [Slots -> Int]
          /\ batch \in [Slots -> Int]
          /\ min \in Int /\ max \in Int /\ avg \in Int /\ median \in Int
          /\ (pc = "sort" /\ i > 1 /\ j < i - 1) => j + 1 \in Slots

\* The printed figures belong together: the minimum and the maximum are
\* timings of the batch that bound every timing, and the average (the sum
\* over St) and the median lie between them.
FiguresConsistent ==
    pc = "done" =>
        /\ \E s \in Slots : batch[s] = min
        /\ \E s \in Slots : batch[s] = max
        /\ \A s \in Slots : min <= batch[s] /\ batch[s] <= max
        /\ St * min <= avg /\ avg <= St * max
        /\ min <= median /\ median <= max

\* Whatever the sorting loops move, no timing is lost and none is doubled: at
\* every step the array holds each value as often as the batch does.
HowOften(v, f) == Cardinality({s \in Slots : f[s] = v})
BatchKept == \A v \in Timing : HowOften(v, t) = HowOften(v, batch)

\* What the comment "compute median" of report.c:58 says: at most half of the
\* timings are smaller than the median and at most half are larger.
MedianIsMedian ==
    pc = "done" =>
        /\ 2 * Cardinality({s \in Slots : batch[s] < median}) <= St
        /\ 2 * Cardinality({s \in Slots : batch[s] > median}) <= St

\* mkstat returns.
Returns == <>(pc = "done")
=============================================================================
