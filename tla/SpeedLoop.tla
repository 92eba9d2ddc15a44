----------------------------- MODULE SpeedLoop -----------------------------
(***************************************************************************)
(* speed() of libbench/speed.c: time the set-up of a transform, then look  *)
(* for an iteration count for which every one of TimeRepeat timings takes  *)
(* at least TimeMin, doubling the count after a round that was too short   *)
(* and starting over at one iteration when the clock ran backwards or the  *)
(* count reached its limit.  The only thing the program sees of time is    *)
(* the difference of two readings of gettimeofday(), which an operator or  *)
(* a time daemon may set forwards or backwards between them.               *)
(***************************************************************************)
EXTENDS Integers, FiniteSets

CONSTANTS TimeRepeat,   \* time_repeat of timer.c
          TimeMin,      \* time_min of timer.c, in clock ticks
          IterLimit,    \* 2^30 in the code
          BigTime,      \* 1.0e20 in the code
          Junk,         \* what the memory malloc returned may hold
          Costs, Noise, \* what one iteration may take, and a call of doit more
          SetupTimes,   \* how long setup() may take
          ClockSteps,   \* adjustments somebody may make to the clock
          MaxSteps      \* how many adjustments are made (a bound of the model)

ASSUME TimeAssumption == /\ TimeRepeat \in Nat \ {0}
                         /\ TimeMin \in Nat \ {0}
                         /\ BigTime \in Int /\ TimeMin <= BigTime
ASSUME IterAssumption == IterLimit \in Nat /\ IterLimit > 1
ASSUME EnvAssumption == /\ Junk \subseteq Int
                        /\ Costs \subseteq Nat /\ Noise \in Nat
                        /\ SetupTimes \subseteq Nat
                        /\ ClockSteps \subseteq Int
                        /\ MaxSteps \in Nat

VARIABLES pc,         \* where in speed() the program is
          iter, k,    \* the loop variables
          t,          \* the array of timings
          tmin,       \* the running minimum of the scan
          since,      \* the clock's reading minus t0 (static in timer.c)
          setupTime,  \* p->setup_time
          steps,      \* adjustments made to the clock so far
          cost,       \* what one iteration of this routine takes
          advanced,   \* history: the clock has been set forward
          run,        \* history: the true length of the last call of doit
          taken,      \* history: iterations and true length behind t[k]
          fresh,      \* history: the slots timed in the current round
          reported    \* the batch handed to report(), t[k] / iter as a pair

code == <<iter, k, t, tmin, setupTime>>
history == <<run, taken, fresh>>
clock == <<steps, cost, advanced>>
vars == <<pc, iter, k, t, tmin, since, setupTime, steps, cost, advanced, run,
          taken, fresh, reported>>

Slots == 0 .. TimeRepeat - 1
NotTaken == [iter |-> 0, len |-> 0]
NoBatch == [elapsed |-> [s \in Slots |-> 0], iter |-> 0]
Durations(i) == i * cost .. i * cost + Noise

-----------------------------------------------------------------------------
Init == /\ pc = "setup"
        /\ t \in [Slots -> Junk]        \* bench_malloc does not clear it
        /\ iter = 1 /\ k = 0 /\ tmin = BigTime
        /\ since = 0 /\ setupTime = 0
        /\ steps = 0 /\ cost \in Costs /\ advanced = FALSE
        /\ run = 0 /\ taken = [s \in Slots |-> NotTaken] /\ fresh = {}
        /\ reported = NoBatch

\* Mutant: tmin = 1.0e20 moved out of the loop, so the minimum of a rejected
\* round survives into the next one.
BeginRoundKeepsMinimum(i) == /\ iter' = i
                             /\ tmin' = tmin
                             /\ k' = 0
                             /\ fresh' = {}
                             /\ pc' = "start"

\* Mutant: k is not reset, so only the last slot is measured again.
BeginRoundKeepsSlot(i) == /\ iter' = i
                          /\ tmin' = BigTime
                          /\ k' = IF pc = "setup_stop" THEN 0
                                  ELSE TimeRepeat - 1
                          /\ fresh' = {}
                          /\ pc' = "start"

\* The head of the for loop over iter: tmin = 1.0e20 and k = 0.
BeginRound(i) == /\ iter' = i
                 /\ tmin' = BigTime
                 /\ k' = 0
                 /\ fresh' = {}
                 /\ pc' = "start"

\* timer_start(); setup(p);
Setup == /\ pc = "setup"
         /\ \E d \in SetupTimes : since' = d
         /\ pc' = "setup_stop"
         /\ UNCHANGED <<code, clock, history, reported>>

\* p->setup_time = timer_stop(); the value may be negative and is kept.
SetupStop == /\ pc = "setup_stop"
             /\ setupTime' = since
             /\ BeginRound(1)
             /\ UNCHANGED <<t, since, clock, run, taken, reported>>

\* Mutant: the timer is started once, before setup, and never again.
TimerNotRestarted == /\ pc = "start"
                     /\ pc' = "doit"
                     /\ UNCHANGED <<code, since, clock, history, reported>>

TimerStart == /\ pc = "start"
              /\ since' = 0
              /\ pc' = "doit"
              /\ UNCHANGED <<code, clock, history, reported>>

Doit == /\ pc = "doit"
        /\ \E d \in Durations(iter) : since' = since + d /\ run' = d
        /\ pc' = "stop"
        /\ UNCHANGED <<code, clock, taken, fresh, reported>>

\* t[k] = timer_stop(), and the measuring loop's ++k < time_repeat.
TimerStop == /\ pc = "stop"
             /\ t' = [t EXCEPT ![k] = since]
             /\ taken' = [taken EXCEPT ![k] = [iter |-> iter, len |-> run]]
             /\ fresh' = fresh \cup {k}
             /\ IF k + 1 < TimeRepeat
                THEN k' = k + 1 /\ pc' = "start"
                ELSE k' = 0 /\ pc' = "scan"
             /\ UNCHANGED <<iter, tmin, since, setupTime, clock, run, reported>>

\* "yes, it happens": a negative timing throws the whole round away.
StartOverNegative == /\ pc = "scan" /\ k < TimeRepeat
                     /\ t[k] < 0
                     /\ BeginRound(1)
                     /\ UNCHANGED <<t, since, setupTime, clock, run, taken,
                                    reported>>

\* Mutant: the scan remembers the last timing instead of the smallest.
ScanLast == /\ pc = "scan" /\ k < TimeRepeat
            /\ t[k] >= 0
            /\ tmin' = t[k]
            /\ k' = k + 1
            /\ UNCHANGED <<pc, iter, t, since, setupTime, clock, history,
                           reported>>

Scan == /\ pc = "scan" /\ k < TimeRepeat
        /\ t[k] >= 0
        /\ tmin' = IF t[k] < tmin THEN t[k] ELSE tmin
        /\ k' = k + 1
        /\ UNCHANGED <<pc, iter, t, since, setupTime, clock, history, reported>>

\* Mutant: the scan stops one timing early.
ScanDoneEarly == pc = "scan" /\ k >= TimeRepeat - 1
ScanDone == pc = "scan" /\ k = TimeRepeat
LongEnough == tmin >= TimeMin

\* goto done, then done(p), the division of t[k] by iter and report().
Accept == /\ ScanDone
          /\ LongEnough
          /\ reported' = [elapsed |-> t, iter |-> iter]
          /\ pc' = "reported"
          /\ UNCHANGED <<code, since, clock, history>>

\* Mutant: the loop condition on iter is lost.
DoubleUnlimited == /\ ScanDone
                   /\ ~LongEnough
                   /\ BeginRound(iter * 2)
                   /\ UNCHANGED <<t, since, setupTime, clock, run, taken,
                                  reported>>

Double == /\ ScanDone
          /\ ~LongEnough
          /\ iter * 2 < IterLimit
          /\ BeginRound(iter * 2)
          /\ UNCHANGED <<t, since, setupTime, clock, run, taken, reported>>

\* Mutant: the goto after the loop is missing and control falls to done.
FallThrough == /\ ScanDone
               /\ ~LongEnough
               /\ ~(iter * 2 < IterLimit)
               /\ reported' = [elapsed |-> t, iter |-> iter]
               /\ pc' = "reported"
               /\ UNCHANGED <<code, since, clock, history>>

\* "this also happens": the count ran out and the search starts again.
StartOverLimit == /\ ScanDone
                  /\ ~LongEnough
                  /\ ~(iter * 2 < IterLimit)
                  /\ BeginRound(1)
                  /\ UNCHANGED <<t, since, setupTime, clock, run, taken,
                                 reported>>

\* Somebody sets the clock while an interval is being timed.
StepClock == /\ steps < MaxSteps
             /\ pc \in {"setup_stop", "doit", "stop"}
             /\ steps' = steps + 1
             /\ \E s \in ClockSteps : /\ since' = since + s
                                      /\ advanced' = (advanced \/ s > 0)
             /\ UNCHANGED <<pc, code, cost, history, reported>>

Program == \/ Setup \/ SetupStop \/ TimerStart \/ Doit \/ TimerStop
           \/ StartOverNegative \/ Scan \/ Accept \/ Double \/ StartOverLimit

Finished == pc = "reported" /\ UNCHANGED vars

Next == Program \/ StepClock \/ Finished

Spec == Init /\ [][Next]_vars

\* speed() is one thread that is never blocked: whenever it can take a step it
\* eventually does.  Nobody is obliged to set the clock.
FairSpec == Spec /\ WF_vars(Program)

-----------------------------------------------------------------------------
TypeOK == /\ pc \in {"setup", "setup_stop", "start", "doit", "stop", "scan",
                     "reported"}
          /\ iter \in 1 .. IterLimit - 1
          /\ k \in 0 .. TimeRepeat
          /\ t \in [Slots -> Int]
          /\ tmin \in Int /\ since \in Int /\ setupTime \in Int
          /\ steps \in 0 .. MaxSteps /\ cost \in Nat /\ advanced \in BOOLEAN
          /\ run \in Nat
          /\ taken \in [Slots -> [iter : Nat, len : Nat]]
          /\ fresh \subseteq Slots
          /\ reported \in [elapsed : [Slots -> Int], iter : Nat]

\* Every timing the scan of speed.c reads was stored by this round's measuring
\* loop, with this round's iteration count: neither what malloc left in t nor
\* a timing of a round that was thrown away is ever compared or reported.
NoStaleTimes ==
    pc \in {"scan", "reported"} =>
        \A s \in Slots : s \in fresh /\ taken[s].iter = iter

\* What report() gets is a whole batch, measured with one iteration count
\* below the limit, no timing of which is shorter than time_min.
ReportedBatchSound ==
    pc = "reported" =>
        /\ reported.iter \in 1 .. IterLimit - 1
        /\ \A s \in Slots : /\ reported.elapsed[s] >= TimeMin
                            /\ taken[s].iter = reported.iter

\* As long as the clock is only set back, whatever report() gets really ran for
\* time_min: setting the clock back can hide time but not invent it.  A routine
\* that is too fast for the limit on iter is therefore never reported.
ReportedRunsAreLong ==
    (pc = "reported" /\ ~advanced) =>
        \A s \in Slots : taken[s].len >= TimeMin

\* The search gives up an iteration count only because one of the timings it
\* took with it was too short: a count that is good enough is never passed by,
\* although several timings and a shared minimum decide.
LeavesRoundOnlyWhenShort ==
    [][(pc = "scan" /\ pc' = "start") => \E s \in Slots : t[s] < TimeMin]_vars

\* The longest round has IterLimit \div 2 iterations.
SlowCosts == {c \in Costs : c * (IterLimit \div 2) >= TimeMin}
FastCosts == {c \in Costs : c * (IterLimit \div 2) + Noise < TimeMin}

\* The timing loop ends: the clock is set finitely often and the last round
\* before the limit takes time_min, so a report is eventually made.
Terminates == (cost \in SlowCosts) ~> pc = "reported"

\* With a routine too fast for the limit (2^29 iterations take less than
\* time_min) speed() keeps starting over instead of returning.
StartsOverForever ==
    []<>(cost \in FastCosts =>
             advanced \/ (pc = "start" /\ iter = 1 /\ k = 0))

-----------------------------------------------------------------------------
Phase == CASE pc \in {"setup", "setup_stop"} -> "preparing"
           [] pc = "reported" -> "published"
           [] OTHER -> "measuring"

\* speed() keeps the promise of Measurement: one set-up, then one good batch.
M == INSTANCE Measurement WITH Repeat <- TimeRepeat, phase <- Phase,
                               batch <- reported
RefinesMeasurement == M!MSpec
=============================================================================
