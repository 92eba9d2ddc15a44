----------------------------- MODULE Calibrate -----------------------------
(***************************************************************************)
(* calibrate() of libbench/timer.c looks for the shortest interval, from   *)
(* 1 us up by factors of two, that the clock measures well enough.  Times  *)
(* are in microseconds, amounts of work in turns of the loop of work().    *)
(*                                                                         *)
(* A machine does Rate turns in a microsecond, or skips the loop, whose    *)
(* result nobody uses, if Rate is 0.  Its clock shows multiples of Tick,   *)
(* and the least of several measured times is one of the two around the    *)
(* true one.                                                               *)
(***************************************************************************)
EXTENDS Integers, Sequences

CONSTANTS Machines,   \* records of a rate and a tick
          TmaxTry,    \* tmax_try, one second in the code
          IntMax      \* INT_MAX, which C makes 32767 or more

ASSUME MachinesAssumption == Machines \subseteq [rate : Nat, tick : Nat \ {0}]
ASSUME TmaxTryAssumption == TmaxTry \in Nat
ASSUME IntMaxAssumption == IntMax \in Nat /\ IntMax >= 32767

VARIABLES machine,
          calPc, tmin,     \* the interval under trial
          tries, amount,   \* tries and n of find_n
          time,            \* what time_n returned last
          baseline, point, \* baseline and i of acceptable
          overflow         \* an amount of work was too large for an int

calVars == <<machine, calPc, tmin, tries, amount, time, baseline, point, overflow>>

TminTry == 1
TestPoints == <<1015, 1020, 1035>>   \* in thousandths
Tolerance == 1000                    \* its inverse

Rate == machine.rate
Tick == machine.tick

\* time_n(m).
Times(m) == IF Rate = 0 \/ m <= 0 THEN {0}
            ELSE LET ticks == m \div (Rate * Tick)
                 IN {ticks * Tick} \cup
                    {t \in {(ticks + 1) * Tick} : m % (Rate * Tick) # 0}
TimeN(m) == time' \in Times(m)

\* Storing an amount of work in an int.
WrapInt(m) == ((m + IntMax + 1) % (2 * IntMax + 2)) - (IntMax + 1)
SetAmount(m) == /\ amount' = WrapInt(m)
                /\ overflow' = (overflow \/ m > IntMax)
                /\ TimeN(amount')

-----------------------------------------------------------------------------
\* acceptable(interval), the first call of find_n in it; or the end of the
\* loop of calibrate.
TryInterval(interval) ==
    /\ tmin' = interval
    /\ baseline' = 0 /\ point' = 1
    /\ IF interval < TmaxTry
       THEN /\ calPc' = "find_n" /\ tries' = 0
            /\ amount' = 10000 /\ TimeN(10000)
       ELSE calPc' = "done" /\ UNCHANGED <<tries, amount, time>>

CalInit == /\ machine \in Machines
           /\ calPc = "start" /\ tmin = 0
           /\ tries = 0 /\ amount = 0 /\ time = 0
           /\ baseline = 0 /\ point = 1
           /\ overflow = FALSE

Calibrate == /\ calPc = "start"
             /\ TryInterval(TminTry)
             /\ UNCHANGED <<machine, overflow>>

\* time is within two percent of tmin.
Near == 98 * tmin < 100 * time /\ 100 * time < 102 * tmin

\* (int)(n / t * tmin + 1)
Scaled == (amount \div time) * tmin + ((amount % time) * tmin) \div time + 1

\* One iteration of the loop of find_n.
Search == /\ calPc = "find_n" /\ tries < 10 /\ ~Near
          /\ tries' = tries + 1
          /\ SetAmount(IF time < TminTry THEN 10 * amount ELSE Scaled)
          /\ UNCHANGED <<machine, calPc, tmin, baseline, point>>

\* find_n has found nothing, or something that is not positive.
NotFound == /\ calPc = "find_n" /\ (tries = 10 \/ (Near /\ amount <= 0))
            /\ TryInterval(2 * tmin)
            /\ UNCHANGED <<machine, overflow>>

Found == /\ calPc = "find_n" /\ tries < 10 /\ Near /\ amount > 0
         /\ TimeN(amount) /\ baseline' = time'
         /\ calPc' = "acceptable"
         /\ UNCHANGED <<machine, tmin, tries, amount, point, overflow>>

\* Mutant: the error is compared with the tolerance in the wrong unit.
DeviatesByHalf(t, tp) ==
    LET expected == baseline * tp
        diff == IF expected > 1000 * t THEN expected - 1000 * t ELSE 1000 * t - expected
    IN diff > expected \div 2

\* diff / expected > tolerance, of a measured time t at a test point; the
\* quotient of two zeros is not greater.
Deviates(t, tp) ==
    LET expected == baseline * tp
        diff == IF expected > 1000 * t THEN expected - 1000 * t ELSE 1000 * t - expected
    IN diff > expected \div Tolerance

\* One test point of acceptable.
TestPoint == /\ calPc = "acceptable" /\ point <= Len(TestPoints)
             /\ TimeN((amount * TestPoints[point]) \div 1000)
             /\ UNCHANGED <<machine, overflow, baseline>>
             /\ IF Deviates(time', TestPoints[point])
                THEN calPc' = "reject" /\ UNCHANGED <<tmin, tries, amount, point>>
                ELSE point' = point + 1 /\ UNCHANGED <<calPc, tmin, tries, amount>>

Reject == /\ calPc = "reject"
          /\ TryInterval(2 * tmin)
          /\ UNCHANGED <<machine, overflow>>

Accept == /\ calPc = "acceptable" /\ point > Len(TestPoints)
          /\ calPc' = "done"
          /\ UNCHANGED <<machine, tmin, tries, amount, time, baseline, point, overflow>>

CalNext == Calibrate \/ Search \/ NotFound \/ Found \/ TestPoint \/ Reject \/ Accept

CalSpec == CalInit /\ [][CalNext]_calVars

-----------------------------------------------------------------------------
Accepted == calPc = "done" /\ tmin < TmaxTry

\* The least number of ticks from which a clock can round all three test points
\* to where a change of the work shows: 143, 145, 146 and 148 ticks are within a
\* thousandth of the proportions 1, 1.015, 1.02 and 1.035.
EnoughTicks == 143

\* The work of ten ticks of the clock, or of two intervals of the longest length,
\* does not fit in an int: a clock that shows tenths of seconds, or more than a
\* thousand turns in a microsecond.
TooFast == 10 * Rate * Tick > IntMax \/ 2 * Rate * TmaxTry > IntMax

\* An interval that is accepted with a time other than zero lasts so many ticks
\* of the clock that a change of the work by one percent shows: the clock does
\* not round four times to the advantage of a shorter one.  The amount of work
\* fits in an int unless the machine is too fast or the compiler has removed
\* the loop, and in the latter case no interval is accepted.
CalibrationIsSound ==
    /\ overflow => Rate = 0 \/ TooFast
    /\ Accepted => Rate # 0
    /\ (Accepted /\ baseline # 0) => baseline >= EnoughTicks * Tick

\* What timer.c:159 says acceptable() is there for, to "Verify that small
\* modifications affect the runtime proportionally": an interval is accepted
\* only if there was a time that could be affected.
AcceptedWasMeasured == Accepted => baseline # 0
=============================================================================
