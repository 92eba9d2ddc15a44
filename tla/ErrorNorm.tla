----------------------------- MODULE ErrorNorm -----------------------------
(***************************************************************************)
(* acmp() and cerror() of libbench/verify.c: every test of --verify ends   *)
(* with this comparison of two complex arrays, which lets the process go   *)
(* on or ends it.                                                          *)
(*                                                                         *)
(* A floating-point number is an integer or NaN; what matters of C is that *)
(* every comparison with NaN is false.  The relative error is a quotient   *)
(* of two of them, kept as the pair error, mag.                            *)
(***************************************************************************)
EXTENDS Integers

CONSTANTS N,               \* the number of elements
          Real,            \* the numbers in the arrays, NaN among them or not
          NaN,
          TolNum, TolDen   \* the tolerance, as a fraction

ASSUME NaNAssumption == NaN \notin Int /\ Real \subseteq Int \cup {NaN}
ASSUME NAssumption == N \in Nat \ {0}
ASSUME TolAssumption == TolNum \in Nat \ {0} /\ TolDen \in Nat \ {0}

VARIABLES A, B,        \* the two arrays
          haveIsnan,   \* HAVE_ISNAN of the build
          i, error, mag,
          pc, verdict

vars == <<A, B, haveIsnan, i, error, mag, pc, verdict>>

Index == 0 .. N - 1
Complex == [re : Real, im : Real]

-----------------------------------------------------------------------------
Less(x, y) == x # NaN /\ y # NaN /\ x < y
Minus(x, y) == IF x = NaN \/ y = NaN THEN NaN ELSE x - y

dabs(x) == IF Less(x, 0) THEN Minus(0, x) ELSE x

dmax(x, y) == IF Less(y, x) THEN x ELSE y
dmin(x, y) == IF Less(x, y) THEN x ELSE y
norm2(z) == dmax(dabs(z.re), dabs(z.im))
Difference(z, w) == [re |-> Minus(z.re, w.re), im |-> Minus(z.im, w.im)]

\* Element j: its size in both arrays, and how far it is from one to the other.
Common(j) == dmin(norm2(A[j]), norm2(B[j]))
Distance(j) == norm2(Difference(A[j], B[j]))

-----------------------------------------------------------------------------
Init == /\ A \in [Index -> Complex] /\ B \in [Index -> Complex]
        /\ haveIsnan \in BOOLEAN
        /\ i = 0 /\ error = 0 /\ mag = 0
        /\ pc = "scan" /\ verdict = "none"

\* Mutant: the error is compared with the magnitude of the result alone.
ScanOneSided == /\ pc = "scan" /\ i < N
                /\ mag' = dmax(mag, norm2(A[i]))
                /\ error' = dmax(error, Distance(i))
                /\ i' = i + 1
                /\ UNCHANGED <<A, B, haveIsnan, pc, verdict>>

Scan == /\ pc = "scan" /\ i < N
        /\ mag' = dmax(mag, Common(i))
        /\ error' = dmax(error, Distance(i))
        /\ i' = i + 1
        /\ UNCHANGED <<A, B, haveIsnan, pc, verdict>>

\* error / mag is NaN, and is greater than tol.
QuotientIsNaN == error = NaN \/ mag = NaN \/ (error = 0 /\ mag = 0)
QuotientAboveTol == ~QuotientIsNaN /\ error * TolDen > TolNum * mag

\* error /= mag; BENCH_ASSERT(!isnan(error)) where there is an isnan.
Divide == /\ pc = "scan" /\ i = N
          /\ IF haveIsnan /\ QuotientIsNaN
             THEN pc' = "done" /\ verdict' = "assertion"
             ELSE pc' = "compare" /\ UNCHANGED verdict
          /\ UNCHANGED <<A, B, haveIsnan, i, error, mag>>

\* Mutant: d is returned only where it is above the tolerance.
CompareSaysNothing == /\ pc = "compare"
                      /\ verdict' = IF QuotientAboveTol THEN "failed"
                                    ELSE verdict
                      /\ pc' = "done"
                      /\ UNCHANGED <<A, B, haveIsnan, i, error, mag>>

\* if (d > tol) ... exit(EXIT_FAILURE); return d;
Compare == /\ pc = "compare"
           /\ verdict' = IF QuotientAboveTol THEN "failed" ELSE "passed"
           /\ pc' = "done"
           /\ UNCHANGED <<A, B, haveIsnan, i, error, mag>>

Finished == pc = "done" /\ UNCHANGED vars

Next == Scan \/ Divide \/ Compare \/ Finished
Spec == Init /\ [][Next]_vars

-----------------------------------------------------------------------------
TypeOK == /\ A \in [Index -> Complex] /\ B \in [Index -> Complex]
          /\ haveIsnan \in BOOLEAN
          /\ i \in 0 .. N
          /\ error \in Nat \cup {NaN} /\ mag \in Nat \cup {NaN}
          /\ pc \in {"scan", "compare", "done"}
          /\ verdict \in {"none", "passed", "failed", "assertion"}
          /\ pc = "done" <=> verdict # "none"

NaNFree == \A j \in Index :
               NaN \notin {A[j].re, A[j].im, B[j].re, B[j].im}

\* Every element of one array is within the tolerance of the other, relative
\* to what is in both arrays somewhere.
Close == \A j \in Index : \E k \in Index :
             Distance(j) * TolDen <= TolNum * Common(k)

AllZero == \A j \in Index : Distance(j) = 0 /\ Common(j) = 0

\* Of arrays without NaN acmp judges rightly: the process ends exactly when
\* they are further apart than the tolerance, or when both are all zeros and
\* the quotient is 0/0.
VerdictIsRight ==
    (pc = "done" /\ NaNFree) =>
        /\ verdict = "failed" <=> ~Close
        /\ verdict = "passed" <=> Close /\ ~(haveIsnan /\ AllZero)

\* What BENCH_ASSERT(!isnan(error)) of verify.c:57 is there for: a result that
\* contains a NaN does not pass in a build that has isnan.
NaNNeverPasses ==
    (pc = "done" /\ haveIsnan /\ verdict = "passed") => NaNFree
=============================================================================
