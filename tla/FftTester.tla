----------------------------- MODULE FftTester -----------------------------
(***************************************************************************)
(* do_verify() of libbench/verify.c: Ergun's self-tester, which calls the  *)
(* benchmarked code and compares its answers with each other, never with   *)
(* another transform.  A code is a matrix, or one of a few others that are *)
(* wrong in the way codes are; comparing is exact here, the tolerance of   *)
(* acmp() being in ErrorNorm.                                              *)
(*                                                                         *)
(* In place of random arrays there are all arrays with one element that is *)
(* 1 or i, and a dense one: what the tests say of them they say of all     *)
(* arrays if the code is linear, and that is tested first.                 *)
(***************************************************************************)
EXTENDS TransformArrays

CONSTANTS TesterProblems,   \* kind, sign, and the list n of the dimensions
          CodesFor(_)       \* the codes that a problem is tried with

VARIABLES p,        \* the problem
          code,     \* the doit program under test
          test,     \* the next test of do_verify, "passed", or "exit"
          dim       \* the dimension that tf_shift has reached

testerVars == <<p, code, test, dim>>

-----------------------------------------------------------------------------
caset(q, x) == Map(q, LAMBDA e : x)
cascale(q, A, alpha) == Map(q, LAMBDA e : Times(A[e], alpha))
caadd(q, A, B) == Map(q, LAMBDA e : Plus(A[e], B[e]))
asub(q, A, B) == Map(q, LAMBDA e : Minus2(A[e], B[e]))
mkreal(q, A) == Map(q, LAMBDA e : RealPart(A[e]))

\* The first dimension whose index is not its own mirror decides: below the
\* middle an element stays, above it is the conjugate of its mirror; where
\* there is no such dimension the element becomes real.
Turning(q, e) == {d \in 1 .. Len(q.n) : (2 * Digit(q, d, e)) % q.n[d] # 0}

\* Mutant: in an even dimension the middle slice is left as it was.
MkHermitianSkipsMiddle(q, A) ==
    Map(q, LAMBDA e :
        LET d == CHOOSE d \in Turning(q, e) : \A c \in Turning(q, e) : d <= c
        IN IF Turning(q, e) = {} THEN IF e = 0 THEN RealPart(A[e]) ELSE A[e]
           ELSE IF 2 * Digit(q, d, e) < q.n[d] THEN A[e]
           ELSE Conjugate(A[MirrorDigits(q, e)]))

mkhermitian(q, A) ==
    Map(q, LAMBDA e :
        LET d == CHOOSE d \in Turning(q, e) : \A c \in Turning(q, e) : d <= c
        IN IF Turning(q, e) = {} THEN RealPart(A[e])
           ELSE IF 2 * Digit(q, d, e) < q.n[d] THEN A[e]
           ELSE Conjugate(A[MirrorDigits(q, e)]))

\* Rotation to the left along a dimension.
arol(q, d, A) == Map(q, LAMBDA e : A[Put(q, d, e, (Digit(q, d, e) + 1) % q.n[d])])

\* Multiplication by exp(2 pi i sign j / n), j being the index in dimension d.
aphase_shift(q, d, sign, A) ==
    Map(q, LAMBDA e : Times(A[e], Exp(sign * Digit(q, d, e), q.n[d])))

-----------------------------------------------------------------------------
\* A code is a matrix, with what it does besides: it conjugates its input, or
\* adds something to its output.
Code(m, conj, offset) == [m |-> m, conj |-> conj, offset |-> offset]
Dft(q) == Code(Matrix(q), FALSE, Zero)

doit(q, A) ==
    LET in == Map(q, LAMBDA e : IF code.conj THEN Conjugate(A[e]) ELSE A[e])
    IN Map(q, LAMBDA e : Plus(Apply(q, code.m, in)[e], code.offset))

\* What copy_c2h and copy_h2c keep of an array: the last dimension up to its
\* middle, from which the rest follows.
Halved(q, A) ==
    LET d == Len(q.n)
    IN Map(q, LAMBDA e : IF 2 * Digit(q, d, e) <= q.n[d] THEN A[e]
                         ELSE Conjugate(A[MirrorDigits(q, e)]))

\* copy_c2r takes the real parts, copy_r2c puts zeros for the imaginary ones.
problem_ccopy_from(q, in) ==
    CASE q.kind = "complex" -> in
      [] q.kind = "real" /\ q.sign = -1 -> mkreal(q, in)
      [] q.kind = "real" /\ q.sign = 1 -> Halved(q, in)

problem_ccopy_to(q, out) ==
    CASE q.kind = "complex" -> out
      [] q.kind = "real" /\ q.sign = -1 -> Halved(q, out)
      [] q.kind = "real" /\ q.sign = 1 -> mkreal(q, out)

do_fft(q, in) == problem_ccopy_to(q, doit(q, problem_ccopy_from(q, in)))

-----------------------------------------------------------------------------
\* What arand() fills an array with, and bench_drand() a factor.
Unit(q, e, x) == [caset(q, Zero) EXCEPT ![e] = x]
Dense(q) == Map(q, LAMBDA e : <<e * e + 3 * e + 2, (5 * e * e * e + 7) % P>>)
Random(q) == {Unit(q, e, x) : e \in Elements(q), x \in {One, I}} \cup {Dense(q)}
Factors(q) == IF q.kind = "complex" THEN {I, Number(2)} ELSE {Number(2)}

\* C = alpha A + beta B, and so are the results; beta B is the dense array.
linear(q) ==
    LET outA == [A \in Random(q) |-> do_fft(q, A)]
    IN \A alpha \in Factors(q), A \in Random(q) :
           LET inC == caadd(q, cascale(q, A, alpha), cascale(q, Dense(q), Number(3)))
           IN do_fft(q, inC) =
                  caadd(q, cascale(q, outA[A], alpha), cascale(q, outA[Dense(q)], Number(3)))

\* The result of inA is outA, directly and as a sum of two results.
impulse0(q, inA, outA) ==
    /\ do_fft(q, inA) = outA
    /\ \A inB \in Random(q) :
           caadd(q, do_fft(q, inB), do_fft(q, asub(q, inA, inB))) = outA

impulse(q) ==
    /\ impulse0(q, Unit(q, 0, One), caset(q, One))
    /\ impulse0(q, caset(q, One), Unit(q, 0, Number(Size(q))))

time_shift(q, d) ==
    \A A \in Random(q) :
        LET inA == IF q.kind = "real" THEN mkreal(q, A) ELSE A
        IN aphase_shift(q, d, q.sign, do_fft(q, arol(q, d, inA))) = do_fft(q, inA)

freq_shift(q, d) ==
    \A A \in Random(q) :
        LET inA == IF q.kind = "real" THEN mkhermitian(q, A) ELSE A
        IN arol(q, d, do_fft(q, aphase_shift(q, d, -q.sign, inA))) = do_fft(q, inA)

-----------------------------------------------------------------------------
TesterInit == /\ p \in TesterProblems
              /\ code \in CodesFor(p)
              /\ test = "linear" /\ dim = 1

\* acmp() lets the process go on to the next test, or ends it.
Judge(agrees, next) == test' = IF agrees THEN next ELSE "exit"

Linear == /\ test = "linear"
          /\ Judge(linear(p), "impulse")
          /\ UNCHANGED <<p, code, dim>>

\* Real transforms are shifted on their real side only.
FirstShift == IF p.kind = "complex" \/ p.sign = -1 THEN "time shift" ELSE "freq shift"

Impulse == /\ test = "impulse"
           /\ Judge(impulse(p), FirstShift)
           /\ UNCHANGED <<p, code, dim>>

\* tf_shift in one dimension; after the last comes the test called next.
TfShift(agrees, next) ==
    /\ dim' = IF dim < Len(p.n) THEN dim + 1 ELSE 1
    /\ Judge(agrees, IF dim < Len(p.n) THEN test ELSE next)
    /\ UNCHANGED <<p, code>>

TimeShift == /\ test = "time shift"
             /\ TfShift(time_shift(p, dim),
                        IF p.kind = "complex" THEN "freq shift" ELSE "passed")

FreqShift == /\ test = "freq shift"
             /\ TfShift(freq_shift(p, dim), "passed")

TesterNext == Linear \/ Impulse \/ TimeShift \/ FreqShift

-----------------------------------------------------------------------------
\* do_fft with the code under test is the transform on every array that the
\* problem is about.
Correct == \A A \in Random(p) :
               LET in == IF p.kind = "real" /\ p.sign = 1 THEN mkhermitian(p, A)
                         ELSE IF p.kind = "real" THEN mkreal(p, A) ELSE A
               IN do_fft(p, in) = Apply(p, Matrix(p), in)

\* do_verify is passed by the codes that compute the transform and by no other:
\* the three tests together decide, of whatever code, size, kind and sign, and
\* of a real problem as far as the code is used for it.
TesterDecides == test \in {"passed", "exit"} => (test = "passed" <=> Correct)
=============================================================================
