----------------------------- MODULE MCRoutines -----------------------------
(***************************************************************************)
(* The sequential routines of libbench for TLC.  They share no state and   *)
(* none calls another while it runs; a behaviour is a run of one of them,  *)
(* and the variables of the others keep one value.                         *)
(***************************************************************************)
EXTENDS ErrorNorm, HermFormats, ProblemParse, Calibrate, GetOpt

\* Small numbers of both signs.
MCReal == {-1, 0, 1, 2}

VARIABLES routine, ownPc,
          testerProblem, code, test, dim,
          calls, direction, mpPc, array, x, span, j, return, cachedN, w,
          blueN, blueW, blueY, blueK, ksq, errors,
          a, arithB, arithPc, sum, difference, product, real, xinv, rounds

testerVars == <<testerProblem, code, test, dim>>
mpVars == <<calls, direction, mpPc, array, x, span, j, return, cachedN, w,
            blueN, blueW, blueY, blueK, ksq, errors>>
arithVars == <<a, arithB, arithPc, sum, difference, product, real, xinv, rounds>>
routineVars == <<routine, ownPc, vars, hermVars, testerVars, mpVars, arithVars, parseVars, calVars,
                 optVars>>

-----------------------------------------------------------------------------
\* The hermitian arrays whose independent numbers all differ: the functions
\* only move numbers and change their signs, so that these stand for all
\* arrays.  Element e has real part e + 1 and imaginary part 200 + e, unless it
\* is the mirror of an earlier element or of itself.
Opposite(m, c) == (m - c) % m
MirrorOf(q, e) == q.n * (q.rows * Opposite(q.planes, e \div (q.rows * q.n))
                         + Opposite(q.rows, (e \div q.n) % q.rows))
                  + Opposite(q.n, e % q.n)
HermElement(e, m) == [re |-> IF m < e THEN m + 1 ELSE e + 1,
                  im |-> CASE m < e -> -(200 + m)
                           [] m = e -> 0
                           [] m > e -> 200 + e]

\* One-dimensional problems of size 1 to 9 in every layout, and in the
\* unpacked one matrices of up to 4 rows of up to 5 elements and up to 3 by 3
\* rows of up to 4.
HermShapes ==
    [fmt : {"fftpack", "halfcomplex", "packed", "unpacked_ri", "unpacked"},
     planes : {1}, rows : {1}, n : 1 .. 9, sign : {-1, 1}]
    \cup [fmt : {"unpacked"}, planes : {1}, rows : 2 .. 4, n : 1 .. 5, sign : {-1, 1}]
    \cup [fmt : {"unpacked"}, planes : 2 .. 3, rows : 2 .. 3, n : 2 .. 4, sign : {-1, 1}]
HermProblems ==
    {[fmt |-> q.fmt, planes |-> q.planes, rows |-> q.rows, n |-> q.n, sign |-> q.sign,
      z |-> [e \in 0 .. q.planes * q.rows * q.n - 1 |-> HermElement(e, MirrorOf(q, e))]] :
     q \in HermShapes}

\* The layouts of single libraries, of the sizes that their can_do accepts up to
\* 16 in one dimension, 8 by 8 and 4 by 4 by 4; green-ffts-2.0 without the 1 by
\* n and n by 1 problems, for which it reads and writes other elements.
Powers(lo, hi) == {2 ^ e : e \in lo .. hi}
OwnShapes ==
    [fmt : {"ooura2d"}, n : Powers(0, 3) \X Powers(1, 3)]
    \cup [fmt : {"mkl", "mklf"}, n : Powers(0, 3) \X Powers(0, 3)]
    \cup [fmt : {"green"}, n : Powers(1, 3) \X Powers(1, 3)]
    \cup [fmt : {"vbigdsp", "vdsp"}, n : {<<8, 8>>, <<8, 16>>}]
    \cup [fmt : {"ooura3d"}, n : Powers(0, 2) \X Powers(0, 2) \X Powers(1, 2)]
    \cup [fmt : {"nr"}, n : Powers(0, 2) \X Powers(1, 3)]
    \cup [fmt : {"nr"}, n : Powers(0, 2) \X Powers(0, 2) \X Powers(1, 2)]
    \cup [fmt : {"vdsp"}, n : {<<8>>, <<16>>}]
    \cup [fmt : {"fxt"}, n : {<<m>> : m \in Powers(1, 4)}]
    \cup [fmt : {"fftreal"}, n : {<<m>> : m \in Powers(0, 4)}]
    \cup [fmt : {"statlib", "vdsp_real", "packed_real", "split"}, n : {<<m>> : m \in 1 .. 9}]
    \cup [fmt : {"unpacked_real"}, n : (1 .. 3) \X (1 .. 5)]

\* Hermitian, real or complex arrays; even numbers where the code halves them.
InThree(m) == CASE Len(m) = 1 -> [planes |-> 1, rows |-> 1, n |-> m[1]]
                [] Len(m) = 2 -> [planes |-> 1, rows |-> m[1], n |-> m[2]]
                [] Len(m) = 3 -> [planes |-> m[1], rows |-> m[2], n |-> m[3]]
OwnElement(fmt, m, e) ==
    LET plain == HermElement(e, MirrorOf(InThree(m), e))
    IN CASE fmt \in {"packed_real", "unpacked_real", "vdsp_real"} -> [re |-> e + 1, im |-> 0]
         [] fmt = "split" -> [re |-> e + 1, im |-> 20 + e]
         [] fmt = "vdsp" -> [re |-> 2 * plain.re, im |-> 2 * plain.im]
         [] OTHER -> plain
OwnSize(m) == LET q == InThree(m) IN q.planes * q.rows * q.n
OwnProblems ==
    {[fmt |-> q.fmt, n |-> q.n,
      z |-> [e \in 0 .. OwnSize(q.n) - 1 |-> OwnElement(q.fmt, q.n, e)]] : q \in OwnShapes}

Own == INSTANCE OwnFormats WITH Problems <- OwnProblems, pc <- ownPc, row <- b, column <- k

-----------------------------------------------------------------------------
Arr == INSTANCE TransformArrays

\* One, two and three dimensions, with prime and composite, even and odd sizes.
MCTesterProblems ==
    [kind : {"complex", "real"}, sign : {-1, 1},
     n : {<<1>>, <<2>>, <<3>>, <<4>>, <<5>>, <<6>>, <<2, 2>>, <<2, 3>>, <<3, 2>>, <<4, 2>>}]

Code(m, conj, offset) == [m |-> m, conj |-> conj, offset |-> offset]
Linear(m) == Code(m, FALSE, Arr!Zero)
Doubled(q, m) == [e \in Arr!Elements(q) |->
                     [f \in Arr!Elements(q) |-> Arr!Plus(m[e][f], m[e][f])]]

\* The transform, and codes that are wrong in the ways codes are: the other
\* sign, a conjugated input, a constant added, a factor of two, a result not
\* stored, results in a wrong order, dimensions exchanged or taken for one, a
\* term forgotten; of size 2, all small matrices.
MCCodes(q) ==
    LET m == Arr!Matrix(q)
        last == Arr!Size(q) - 1
        entries == {Arr!Zero, Arr!One, Arr!Negative(Arr!One), Arr!I}
    IN {Linear(m), Linear(Arr!Matrix([q EXCEPT !.sign = -@])),
        Code(m, TRUE, Arr!Zero), Code(m, FALSE, Arr!One),
        Linear(Doubled(q, m)),
        Linear([m EXCEPT ![last] = [e \in Arr!Elements(q) |-> Arr!Zero]]),
        Linear([e \in Arr!Elements(q) |-> m[(e + 1) % Arr!Size(q)]]),
        Linear([e \in Arr!Elements(q) |-> m[Arr!MirrorDigits(q, e)]]),
        Linear(Arr!Matrix([q EXCEPT !.n = [d \in DOMAIN @ |-> @[Len(@) + 1 - d]]])),
        Linear(Arr!Matrix([q EXCEPT !.n = <<Arr!Size(q)>>])),
        Linear([m EXCEPT ![0][last] = Arr!Zero])}
       \cup IF q.n = <<2>> THEN {Linear(m2) : m2 \in [0 .. 1 -> [0 .. 1 -> entries]]} ELSE {}

Tester == INSTANCE FftTester WITH TesterProblems <- MCTesterProblems, CodesFor <- MCCodes,
                                p <- testerProblem

-----------------------------------------------------------------------------
\* Calls of fftaccuracy for an array and its transform, and for one whose
\* last element is wrong.
Transformed(m, sign, y) ==
    [c \in 0 .. m - 1 |->
        Arr!SumOf([d \in 0 .. m - 1 |-> Arr!Times(y[d], Arr!Exp(sign * c * d, m))], m)]
Dense(m) == [c \in 0 .. m - 1 |-> <<c * c + 3 * c + 2, (5 * c * c * c + 7) % Arr!P>>]
Unit(m, e) == [c \in 0 .. m - 1 |-> IF c = e THEN Arr!One ELSE Arr!Zero]
Right(m, sign, y) == [n |-> m, sign |-> sign, a |-> y, ffta |-> Transformed(m, sign, y)]
Wrong(m, sign, y) == [Right(m, sign, y) EXCEPT !.ffta[m - 1] = Arr!Plus(@, Arr!One)]

\* Two calls in a row, of the same size or of two sizes one of which is a power
\* of two: after two others the code reads what fftaccuracy_done has freed,
\* which Session shows.
MCSizes == {1, 2, 3, 4, 5, 6, 8}
MCPowers == {1, 2, 4, 8}
MCCalls ==
    {<<Wrong(m, s, Dense(m)), Right(m, t, Unit(m, e))>> :
         m \in MCSizes, s \in {-1, 1}, t \in {-1, 1}, e \in 0 .. 2}
    \cup {<<Right(m, s, Dense(m)), Wrong(l, t, Dense(l))>> :
         m \in MCPowers, l \in MCSizes, s \in {-1, 1}, t \in {-1, 1}}
    \cup {<<Right(m, s, Dense(m)), Right(l, t, Dense(l))>> :
         m \in MCSizes, l \in MCPowers, s \in {-1, 1}, t \in {-1, 1}}

Mp == INSTANCE MpFft WITH Calls <- MCCalls, MaxBit <- 7, a <- array, k <- blueK

-----------------------------------------------------------------------------
\* Four digits in base 4, and floating-point numbers of three bits.
Digits == [0 .. 3 -> 0 .. 3]
Normalised(digits, leading) == {d \in [0 .. 3 -> digits] : d[3] \in leading}
MpNumber(s, e, d) == [sign |-> s, expt |-> e, d |-> d]
MpZero == MpNumber(1, -32768, [c \in 0 .. 3 |-> 0])
MpOne == MpNumber(1, 1, [c \in 0 .. 3 |-> IF c = 3 THEN 1 ELSE 0])

ShortZero == MpNumber(1, 1, [c \in 0 .. 3 |-> 0])
MpSmall == {MpZero, ShortZero}
               \cup {MpNumber(s, e, d) : s \in {1, -1}, e \in 0 .. 2, d \in Normalised({0, 3}, {1, 3})}

\* Pairs of numbers with exponents up to five apart, of both signs, among them
\* numbers that cancel and those whose sum has a digit more, and both zeros.
MCOperands ==
    ({MpNumber(s, 0, d) : s \in {1, -1}, d \in Normalised({0, 1, 3}, {1, 2, 3})}
         \X {MpNumber(s, e, d) : s \in {1, -1}, e \in -5 .. 5, d \in Normalised({0, 3}, {1, 3})})
    \cup ({MpNumber(1, e, d) : e \in {0, 1}, d \in Normalised(0 .. 3, 1 .. 3)}
         \X ({MpZero} \cup {MpNumber(-1, 0, d) : d \in Normalised({0, 1}, {1, 2})}))
    \cup {<<MpZero, MpZero>>, <<MpZero, MpOne>>}
    \cup ({ShortZero} \X MpSmall) \cup (MpSmall \X {ShortZero})
MCInverted ==
    {MpNumber(s, e, d) : s \in {1, -1}, e \in {-3, 0, 1, 2}, d \in Normalised(0 .. 3, 1 .. 3)}

Arith == INSTANCE MpArith WITH Len0 <- 4, Shift <- 2, RealBits <- 3, QuotientDigits <- 10,
                               MaxNewton <- 6, Operands <- MCOperands, Inverted <- MCInverted,
                               b <- arithB

-----------------------------------------------------------------------------
\* All texts of up to five of these characters, and texts put together from
\* letters, sizes and vector parts; an int is at most 127.
Alphabet == {"i", "r", "-", "v", "x", "0", "2", "?"}
MCTexts ==
    UNION {[1 .. l -> Alphabet] : l \in 0 .. 5}
    \cup {flags \o sizes \o vector :
          flags \in {<<>>, <<"o", "/">>, <<"I", "b", "F">>, <<"R", "+", "c">>,
                     <<"f", "C", "O", "B">>},
          sizes \in {<<"1">>, <<"1", "6">>, <<"3", "X", "4", "0">>,
                     <<"5", "*", "6", ",", "7">>, <<"1", "x", "1", "x", "1", "x", "1">>,
                     <<"9", "9", "9">>, <<"9", "9", ",", "9">>, <<"8", "x", "v">>},
          vector \in {<<>>, <<"V", "2">>, <<"+", "9", "X", "1">>,
                      <<"v", "1", ",", "1", ",", "1">>, <<"-">>, <<"v", "x">>, <<"z", "9">>}}

-----------------------------------------------------------------------------
\* Machines of 1 to 160 turns in a microsecond and one that skips the loop,
\* with clocks of one microsecond, seven, ten, and ten thousand.
MCMachines == [rate : {0, 1, 7, 30, 64, 97, 100, 160}, tick : {1, 7, 10, 10000}]

-----------------------------------------------------------------------------
\* All command lines of up to three of these arguments, a problem being named for
\* its place, and longer ones of problems, options without an argument and with
\* one, and "--".
Arguments ==
    [empty |-> <<>>, minus |-> <<"-">>, dashes |-> <<"-", "-">>,
     p |-> <<"-", "p">>, r |-> <<"-", "r">>,
     r7 |-> <<"-", "r", "7">>, v |-> <<"-", "v">>, pvr |-> <<"-", "p", "v", "r">>,
     xpr |-> <<"-", "x", "p", "r">>, verify |-> <<"-", "-", "ver", "ify">>,
     ver |-> <<"-", "-", "ver">>, verb |-> <<"-", "-", "ver", "bose">>,
     infoall |-> <<"-", "-", "info", "-all", "=", "7">>, rep |-> <<"-", "-", "speed", "=", "7">>,
     time |-> <<"-", "-", "time", "-r">>]
Written(kinds) == [c \in DOMAIN kinds |->
                      IF kinds[c] = "problem" THEN <<<<"f", "g", "h", "i", "j", "k">>[c]>>
                                              ELSE Arguments[kinds[c]]]
MCCommandLines ==
    {Written(kinds) :
         kinds \in UNION {[1 .. l -> {"problem"} \cup DOMAIN Arguments] : l \in 0 .. 3}}
    \cup {Written(kinds) :
              kinds \in UNION {[1 .. l -> {"problem", "p", "r", "dashes"}] : l \in 4 .. 6}}

-----------------------------------------------------------------------------
\* What is in the variables of the routines that do not run.
ErrorIdle == /\ A = 0 /\ B = 0 /\ haveIsnan = 0 /\ i = 0 /\ error = 0
             /\ mag = 0 /\ pc = "idle" /\ verdict = 0
HermIdle == /\ p = 0 /\ hermPc = "idle" /\ b = 0 /\ k = 0 /\ reals = 0 /\ out = 0
            /\ ownPc = "idle"
TesterIdle == /\ testerProblem = 0 /\ code = 0 /\ test = "idle" /\ dim = 0
MpIdle == /\ calls = 0 /\ direction = 0 /\ mpPc = "idle" /\ array = 0 /\ x = 0
          /\ span = 0 /\ j = 0 /\ return = 0 /\ cachedN = 0 /\ w = 0
          /\ blueN = 0 /\ blueW = 0 /\ blueY = 0 /\ blueK = 0 /\ ksq = 0
          /\ errors = 0
ArithIdle == /\ a = 0 /\ arithB = 0 /\ arithPc = "idle" /\ sum = 0 /\ difference = 0
             /\ product = 0 /\ real = 0 /\ xinv = 0 /\ rounds = 0
ParseIdle == /\ text = <<>> /\ at = 0 /\ goal = "idle" /\ n = 0
             /\ problem = [n |-> <<>>, vn |-> <<>>]
CalIdle == /\ machine = 0 /\ calPc = "idle" /\ tmin = 0 /\ tries = 0
           /\ amount = 0 /\ time = 0 /\ baseline = 0 /\ point = 0
           /\ overflow = FALSE

OptIdle == /\ args = 0 /\ ordering = 0 /\ argv = 0 /\ optind = 0 /\ nextchar = 0
           /\ firstNonopt = 0 /\ lastNonopt = 0 /\ bottom = 0 /\ top = 0
           /\ after = 0 /\ returned = 0 /\ optPc = "idle"

RoutinesInit ==
    \/ routine = "acmp" /\ Init
       /\ HermIdle /\ TesterIdle /\ MpIdle /\ ArithIdle /\ ParseIdle /\ CalIdle /\ OptIdle
    \/ routine = "copy_h2c" /\ HermInit /\ ownPc = "idle"
       /\ ErrorIdle /\ TesterIdle /\ MpIdle /\ ArithIdle /\ ParseIdle /\ CalIdle /\ OptIdle
    \/ routine = "copy_own" /\ Own!OwnInit /\ hermPc = "idle"
       /\ ErrorIdle /\ TesterIdle /\ MpIdle /\ ArithIdle /\ ParseIdle /\ CalIdle /\ OptIdle
    \/ routine = "do_verify" /\ Tester!TesterInit
       /\ ErrorIdle /\ HermIdle /\ MpIdle /\ ArithIdle /\ ParseIdle /\ CalIdle /\ OptIdle
    \/ routine = "fftaccuracy" /\ Mp!MpInit
       /\ ErrorIdle /\ HermIdle /\ TesterIdle /\ ArithIdle /\ ParseIdle /\ CalIdle /\ OptIdle
    \/ routine = "mp" /\ Arith!ArithInit
       /\ ErrorIdle /\ HermIdle /\ TesterIdle /\ MpIdle /\ ParseIdle /\ CalIdle /\ OptIdle
    \/ routine = "problem_parse" /\ ParseInit
       /\ ErrorIdle /\ HermIdle /\ TesterIdle /\ MpIdle /\ ArithIdle /\ CalIdle /\ OptIdle
    \/ routine = "calibrate" /\ CalInit
       /\ ErrorIdle /\ HermIdle /\ TesterIdle /\ MpIdle /\ ArithIdle /\ ParseIdle /\ OptIdle
    \/ routine = "getopt" /\ OptInit
       /\ ErrorIdle /\ HermIdle /\ TesterIdle /\ MpIdle /\ ArithIdle /\ ParseIdle /\ CalIdle

\* A step of the routine that runs.
AcmpStep == /\ routine = "acmp" /\ Next
            /\ UNCHANGED <<routine, ownPc, hermVars, testerVars, mpVars,
                           arithVars, parseVars, calVars, optVars>>
HermStep == /\ routine = "copy_h2c" /\ HermNext
            /\ UNCHANGED <<routine, ownPc, vars, testerVars, mpVars, arithVars,
                           parseVars, calVars, optVars>>
OwnStep == /\ routine = "copy_own" /\ Own!OwnNext
           /\ UNCHANGED <<routine, hermPc, vars, testerVars, mpVars, arithVars,
                          parseVars, calVars, optVars>>
TesterStep == /\ routine = "do_verify" /\ Tester!TesterNext
              /\ UNCHANGED <<routine, ownPc, vars, hermVars, mpVars, arithVars,
                             parseVars, calVars, optVars>>
MpStep == /\ routine = "fftaccuracy" /\ Mp!MpNext
          /\ UNCHANGED <<routine, ownPc, vars, hermVars, testerVars, arithVars,
                         parseVars, calVars, optVars>>
ArithStep == /\ routine = "mp" /\ Arith!ArithNext
             /\ UNCHANGED <<routine, ownPc, vars, hermVars, testerVars, mpVars,
                            parseVars, calVars, optVars>>
ParseStep == /\ routine = "problem_parse" /\ ParseNext
             /\ UNCHANGED <<routine, ownPc, vars, hermVars, testerVars, mpVars,
                            arithVars, calVars, optVars>>
CalStep == /\ routine = "calibrate" /\ CalNext
           /\ UNCHANGED <<routine, ownPc, vars, hermVars, testerVars, mpVars,
                          arithVars, parseVars, optVars>>
OptStep == /\ routine = "getopt" /\ OptNext
           /\ UNCHANGED <<routine, ownPc, vars, hermVars, testerVars, mpVars,
                          arithVars, parseVars, calVars>>

Over == /\ \/ pc = "done"
           \/ hermPc \in {"done", "assertion"}
           \/ ownPc = "done"
           \/ test \in {"passed", "exit"}
           \/ mpPc = "return" /\ Len(calls) = 1
           \/ arithPc \in {"operated", "inverted"}
           \/ goal \in {"done", "assertion"}
           \/ calPc = "done"
           \/ optPc = "done"
        /\ UNCHANGED routineVars

RoutinesNext == \/ AcmpStep \/ HermStep \/ OwnStep \/ TesterStep \/ MpStep \/ ArithStep
                \/ ParseStep \/ CalStep \/ OptStep
                \/ Over
RoutinesSpec == RoutinesInit /\ [][RoutinesNext]_routineVars

-----------------------------------------------------------------------------
\* The properties of the routines, each of the states in which its routine
\* runs.  VerdictIsRight, LayoutAsDocumented, RoundTrip, ParsesAsWritten,
\* CalibrationIsSound and OptionsInOrder are those of the modules extended, true
\* where another routine runs.

\* The verifier decides rightly of a program: do_verify passes exactly the codes
\* that compute the transform, and the arrays that it writes to a program and
\* reads from it through a layout of the program's own come through.
TesterDecides == /\ routine = "do_verify" => Tester!TesterDecides
                 /\ routine = "copy_own" => Own!RoundTrip

\* The errors that fftaccuracy reports are those against the transform.
ReferenceIsDft == routine = "fftaccuracy" => Mp!ReferenceIsDft

\* The numbers of mp.c are right up to their last digits.
ArithIsRounded == routine = "mp" => Arith!ArithIsRounded

=============================================================================
