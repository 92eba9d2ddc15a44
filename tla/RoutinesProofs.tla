--------------------------- MODULE RoutinesProofs ---------------------------
(***************************************************************************)
(* Routines of libbench, for all inputs: what acmp() decides of two arrays, *)
(* which intervals calibrate() accepts, what problem_parse() makes of a    *)
(* text, and getopt_long() of a command line.                              *)
(***************************************************************************)
EXTENDS ErrorNorm, Calibrate, ProblemParse, GetOpt, WellFoundedInduction, TLAPS

(***************************************************************************)
(* acmp: error and mag are the largest distance and the largest size.      *)
(***************************************************************************)
\* After i elements error and mag are the largest distance and the largest
\* common size seen, as long as there is no NaN.
LargestError == /\ error \in Nat
                /\ \A j \in Index : j < i => Distance(j) <= error
                /\ error = 0 \/ \E j \in Index : error = Distance(j)
LargestMag == /\ mag \in Nat
              /\ \A j \in Index : j < i => Common(j) <= mag
              /\ mag = 0 \/ \E j \in Index : mag = Common(j)

Decision == IF haveIsnan /\ QuotientIsNaN THEN "assertion"
            ELSE IF QuotientAboveTol THEN "failed" ELSE "passed"

VerdictInv == /\ pc # "scan" => i = N
              /\ pc = "compare" => ~(haveIsnan /\ QuotientIsNaN)
              /\ pc = "done" => verdict = Decision

AcmpInv == TypeOK /\ (NaNFree => LargestError /\ LargestMag) /\ VerdictInv

-----------------------------------------------------------------------------
\* The helpers on numbers that may be NaN.
LEMMA NumberTypes ==
    /\ \A x \in Int \cup {NaN} : dabs(x) \in Nat \cup {NaN}
    /\ \A x, y \in Int \cup {NaN} : Minus(x, y) \in Int \cup {NaN}
    /\ \A x, y \in Nat \cup {NaN} : /\ dmax(x, y) \in Nat \cup {NaN}
                                    /\ dmin(x, y) \in Nat \cup {NaN}
BY NaNAssumption DEF dabs, dmax, dmin, Minus, Less

\* ... and on numbers that are not.
LEMMA PlainNumbers ==
    /\ \A x \in Int : dabs(x) \in Nat
    /\ \A x, y \in Int : Minus(x, y) \in Int
    /\ \A x, y \in Nat : /\ dmax(x, y) \in Nat /\ dmin(x, y) \in Nat
                         /\ dmax(x, y) \in {x, y}
                         /\ x <= dmax(x, y) /\ y <= dmax(x, y)
BY NaNAssumption DEF dabs, dmax, dmin, Minus, Less

\* What cerror() computes of an element is a number or NaN.
LEMMA ElementTypes ==
    ASSUME TypeOK, NEW j \in Index
    PROVE  Common(j) \in Nat \cup {NaN} /\ Distance(j) \in Nat \cup {NaN}
<1>1. /\ A[j].re \in Int \cup {NaN} /\ A[j].im \in Int \cup {NaN}
      /\ B[j].re \in Int \cup {NaN} /\ B[j].im \in Int \cup {NaN}
    BY NaNAssumption DEF TypeOK, Complex
<1>2. norm2(A[j]) \in Nat \cup {NaN} /\ norm2(B[j]) \in Nat \cup {NaN}
    BY <1>1, NumberTypes DEF norm2
<1>3. norm2(Difference(A[j], B[j])) \in Nat \cup {NaN}
    <2>1. /\ Minus(A[j].re, B[j].re) \in Int \cup {NaN}
          /\ Minus(A[j].im, B[j].im) \in Int \cup {NaN}
        BY <1>1, NumberTypes
    <2> QED  BY <2>1, NumberTypes DEF norm2, Difference
<1> QED  BY <1>2, <1>3, NumberTypes DEF Common, Distance

\* ... and a number if the arrays contain no NaN.
LEMMA PlainElements ==
    ASSUME TypeOK, NaNFree, NEW j \in Index
    PROVE  Common(j) \in Nat /\ Distance(j) \in Nat
<1>1. /\ A[j].re \in Int /\ A[j].im \in Int
      /\ B[j].re \in Int /\ B[j].im \in Int
    BY NaNAssumption DEF TypeOK, Complex, NaNFree
<1>2. norm2(A[j]) \in Nat /\ norm2(B[j]) \in Nat
    BY <1>1, PlainNumbers DEF norm2
<1>3. norm2(Difference(A[j], B[j])) \in Nat
    <2>1. Minus(A[j].re, B[j].re) \in Int /\ Minus(A[j].im, B[j].im) \in Int
        BY <1>1, PlainNumbers
    <2> QED  BY <2>1, PlainNumbers DEF norm2, Difference
<1> QED  BY <1>2, <1>3, PlainNumbers DEF Common, Distance

\* Multiplying two ordered numbers by a natural number keeps their order.
LEMMA Scale ==
    ASSUME NEW a \in Nat, NEW b \in Nat, NEW f \in Nat, a <= b
    PROVE  a * f <= b * f /\ f * a <= f * b
BY SMT

-----------------------------------------------------------------------------
\* Nothing has been looked at.
LEMMA AcmpInitHolds == Init => AcmpInv
BY NAssumption
   DEF Init, AcmpInv, TypeOK, LargestError, LargestMag, VerdictInv, Index

\* The arrays stay what they are, and with them everything said of elements.
LEMMA ArraysStay ==
    ASSUME UNCHANGED <<A, B>>
    PROVE  /\ NaNFree' = NaNFree
           /\ \A j \in Index : /\ Distance(j)' = Distance(j)
                               /\ Common(j)' = Common(j)
BY DEF NaNFree, Distance, Common, Index

\* One element more.
LEMMA ScanPreserves ==
    ASSUME AcmpInv, Scan
    PROVE  AcmpInv'
<1> USE DEF AcmpInv
<1>1. i \in Index /\ i' = i + 1 /\ i' \in 0 .. N /\ pc' = pc /\ pc = "scan"
    BY NAssumption DEF Scan, TypeOK, Index
<1>2. TypeOK'
    <2>1. Common(i) \in Nat \cup {NaN} /\ Distance(i) \in Nat \cup {NaN}
        BY <1>1, ElementTypes
    <2>2. error' \in Nat \cup {NaN} /\ mag' \in Nat \cup {NaN}
        BY <2>1, NumberTypes DEF Scan, TypeOK
    <2> QED  BY <1>1, <2>2 DEF Scan, TypeOK
<1>3. ASSUME NaNFree'
      PROVE  LargestError' /\ LargestMag'
    <2>1. /\ NaNFree
          /\ \A j \in Index : /\ Distance(j)' = Distance(j)
                              /\ Common(j)' = Common(j)
        BY <1>3, ArraysStay DEF Scan
    <2>2. \A j \in Index : Common(j) \in Nat /\ Distance(j) \in Nat
        BY <2>1, PlainElements
    <2>3. error' = dmax(error, Distance(i)) /\ mag' = dmax(mag, Common(i))
        BY DEF Scan
    <2>4. \A j \in Index : j < i' => j < i \/ j = i
        BY <1>1 DEF Index
    <2>5. LargestError /\ LargestMag
        BY <2>1
    <2>6. LargestError'
        <3>1. /\ error' \in Nat /\ error' \in {error, Distance(i)}
              /\ error <= error' /\ Distance(i) <= error'
            BY <1>1, <2>2, <2>3, <2>5, PlainNumbers DEF LargestError
        <3>2. \A j \in Index : j < i' => Distance(j) <= error'
            BY <2>2, <2>4, <2>5, <3>1 DEF LargestError
        <3>3. error' = 0 \/ \E j \in Index : error' = Distance(j)
            BY <1>1, <2>5, <3>1 DEF LargestError
        <3> QED  BY <2>1, <3>1, <3>2, <3>3 DEF LargestError, Index
    <2>7. LargestMag'
        <3>1. /\ mag' \in Nat /\ mag' \in {mag, Common(i)}
              /\ mag <= mag' /\ Common(i) <= mag'
            BY <1>1, <2>2, <2>3, <2>5, PlainNumbers DEF LargestMag
        <3>2. \A j \in Index : j < i' => Common(j) <= mag'
            BY <2>2, <2>4, <2>5, <3>1 DEF LargestMag
        <3>3. mag' = 0 \/ \E j \in Index : mag' = Common(j)
            BY <1>1, <2>5, <3>1 DEF LargestMag
        <3> QED  BY <2>1, <3>1, <3>2, <3>3 DEF LargestMag, Index
    <2> QED  BY <2>6, <2>7
<1>4. VerdictInv'
    BY <1>1 DEF VerdictInv
<1> QED  BY <1>2, <1>3, <1>4

\* The other steps leave the arrays and what was found in them alone.
LEMMA RestPreserves ==
    ASSUME AcmpInv, Divide \/ Compare \/ UNCHANGED vars
    PROVE  AcmpInv'
<1> USE DEF AcmpInv
<1>1. /\ A' = A /\ B' = B /\ haveIsnan' = haveIsnan
      /\ i' = i /\ error' = error /\ mag' = mag
    BY DEF Divide, Compare, vars
<1>2. /\ NaNFree' = NaNFree
      /\ QuotientIsNaN' = QuotientIsNaN /\ QuotientAboveTol' = QuotientAboveTol
      /\ Decision' = Decision
    BY <1>1 DEF NaNFree, QuotientIsNaN, QuotientAboveTol, Decision
<1>3. (LargestError' = LargestError) /\ (LargestMag' = LargestMag)
    BY <1>1 DEF LargestError, LargestMag, Distance, Common
<1>4. TypeOK'
    BY <1>1 DEF TypeOK, Divide, Compare, vars
<1>5. VerdictInv'
    BY <1>1, <1>2 DEF VerdictInv, Divide, Compare, vars, Decision
<1> QED  BY <1>2, <1>3, <1>4, <1>5

\* The inductive invariant of acmp.
THEOREM AcmpInvHolds == Spec => []AcmpInv
<1>1. Init => AcmpInv
    BY AcmpInitHolds
<1>2. AcmpInv /\ [Next]_vars => AcmpInv'
    <2> SUFFICES ASSUME AcmpInv, [Next]_vars PROVE AcmpInv'
        OBVIOUS
    <2>1. CASE Scan
        BY <2>1, ScanPreserves
    <2>2. CASE Divide \/ Compare \/ UNCHANGED vars
        BY <2>2, RestPreserves
    <2> QED  BY <2>1, <2>2 DEF Next, Finished
<1> QED  BY <1>1, <1>2, PTL DEF Spec

\* The variables of acmp keep their types whatever is compared, NaN included,
\* and it has a verdict exactly when it is done.
THEOREM AcmpTypeCorrect == Spec => []TypeOK
<1>1. AcmpInv => TypeOK
    BY DEF AcmpInv
<1> QED  BY <1>1, AcmpInvHolds, PTL

-----------------------------------------------------------------------------
\* At the end of the loop the comparison of the two largest numbers says
\* whether the arrays are close.
LEMMA QuotientIsRight ==
    ASSUME AcmpInv, NaNFree, i = N
    PROVE  (QuotientAboveTol <=> ~Close) /\ (QuotientIsNaN <=> AllZero)
<1>1. /\ error \in Nat /\ mag \in Nat /\ error # NaN /\ mag # NaN
      /\ \A j \in Index : Distance(j) <= error /\ Common(j) <= mag
      /\ error = 0 \/ \E j \in Index : error = Distance(j)
      /\ mag = 0 \/ \E j \in Index : mag = Common(j)
    BY NAssumption, NaNAssumption DEF AcmpInv, LargestError, LargestMag, Index
<1>2. \A j \in Index : Common(j) \in Nat /\ Distance(j) \in Nat
    BY PlainElements DEF AcmpInv
<1>3. 0 \in Index
    BY NAssumption DEF Index
<1>4. PICK k \in Index : mag = Common(k)
    BY <1>1, <1>2, <1>3
<1>5. PICK m \in Index : error = 0 \/ error = Distance(m)
    BY <1>1, <1>3
<1>6. Close <=> error * TolDen <= TolNum * mag
    <2>1. ASSUME Close PROVE error * TolDen <= TolNum * mag
        <3>1. PICK l \in Index : Distance(m) * TolDen <= TolNum * Common(l)
            BY <2>1 DEF Close
        <3>2. TolNum * Common(l) <= TolNum * mag
            BY <1>1, <1>2, Scale, TolAssumption
        <3>3. error * TolDen <= Distance(m) * TolDen
            <4>1. error <= Distance(m)
                BY <1>1, <1>2, <1>5
            <4> QED  BY <1>1, <1>2, <4>1, Scale, TolAssumption
        <3>4. /\ error * TolDen \in Nat /\ Distance(m) * TolDen \in Nat
              /\ TolNum * Common(l) \in Nat /\ TolNum * mag \in Nat
            BY <1>1, <1>2, TolAssumption, SMT
        <3> QED  BY <3>1, <3>2, <3>3, <3>4
    <2>2. ASSUME error * TolDen <= TolNum * mag PROVE Close
        <3> SUFFICES ASSUME NEW j \in Index
                     PROVE  Distance(j) * TolDen <= TolNum * Common(k)
            BY DEF Close
        <3>1. Distance(j) * TolDen <= error * TolDen
            BY <1>1, <1>2, Scale, TolAssumption
        <3>2. /\ error * TolDen \in Nat /\ Distance(j) * TolDen \in Nat
              /\ TolNum * mag \in Nat
            BY <1>1, <1>2, TolAssumption, SMT
        <3> QED  BY <1>4, <2>2, <3>1, <3>2
    <2> QED  BY <2>1, <2>2
<1>7. (error = 0 /\ mag = 0) <=> AllZero
    <2>1. ASSUME error = 0, mag = 0 PROVE AllZero
        BY <1>1, <1>2, <2>1 DEF AllZero
    <2>2. ASSUME AllZero PROVE error = 0 /\ mag = 0
        BY <1>4, <1>5, <2>2 DEF AllZero
    <2> QED  BY <2>1, <2>2
<1>8. error * TolDen > TolNum * mag => ~(error = 0 /\ mag = 0)
    BY <1>1, TolAssumption, SMT
<1>9. error * TolDen \in Nat /\ TolNum * mag \in Nat
    BY <1>1, TolAssumption, SMT
<1>10. QuotientAboveTol <=> error * TolDen > TolNum * mag
    BY <1>1, <1>8 DEF QuotientAboveTol, QuotientIsNaN
<1>11. QuotientIsNaN <=> (error = 0 /\ mag = 0)
    BY <1>1 DEF QuotientIsNaN
<1> QED  BY <1>6, <1>7, <1>9, <1>10, <1>11

\* Arrays of zeros are close.
LEMMA ZerosAreClose ==
    ASSUME AllZero
    PROVE  Close
BY TolAssumption, SMT DEF AllZero, Close

\* For every length, all numbers and every tolerance acmp judges arrays
\* without NaN rightly.
THEOREM JudgesRightly == Spec => []VerdictIsRight
<1>1. AcmpInv => VerdictIsRight
    <2> SUFFICES ASSUME AcmpInv, pc = "done", NaNFree
                 PROVE  /\ verdict = "failed" <=> ~Close
                        /\ verdict = "passed" <=>
                             Close /\ ~(haveIsnan /\ AllZero)
        BY DEF VerdictIsRight
    <2>1. i = N /\ verdict = Decision
        BY DEF AcmpInv, VerdictInv
    <2>2. (QuotientAboveTol <=> ~Close) /\ (QuotientIsNaN <=> AllZero)
        BY <2>1, QuotientIsRight
    <2> QED  BY <2>1, <2>2, ZerosAreClose DEF Decision
<1> QED  BY <1>1, AcmpInvHolds, PTL
-----------------------------------------------------------------------------
(***************************************************************************)
(* calibrate: times are whole ticks of the clock.                          *)
(***************************************************************************)
LEMMA Division ==
    ASSUME NEW m \in Nat, NEW d \in Nat \ {0}
    PROVE  \E k \in Nat, r \in 0 .. d - 1 :
              m \div d = k /\ m % d = r /\ m = d * k + r
<1>1. m \div d \in Int /\ m \div d >= 0 OBVIOUS
<1>2. m % d \in 0 .. d - 1 OBVIOUS
<1>3. PICK k \in Nat : k = m \div d BY <1>1
<1>4. PICK r \in 0 .. d - 1 : r = m % d BY <1>2
<1>5. m = d * k + r BY <1>3, <1>4
<1>6. QED BY <1>3, <1>4, <1>5

\* What fits in an int is stored as it is.
LEMMA Wrapped ==
    ASSUME NEW m \in Int, 0 <= m, m <= IntMax
    PROVE  WrapInt(m) = m
BY IntMaxAssumption DEF WrapInt

\* Fewer ticks than 143 cannot all be within a thousandth of the proportions.
LEMMA TicksNeeded ==
    ASSUME NEW s \in 1 .. 142, NEW m1 \in Nat, NEW m2 \in Nat, NEW m3 \in Nat,
           1000 * (1015 * s - 1000 * m1) <= 1015 * s,
           1000 * (1000 * m1 - 1015 * s) <= 1015 * s,
           1000 * (1020 * s - 1000 * m2) <= 1020 * s,
           1000 * (1000 * m2 - 1020 * s) <= 1020 * s,
           1000 * (1035 * s - 1000 * m3) <= 1035 * s,
           1000 * (1000 * m3 - 1035 * s) <= 1035 * s
    PROVE  FALSE
BY SMTT(60)

\* An accepted interval has seen each test point at a whole number of ticks
\* that is within a thousandth of the expected one.
PointPassed(q) == \E m \in Nat : ~Deviates(m * Tick, TestPoints[q])

CalTypeOK ==
    /\ machine \in Machines
    /\ calPc \in {"start", "find_n", "acceptable", "reject", "done"}
    /\ tmin \in Nat /\ tries \in Nat /\ amount \in Int
    /\ time \in Nat /\ baseline \in Nat /\ point \in 1 .. 4
    /\ overflow \in BOOLEAN

\* The clock shows whole ticks, none if nothing is done.
WholeTicks == /\ \E m \in Nat : time = m * Tick
              /\ \E m \in Nat : baseline = m * Tick
              /\ Rate = 0 => time = 0

TrialInv == /\ calPc # "start" => tmin >= 1
            /\ calPc \in {"start", "find_n"} => point = 1
            /\ calPc \in {"find_n", "acceptable", "reject"} => tmin < TmaxTry
            /\ calPc = "acceptable" \/ Accepted => Rate # 0

\* On a machine that is not too fast the work is that of the time measured.
AmountInv == ~(Rate = 0 \/ TooFast) =>
                 /\ ~overflow
                 /\ calPc = "find_n" => amount \in 1 .. IntMax /\ time \in Times(amount)

PointsInv == calPc = "acceptable" \/ Accepted =>
                 /\ \A q \in 1 .. point - 1 : PointPassed(q)
                 /\ calPc = "done" => point = 4

CalInv == CalTypeOK /\ WholeTicks /\ TrialInv /\ AmountInv /\ PointsInv

-----------------------------------------------------------------------------
\* The work whose time is a whole number of ticks, more or less.
LEMMA WorkOfTime ==
    ASSUME CalTypeOK, Rate # 0, NEW m \in Nat \ {0}, NEW t \in Times(m)
    PROVE  /\ t \in Nat
           /\ \E c \in Nat : t = c * Tick
           /\ t < TminTry => m < Rate * Tick
           /\ t >= TminTry => m < 2 * Rate * t
<1>1. Rate \in Nat \ {0} /\ Tick \in Nat \ {0}
  BY MachinesAssumption DEF CalTypeOK, Rate, Tick
<1>2. PICK d \in Nat \ {0} : d = Rate * Tick BY <1>1
<1>3. PICK k \in Nat, r \in 0 .. d - 1 :
           m \div d = k /\ m % d = r /\ m = d * k + r
  BY <1>2, Division
<1>4. t = k * Tick \/ (t = (k + 1) * Tick /\ r # 0)
  <2>1. t \in {k * Tick} \cup {u \in {(k + 1) * Tick} : r # 0}
    <3>1. ~(Rate = 0 \/ m <= 0) OBVIOUS
    <3>2. m \div (Rate * Tick) = k /\ m % (Rate * Tick) = r BY <1>2, <1>3
    <3>3. QED BY <3>1, <3>2, Zenon DEF Times
  <2>2. QED BY <2>1
<1>5. PICK c \in Nat : t = c * Tick /\ c \in {k, k + 1} BY <1>4
<1>6. t \in Nat BY <1>1, <1>5
<1>7. m < d * (k + 1) BY <1>2, <1>3
<1>8. m < d * (c + 1)
  <2>1. d * (k + 1) <= d * (c + 1) BY <1>2, <1>5
  <2>2. QED BY <1>2, <1>7, <2>1
<1>9. CASE c = 0
  <2>1. t = 0 BY <1>1, <1>5, <1>9
  <2>2. QED BY <1>2, <1>6, <1>8, <1>5, <1>9, <2>1 DEF TminTry
<1>10. CASE c >= 1
  <2>1. t >= 1 BY <1>1, <1>5, <1>10
  <2>2. d * (c + 1) <= d * (2 * c) BY <1>2, <1>10
  <2>3. d * (2 * c) = 2 * Rate * t BY <1>1, <1>2, <1>5
  <2>4. 2 * Rate * t \in Int BY <1>1, <1>6
  <2>5. m < 2 * Rate * t BY <1>2, <1>8, <2>2, <2>3, <2>4
  <2>6. QED BY <1>5, <1>6, <2>1, <2>5 DEF TminTry
<1>11. QED BY <1>9, <1>10

\* Every time is a whole number of ticks, and nothing takes no time.
LEMMA WholeTime ==
    ASSUME CalTypeOK, NEW m \in Int, NEW t \in Times(m)
    PROVE  t \in Nat /\ (\E c \in Nat : t = c * Tick) /\ (Rate = 0 => t = 0)
<1>1. Tick \in Nat BY MachinesAssumption DEF CalTypeOK, Tick
<1>2. CASE Rate = 0 \/ m <= 0
  <2>1. t = 0 BY <1>2 DEF Times
  <2>2. t = 0 * Tick BY <1>1, <2>1
  <2>3. QED BY <2>1, <2>2
<1>3. CASE ~(Rate = 0 \/ m <= 0)
  <2>1. m \in Nat \ {0} BY <1>3
  <2>2. QED BY <1>3, <2>1, WorkOfTime
<1>4. QED BY <1>2, <1>3

\* Nothing has been tried.
LEMMA CalInitHolds == CalInit => CalInv
<1> SUFFICES ASSUME CalInit PROVE CalInv
  OBVIOUS
<1>1. Tick \in Nat BY MachinesAssumption DEF CalInit, Tick
<1>2. CalTypeOK
  <2>1. overflow \in BOOLEAN BY Zenon DEF CalInit
  <2>2. QED BY <2>1 DEF CalInit, CalTypeOK
<1>3. WholeTicks
  <2>1. time = 0 * Tick /\ baseline = 0 * Tick BY <1>1 DEF CalInit
  <2>2. QED BY <2>1 DEF CalInit, WholeTicks
<1>4. TrialInv /\ AmountInv /\ PointsInv
  BY DEF CalInit, TrialInv, AmountInv, PointsInv, Accepted
<1>5. QED BY <1>2, <1>3, <1>4 DEF CalInv

\* A new interval, or the end.
LEMMA TryHolds ==
    ASSUME CalInv, NEW interval \in Nat \ {0}, TryInterval(interval),
           UNCHANGED <<machine, overflow>>
    PROVE  CalInv'
<1> USE DEF CalInv
<1>1. Rate' = Rate /\ Tick' = Tick /\ TooFast' = TooFast
  BY DEF Rate, Tick, TooFast
<1>2. Tick \in Nat BY MachinesAssumption DEF CalTypeOK, Tick
<1>3. baseline' = 0 * Tick' /\ baseline' = 0 BY <1>1, <1>2 DEF TryInterval
<1>4. CASE interval < TmaxTry
  <2>1. /\ calPc' = "find_n" /\ tmin' = interval /\ tries' = 0 /\ amount' = 10000
        /\ time' \in Times(10000) /\ point' = 1
    BY <1>4 DEF TryInterval, TimeN
  <2>2. time' \in Nat /\ (\E c \in Nat : time' = c * Tick) /\ (Rate = 0 => time' = 0)
    BY <2>1, WholeTime
  <2>3. CalTypeOK' BY <1>3, <2>1, <2>2 DEF CalTypeOK
  <2>4. WholeTicks' BY <1>1, <1>3, <2>2 DEF WholeTicks
  <2>5. TrialInv' BY <1>4, <2>1 DEF TrialInv, Accepted
  <2>6. AmountInv'
    <3>1. time' \in Times(10000)' BY <1>1, <2>1 DEF Times
    <3>2. time' \in Times(amount)' BY <2>1, <3>1
    <3>3. QED BY <1>1, <2>1, <3>2, IntMaxAssumption DEF AmountInv
  <2>7. PointsInv' BY <2>1 DEF PointsInv, Accepted
  <2>8. QED BY <2>3, <2>4, <2>5, <2>6, <2>7
<1>5. CASE ~(interval < TmaxTry)
  <2>1. /\ calPc' = "done" /\ tmin' = interval /\ point' = 1
        /\ UNCHANGED <<tries, amount, time>>
    BY <1>5 DEF TryInterval
  <2>2. ~Accepted' BY <1>5, <2>1 DEF Accepted
  <2>3. CalTypeOK' BY <1>3, <2>1 DEF CalTypeOK
  <2>4. WholeTicks' BY <1>1, <1>3, <2>1 DEF WholeTicks
  <2>5. TrialInv' BY <2>1, <2>2 DEF TrialInv
  <2>6. AmountInv' BY <1>1, <2>1 DEF AmountInv
  <2>7. PointsInv' BY <2>1, <2>2 DEF PointsInv
  <2>8. QED BY <2>3, <2>4, <2>5, <2>6, <2>7
<1>6. QED BY <1>4, <1>5

\* The next amount of work of find_n.
LEMMA NextAmount ==
    ASSUME CalInv, calPc = "find_n", ~(Rate = 0 \/ TooFast)
    PROVE  (IF time < TminTry THEN 10 * amount ELSE Scaled) \in 1 .. IntMax
<1> USE DEF CalInv
<1>1. amount \in 1 .. IntMax /\ time \in Times(amount) BY DEF AmountInv
<1>2. Rate \in Nat \ {0} /\ Tick \in Nat \ {0}
  BY MachinesAssumption DEF CalTypeOK, Rate, Tick
<1>3. /\ time \in Nat
      /\ time < TminTry => amount < Rate * Tick
      /\ time >= TminTry => amount < 2 * Rate * time
  BY <1>1, WorkOfTime
<1>4. CASE time < TminTry
  <2>1. PICK d \in Nat : d = Rate * Tick BY <1>2
  <2>2. 10 * Rate * Tick = 10 * d BY <1>2, <2>1
  <2>3. 10 * d <= IntMax BY <2>1, <2>2, IntMaxAssumption DEF TooFast
  <2>4. QED BY <1>1, <1>3, <1>4, <2>1, <2>3, IntMaxAssumption
<1>5. CASE ~(time < TminTry)
  <2>1. time \in Nat \ {0} BY <1>3, <1>5 DEF TminTry
  <2>2. tmin \in Nat /\ 1 <= tmin /\ tmin < TmaxTry BY DEF CalTypeOK, TrialInv
  <2>3. PICK k \in Nat, r \in 0 .. time - 1 :
             amount \div time = k /\ amount % time = r /\ amount = time * k + r
    BY <1>1, <2>1, Division
  <2>4. r * tmin \in Nat BY <2>2, <2>3
  <2>5. PICK l \in Nat, u \in 0 .. time - 1 :
             (r * tmin) \div time = l /\ r * tmin = time * l + u
    BY <2>1, <2>4, Division
  <2>6. Scaled = k * tmin + l + 1 BY <2>3, <2>5 DEF Scaled
  <2>7. time * (k * tmin + l) <= amount * tmin
    <3>1. amount * tmin = time * k * tmin + r * tmin BY <2>1, <2>2, <2>3
    <3>2. QED BY <3>1, <2>1, <2>2, <2>3, <2>5
  <2>8. amount * tmin < time * (2 * Rate * tmin)
    <3>1. amount < 2 * Rate * time BY <1>3, <1>5, <2>1 DEF TminTry
    <3>2. amount * tmin < (2 * Rate * time) * tmin BY <1>1, <1>2, <2>1, <2>2, <3>1
    <3>3. (2 * Rate * time) * tmin = time * (2 * Rate * tmin) BY <1>2, <2>1, <2>2
    <3>4. QED BY <3>2, <3>3
  <2>9. k * tmin + l < 2 * Rate * tmin
    <3>1. PICK v \in Nat : v = k * tmin + l BY <2>2, <2>3, <2>5
    <3>2. PICK w \in Nat : w = 2 * Rate * tmin BY <1>2, <2>2
    <3>3. time * v < time * w BY <2>7, <2>8, <3>1, <3>2, <1>1, <2>1, <2>2
    <3>4. v < w BY <3>3, <2>1
    <3>5. QED BY <3>1, <3>2, <3>4
  <2>10. 2 * Rate * tmin <= 2 * Rate * TmaxTry
    <3>1. 2 * Rate \in Nat BY <1>2
    <3>2. QED BY <2>2, <3>1, TmaxTryAssumption
  <2>11. 2 * Rate * TmaxTry <= IntMax
    BY <1>2, TmaxTryAssumption, IntMaxAssumption DEF TooFast
  <2>12. Scaled \in 1 .. IntMax
    <3>1. PICK v \in Nat : v = k * tmin + l BY <2>2, <2>3, <2>5
    <3>2. PICK w \in Nat : w = 2 * Rate * tmin BY <1>2, <2>2
    <3>3. w <= IntMax BY <3>2, <2>10, <2>11, <1>2, TmaxTryAssumption, IntMaxAssumption
    <3>4. QED BY <3>1, <3>2, <3>3, <2>6, <2>9, IntMaxAssumption
  <2>13. QED BY <1>5, <2>12
<1>6. QED BY <1>4, <1>5

\* The next amount of work fits in an int if the machine is not too fast.
LEMMA SearchHolds == CalInv /\ Search => CalInv'
<1> SUFFICES ASSUME CalInv, Search PROVE CalInv'
  OBVIOUS
<1> USE DEF CalInv
<1> DEFINE next == IF time < TminTry THEN 10 * amount ELSE Scaled
<1>1. Rate' = Rate /\ Tick' = Tick /\ TooFast' = TooFast
  BY DEF Search, Rate, Tick, TooFast
<1>2. /\ calPc = "find_n" /\ tries < 10 /\ tries' = tries + 1
      /\ amount' = WrapInt(next) /\ time' \in Times(amount')
      /\ overflow' = (overflow \/ next > IntMax)
      /\ UNCHANGED <<machine, calPc, tmin, baseline, point>>
  BY DEF Search, SetAmount, TimeN
<1>3. amount' \in Int
  <2>1. next \in Int
    <3>1. CASE time < TminTry BY <3>1 DEF CalTypeOK
    <3>2. CASE ~(time < TminTry)
      <4>1. time \in Nat \ {0} BY <3>2 DEF CalTypeOK, TminTry
      <4>2. QED BY <3>2, <4>1 DEF CalTypeOK, Scaled
    <3>3. QED BY <3>1, <3>2
  <2>2. QED BY <1>2, <2>1, IntMaxAssumption DEF WrapInt
<1>4. time' \in Nat /\ (\E c \in Nat : time' = c * Tick) /\ (Rate = 0 => time' = 0)
  BY <1>2, <1>3, WholeTime
<1>5. overflow' \in BOOLEAN BY <1>2, Zenon
<1>6. CalTypeOK' BY <1>2, <1>3, <1>4, <1>5 DEF CalTypeOK
<1>7. WholeTicks' BY <1>1, <1>2, <1>4 DEF WholeTicks
<1>8. TrialInv' BY <1>1, <1>2 DEF TrialInv, Accepted
<1>9. AmountInv'
  <2> SUFFICES ASSUME ~(Rate = 0 \/ TooFast)
               PROVE  /\ ~overflow'
                      /\ amount' \in 1 .. IntMax /\ time' \in Times(amount)'
    BY <1>1 DEF AmountInv
  <2>1. next \in 1 .. IntMax BY <1>2, NextAmount
  <2>2. amount' = next BY <1>2, <2>1, IntMaxAssumption, Wrapped
  <2>3. ~overflow
    BY DEF AmountInv
  <2>4. ~(next > IntMax) BY <2>1, IntMaxAssumption
  <2>5. ~overflow' BY <1>2, <2>3, <2>4, Zenon
  <2>6. time' \in Times(amount)' BY <1>1, <1>2 DEF Times
  <2>7. QED BY <2>1, <2>2, <2>5, <2>6
<1>10. PointsInv' BY <1>2 DEF PointsInv, Accepted
<1>11. QED BY <1>6, <1>7, <1>8, <1>9, <1>10

\* A machine that skips the loop comes to no interval that is near enough.
LEMMA FoundHolds == CalInv /\ Found => CalInv'
<1> SUFFICES ASSUME CalInv, Found PROVE CalInv'
  OBVIOUS
<1> USE DEF CalInv
<1>1. Rate' = Rate /\ Tick' = Tick /\ TooFast' = TooFast
  BY DEF Found, Rate, Tick, TooFast
<1>2. /\ calPc = "find_n" /\ Near /\ time' \in Times(amount) /\ baseline' = time'
      /\ calPc' = "acceptable"
      /\ UNCHANGED <<machine, tmin, tries, amount, point, overflow>>
  BY DEF Found, TimeN
<1>3. amount \in Int BY DEF CalTypeOK
<1>4. time' \in Nat /\ (\E c \in Nat : time' = c * Tick) /\ (Rate = 0 => time' = 0)
  BY <1>2, <1>3, WholeTime
<1>5. CalTypeOK' BY <1>2, <1>4 DEF CalTypeOK
<1>6. WholeTicks' BY <1>1, <1>2, <1>4 DEF WholeTicks
<1>7. Rate # 0
  <2>1. time # 0 BY <1>2 DEF Near, TrialInv, CalTypeOK
  <2>2. QED BY <2>1 DEF WholeTicks
<1>8. TrialInv' BY <1>1, <1>2, <1>7 DEF TrialInv, Accepted
<1>9. AmountInv' BY <1>1, <1>2 DEF AmountInv
<1>10. PointsInv' BY <1>2 DEF PointsInv, Accepted, TrialInv
<1>11. QED BY <1>5, <1>6, <1>8, <1>9, <1>10

\* A time that does not deviate is that of a whole number of ticks.
LEMMA TestPointHolds == CalInv /\ TestPoint => CalInv'
<1> SUFFICES ASSUME CalInv, TestPoint PROVE CalInv'
  OBVIOUS
<1> USE DEF CalInv
<1>1. Rate' = Rate /\ Tick' = Tick /\ TooFast' = TooFast
  BY DEF TestPoint, Rate, Tick, TooFast
<1>2. /\ calPc = "acceptable" /\ point \in 1 .. 3
      /\ time' \in Times((amount * TestPoints[point]) \div 1000)
      /\ UNCHANGED <<machine, overflow, baseline, tmin, tries, amount>>
      /\ IF Deviates(time', TestPoints[point])
         THEN calPc' = "reject" /\ point' = point
         ELSE calPc' = calPc /\ point' = point + 1
  BY DEF TestPoint, TimeN, CalTypeOK, TestPoints
<1>3. (amount * TestPoints[point]) \div 1000 \in Int
  BY <1>2 DEF CalTypeOK, TestPoints
<1>4. time' \in Nat /\ (\E c \in Nat : time' = c * Tick) /\ (Rate = 0 => time' = 0)
  BY <1>2, <1>3, WholeTime
<1>5. CalTypeOK' BY <1>2, <1>4 DEF CalTypeOK
<1>6. WholeTicks' BY <1>1, <1>2, <1>4 DEF WholeTicks
<1>7. TrialInv' BY <1>1, <1>2 DEF TrialInv, Accepted
<1>8. AmountInv' BY <1>1, <1>2 DEF AmountInv
<1>9. PointsInv'
  <2>1. CASE Deviates(time', TestPoints[point])
    BY <1>2, <2>1 DEF PointsInv, Accepted
  <2>2. CASE ~Deviates(time', TestPoints[point])
    <3>1. calPc' = "acceptable" /\ point' = point + 1 BY <1>2, <2>2
    <3>2. \A q \in 1 .. point - 1 : PointPassed(q) BY <1>2 DEF PointsInv
    <3>3. PointPassed(point) BY <1>4, <2>2 DEF PointPassed
    <3>4. \A q : PointPassed(q)' <=> PointPassed(q)
      BY <1>1, <1>2 DEF PointPassed, Deviates
    <3>5. \A q \in 1 .. point' - 1 : PointPassed(q)'
      BY <1>2, <3>1, <3>2, <3>3, <3>4
    <3>6. QED BY <3>1, <3>5 DEF PointsInv
  <2>3. QED BY <2>1, <2>2
<1>10. QED BY <1>5, <1>6, <1>7, <1>8, <1>9

\* An interval is accepted when all three test points have been passed.
LEMMA AcceptHolds == CalInv /\ Accept => CalInv'
<1> SUFFICES ASSUME CalInv, Accept PROVE CalInv'
  OBVIOUS
<1> USE DEF CalInv
<1>1. Rate' = Rate /\ Tick' = Tick /\ TooFast' = TooFast
  BY DEF Accept, Rate, Tick, TooFast
<1>2. /\ calPc = "acceptable" /\ calPc' = "done" /\ point = 4
      /\ UNCHANGED <<machine, overflow, baseline, point, tmin, tries, amount, time>>
  BY DEF Accept, CalTypeOK, TestPoints
<1>3. CalTypeOK' BY <1>2 DEF CalTypeOK
<1>4. WholeTicks' BY <1>1, <1>2 DEF WholeTicks
<1>5. TrialInv' BY <1>1, <1>2 DEF TrialInv, Accepted
<1>6. AmountInv' BY <1>1, <1>2 DEF AmountInv
<1>7. PointsInv'
  <2>1. \A q : PointPassed(q)' <=> PointPassed(q)
    BY <1>1, <1>2 DEF PointPassed, Deviates
  <2>2. QED BY <1>2, <2>1 DEF PointsInv
<1>8. QED BY <1>3, <1>4, <1>5, <1>6, <1>7

\* Every step of calibrate.
LEMMA CalNextHolds == CalInv /\ [CalNext]_calVars => CalInv'
<1> SUFFICES ASSUME CalInv, [CalNext]_calVars PROVE CalInv'
  OBVIOUS
<1>1. CASE Calibrate
  <2>1. TminTry \in Nat \ {0} BY DEF TminTry
  <2>2. QED BY <1>1, <2>1, TryHolds DEF Calibrate
<1>2. CASE NotFound \/ Reject
  <2>1. 2 * tmin \in Nat \ {0}
    BY <1>2 DEF CalInv, CalTypeOK, TrialInv, NotFound, Reject
  <2>2. QED BY <1>2, <2>1, TryHolds DEF NotFound, Reject
<1>3. CASE Search BY <1>3, SearchHolds
<1>4. CASE Found BY <1>4, FoundHolds
<1>5. CASE TestPoint BY <1>5, TestPointHolds
<1>6. CASE Accept BY <1>6, AcceptHolds
<1>7. CASE UNCHANGED calVars
  <2>1. Rate' = Rate /\ Tick' = Tick /\ TooFast' = TooFast
    BY <1>7 DEF calVars, Rate, Tick, TooFast
  <2>2. UNCHANGED <<machine, calPc, tmin, tries, amount, time, baseline, point, overflow>>
    BY <1>7 DEF calVars
  <2>3. CalTypeOK' BY <2>2 DEF CalInv, CalTypeOK
  <2>4. WholeTicks' BY <2>1, <2>2 DEF CalInv, WholeTicks
  <2>5. TrialInv' BY <2>1, <2>2 DEF CalInv, TrialInv, Accepted
  <2>6. AmountInv'
    <3>1. \A m : Times(m)' = Times(m) BY <2>1 DEF Times
    <3>2. QED BY <2>1, <2>2, <3>1 DEF CalInv, AmountInv
  <2>7. PointsInv'
    <3>1. \A q : PointPassed(q)' <=> PointPassed(q)
      BY <2>1, <2>2 DEF PointPassed, Deviates
    <3>2. QED BY <2>2, <3>1 DEF CalInv, PointsInv, Accepted
  <2>8. QED BY <2>3, <2>4, <2>5, <2>6, <2>7 DEF CalInv
<1>8. QED
  BY <1>1, <1>2, <1>3, <1>4, <1>5, <1>6, <1>7 DEF CalNext

-----------------------------------------------------------------------------
\* The inductive invariant of calibrate: times are whole ticks, amounts of work
\* those of the time measured, and the test points passed those of the interval.
THEOREM CalInvHolds == CalSpec => []CalInv
BY CalInitHolds, CalNextHolds, PTL DEF CalSpec

\* What is left of a test point after dividing by the length of a tick.
LEMMA PassedInTicks ==
    ASSUME CalTypeOK, NEW c \in Nat, baseline = c * Tick, NEW q \in 1 .. 3, PointPassed(q)
    PROVE  \E m \in Nat : /\ 1000 * (TestPoints[q] * c - 1000 * m) <= TestPoints[q] * c
                          /\ 1000 * (1000 * m - TestPoints[q] * c) <= TestPoints[q] * c
<1>1. Tick \in Nat \ {0} BY MachinesAssumption DEF CalTypeOK, Tick
<1>2. PICK m \in Nat : ~Deviates(m * Tick, TestPoints[q]) BY DEF PointPassed
<1>3. PICK tp \in Nat : tp = TestPoints[q] BY DEF TestPoints
<1>4. PICK e \in Nat : e = tp * c BY <1>3
<1>5. baseline * tp = e * Tick BY <1>1, <1>3, <1>4
<1>6. PICK u \in Nat : u = e * Tick BY <1>1
<1>7. PICK v \in Nat : v = m * Tick BY <1>1
<1>8. /\ 1000 * (u - 1000 * v) <= u
      /\ 1000 * (1000 * v - u) <= u
  <2>1. ~((IF u > 1000 * v THEN u - 1000 * v ELSE 1000 * v - u) > u \div 1000)
    BY <1>2, <1>3, <1>5, <1>6, <1>7 DEF Deviates, Tolerance
  <2>2. QED BY <2>1
<1>9. /\ 1000 * (e - 1000 * m) <= e
      /\ 1000 * (1000 * m - e) <= e
  <2>1. Tick * (1000 * (e - 1000 * m)) = 1000 * (u - 1000 * v)
    BY <1>1, <1>6, <1>7
  <2>2. Tick * (1000 * (1000 * m - e)) = 1000 * (1000 * v - u)
    BY <1>1, <1>6, <1>7
  <2>3. \A g \in Int : Tick * g <= Tick * e => g <= e BY <1>1
  <2>4. Tick * e = u BY <1>1, <1>6
  <2>5. QED BY <1>8, <2>1, <2>2, <2>3, <2>4
<1>10. QED BY <1>3, <1>4, <1>9

\* An interval that calibrate accepts with a time other than zero lasts 143
\* ticks of the clock or more, on every machine; a machine that skips the
\* loop accepts none, and on one that is not too fast no amount of work
\* overflows.
THEOREM CalibratesSoundly == CalSpec => []CalibrationIsSound
<1>1. CalInv => CalibrationIsSound
  <2> SUFFICES ASSUME CalInv PROVE CalibrationIsSound
    OBVIOUS
  <2> USE DEF CalInv
  <2>1. overflow => Rate = 0 \/ TooFast BY DEF AmountInv
  <2>2. Accepted => Rate # 0 BY DEF TrialInv
  <2>3. ASSUME Accepted, baseline # 0 PROVE baseline >= EnoughTicks * Tick
    <3>1. Tick \in Nat \ {0} BY MachinesAssumption DEF CalTypeOK, Tick
    <3>2. PICK c \in Nat : baseline = c * Tick BY DEF WholeTicks
    <3>3. PointPassed(1) /\ PointPassed(2) /\ PointPassed(3)
      BY <2>3 DEF PointsInv, Accepted
    <3>4. PICK m1 \in Nat : /\ 1000 * (1015 * c - 1000 * m1) <= 1015 * c
                            /\ 1000 * (1000 * m1 - 1015 * c) <= 1015 * c
      BY <3>2, <3>3, PassedInTicks DEF TestPoints
    <3>5. PICK m2 \in Nat : /\ 1000 * (1020 * c - 1000 * m2) <= 1020 * c
                            /\ 1000 * (1000 * m2 - 1020 * c) <= 1020 * c
      BY <3>2, <3>3, PassedInTicks DEF TestPoints
    <3>6. PICK m3 \in Nat : /\ 1000 * (1035 * c - 1000 * m3) <= 1035 * c
                            /\ 1000 * (1000 * m3 - 1035 * c) <= 1035 * c
      BY <3>2, <3>3, PassedInTicks DEF TestPoints
    <3>7. c # 0 BY <2>3, <3>1, <3>2
    <3>8. c \notin 1 .. 142 BY <3>4, <3>5, <3>6, TicksNeeded
    <3>9. c >= EnoughTicks BY <3>7, <3>8 DEF EnoughTicks
    <3>10. QED BY <3>1, <3>2, <3>9 DEF EnoughTicks
  <2>4. QED BY <2>1, <2>2, <2>3 DEF CalibrationIsSound
<1>2. QED BY <1>1, CalInvHolds, PTL
-----------------------------------------------------------------------------
(***************************************************************************)
(* problem_parse: the code has read what the text says up to *s.           *)
(***************************************************************************)
\* Induction over the natural numbers, with a set for the statement.
LEMMA Induction ==
    ASSUME NEW G, G \subseteq Nat, 0 \in G, \A m \in G : m + 1 \in G
    PROVE  G = Nat
<1> DEFINE R == OpToRel(<, Nat)
           T == Nat \ G
<1>1. IsWellFoundedOn(R, Nat) BY NatLessThanWellFounded
<1>2. \A x, y \in Nat : <<x, y>> \in R <=> x < y BY DEF OpToRel
<1> HIDE DEF R
<1>3. SUFFICES ASSUME T # {} PROVE FALSE
  OBVIOUS
<1>4. PICK m \in T : \A y \in T : <<y, m>> \notin R BY <1>1, <1>3, WFMin
<1>5. m \in Nat /\ m # 0 /\ m \notin G OBVIOUS
<1>6. m - 1 \in Nat /\ m - 1 < m BY <1>5
<1>7. m - 1 \in G BY <1>2, <1>4, <1>5, <1>6
<1>8. (m - 1) + 1 = m BY <1>5
<1>9. QED BY <1>5, <1>7, <1>8

\* Induction over an interval, upwards.
LEMMA Upwards ==
    ASSUME NEW lo \in Int, NEW hi \in Int, NEW G, lo \in G,
           \A c \in lo .. hi : c # lo /\ c - 1 \in G => c \in G
    PROVE  \A c \in lo .. hi : c \in G
<1> DEFINE H == {m \in Nat : lo + m <= hi => lo + m \in G}
<1>1. 0 \in H OBVIOUS
<1>2. ASSUME NEW m \in H PROVE m + 1 \in H
  <2>1. SUFFICES ASSUME lo + (m + 1) <= hi PROVE lo + (m + 1) \in G OBVIOUS
  <2>2. PICK c \in lo .. hi : c = lo + (m + 1) BY <2>1
  <2>3. c - 1 = lo + m /\ c # lo BY <2>2
  <2>4. lo + m \in G BY <2>1, <1>2
  <2>5. QED BY <2>2, <2>3, <2>4
<1>3. H = Nat
  <2>1. H \subseteq Nat OBVIOUS
  <2> HIDE DEF H
  <2>2. QED BY <1>1, <1>2, <2>1, Induction
<1>4. ASSUME NEW c \in lo .. hi PROVE c \in G
  <2>1. PICK m \in Nat : c = lo + m
    <3>1. c - lo \in Nat /\ c = lo + (c - lo) OBVIOUS
    <3>2. QED BY <3>1
  <2>2. m \in H BY <1>3
  <2>3. QED BY <2>1, <2>2
<1>5. QED BY <1>4

\* Induction over an interval, downwards.
LEMMA Downwards ==
    ASSUME NEW lo \in Int, NEW hi \in Int, NEW G, hi \in G,
           \A c \in lo .. hi - 1 : c + 1 \in G => c \in G
    PROVE  \A c \in lo .. hi : c \in G
<1> DEFINE H == {m \in Nat : hi - m >= lo => hi - m \in G}
<1>1. 0 \in H OBVIOUS
<1>2. ASSUME NEW m \in H PROVE m + 1 \in H
  <2>1. SUFFICES ASSUME hi - (m + 1) >= lo PROVE hi - (m + 1) \in G OBVIOUS
  <2>2. PICK c \in lo .. hi - 1 : c = hi - (m + 1) BY <2>1
  <2>3. c + 1 = hi - m BY <2>2
  <2>4. hi - m \in G BY <2>1, <1>2
  <2>5. QED BY <2>2, <2>3, <2>4
<1>3. H = Nat
  <2>1. H \subseteq Nat OBVIOUS
  <2> HIDE DEF H
  <2>2. QED BY <1>1, <1>2, <2>1, Induction
<1>4. ASSUME NEW c \in lo .. hi PROVE c \in G
  <2>1. PICK m \in Nat : c = hi - m
    <3>1. hi - c \in Nat /\ c = hi - (hi - c) OBVIOUS
    <3>2. QED BY <3>1
  <2>2. m \in H BY <1>3
  <2>3. QED BY <2>1, <2>2
<1>5. QED BY <1>4

\* A function on an interval may be defined by what each value is made of the one
\* before it.
Follows(f, start, step, lo, hi) ==
    \A c \in lo .. hi : f[c] = IF c = lo THEN start ELSE step[<<f[c - 1], c>>]

\* ... and there is one.
LEMMA Recursion ==
    ASSUME NEW S, NEW start \in S, NEW lo \in Int, NEW hi \in Int, lo <= hi,
           NEW step \in [S \X Int -> S]
    PROVE  \E f \in [lo .. hi -> S] : Follows(f, start, step, lo, hi)
<1> USE DEF Follows
<1> DEFINE Good(f, h) ==
               \A c \in lo .. h : f[c] = IF c = lo THEN start ELSE step[<<f[c - 1], c>>]
           G == {h \in Int : \E f \in [lo .. h -> S] : Good(f, h)}
<1>1. lo \in G
  <2>1. [c \in lo .. lo |-> start] \in [lo .. lo -> S] OBVIOUS
  <2>2. Good([c \in lo .. lo |-> start], lo) OBVIOUS
  <2>3. QED BY <2>1, <2>2
<1>2. ASSUME NEW h \in lo .. hi, h # lo, h - 1 \in G PROVE h \in G
  <2>1. PICK f \in [lo .. h - 1 -> S] : Good(f, h - 1) BY <1>2
  <2> DEFINE e == [c \in lo .. h |-> IF c = h THEN step[<<f[h - 1], h>>] ELSE f[c]]
  <2>2. f[h - 1] \in S BY <1>2
  <2>3. step[<<f[h - 1], h>>] \in S BY <2>2
  <2>4. e \in [lo .. h -> S] BY <2>3
  <2>5. e[h] = step[<<f[h - 1], h>>] /\ e[h - 1] = f[h - 1] BY <1>2
  <2>6. ASSUME NEW c \in lo .. h, c # lo PROVE e[c] = step[<<e[c - 1], c>>]
    <3>1. CASE c = h BY <3>1, <2>5
    <3>2. CASE c # h
      <4>1. c \in lo .. h - 1 BY <3>2
      <4>2. e[c] = f[c] /\ e[c - 1] = f[c - 1] BY <4>1, <2>6
      <4>3. f[c] = step[<<f[c - 1], c>>] BY <2>1, <2>6, <4>1
      <4>4. QED BY <4>2, <4>3
    <3>3. QED BY <3>1, <3>2
  <2>7. e[lo] = start
    <3>1. lo \in lo .. h - 1 BY <1>2
    <3>2. e[lo] = f[lo] BY <1>2, <3>1
    <3>3. QED BY <2>1, <3>1, <3>2
  <2> HIDE DEF e
  <2>8. Good(e, h) BY <2>6, <2>7
  <2> HIDE DEF Good
  <2>9. QED BY <2>4, <2>8
<1>3. \A h \in lo .. hi : h \in G
  <2> HIDE DEF G
  <2>1. QED BY <1>1, <1>2, Upwards
<1>4. hi \in G BY <1>3
<1>5. QED BY <1>4

\* The same from zero.
LEMMA FromZero ==
    ASSUME NEW hi \in Nat, NEW G, 0 \in G,
           \A c \in 0 .. hi : c # 0 /\ c - 1 \in G => c \in G
    PROVE  \A c \in 0 .. hi : c \in G
<1>1. 0 \in Int /\ hi \in Int OBVIOUS
<1>2. QED BY <1>1, Upwards

-----------------------------------------------------------------------------
\* Numbers: the value of a sequence of digits, and products.
Digits == {DigitChars[d] : d \in 1 .. 10}

\* What a digit stands for.
LEMMA DigitTypes ==
    /\ \A d \in Digits : DigitValue(d) \in 0 .. 9
    /\ \A c : IsDigit(c) <=> c \in Digits
<1>1. \A c : IsDigit(c) <=> c \in Digits BY DEF Digits, IsDigit
<1>2. ASSUME NEW c \in Digits PROVE DigitValue(c) \in 0 .. 9
  <2>1. \E d \in 1 .. 10 : DigitChars[d] = c BY <1>2 DEF Digits
  <2>2. PICK e \in 1 .. 10 : e = CHOOSE d \in 1 .. 10 : DigitChars[d] = c BY <2>1
  <2>3. QED BY <2>2 DEF DigitValue
<1>3. QED BY <1>1, <1>2

\* The recursive functions exist: a number read digit by digit ...
LEMMA ValueFunction ==
    ASSUME NEW ds \in Seq(Digits), NEW m \in Nat, m = Len(ds)
    PROVE  \E V \in [0 .. m -> Nat] :
               /\ \A c \in 0 .. m : V[c] = IF c = 0 THEN 0 ELSE 10 * V[c - 1] + DigitValue(ds[c])
               /\ ValueOf(ds) = V[m]
<1> DEFINE step == [e \in Nat \X Int |->
                      IF e[2] \in 1 .. m THEN 10 * e[1] + DigitValue(ds[e[2]]) ELSE 0]
           IsV(V) == V = [d \in 0 .. m |->
                             IF d = 0 THEN 0 ELSE 10 * V[d - 1] + DigitValue(ds[d])]
<1>1. \A d \in 1 .. m : DigitValue(ds[d]) \in Nat BY DigitTypes
<1>2. step \in [Nat \X Int -> Nat] BY <1>1
<1>3. \A e \in Nat, c \in 1 .. m : step[<<e, c>>] = 10 * e + DigitValue(ds[c]) OBVIOUS
<1> HIDE DEF step
<1>4. PICK f \in [0 .. m -> Nat] : Follows(f, 0, step, 0, m)
  <2>1. 0 \in Nat /\ 0 \in Int /\ m \in Int /\ 0 <= m OBVIOUS
  <2>2. QED BY <1>2, <2>1, Recursion, Zenon
<1>5. \A c \in 0 .. m : f[c] = IF c = 0 THEN 0 ELSE 10 * f[c - 1] + DigitValue(ds[c])
  <2>1. ASSUME NEW c \in 0 .. m, c # 0 PROVE f[c] = 10 * f[c - 1] + DigitValue(ds[c])
    <3>1. f[c - 1] \in Nat /\ c \in 1 .. m BY <2>1
    <3>2. QED BY <1>3, <1>4, <2>1, <3>1 DEF Follows
  <2>2. f[0] = 0 BY <1>4 DEF Follows
  <2>3. QED BY <2>1, <2>2
<1>6. IsV(f) BY <1>5
<1> DEFINE V == CHOOSE V : IsV(V)
<1>7. IsV(V) BY <1>6, Zenon
<1>8. ValueOf(ds) = V[m] BY DEF ValueOf
<1> HIDE DEF V
<1>9. \A c \in 0 .. m : V[c] = f[c]
  <2> DEFINE G == {c \in 0 .. m : V[c] = f[c]}
  <2>1. 0 \in G BY <1>6, <1>7
  <2>2. ASSUME NEW c \in 0 .. m, c # 0, c - 1 \in G PROVE c \in G
    <3>1. V[c] = 10 * V[c - 1] + DigitValue(ds[c]) BY <1>7, <2>2
    <3>2. QED BY <1>5, <2>2, <3>1
  <2> HIDE DEF G
  <2>3. \A c \in 0 .. m : c \in G BY <2>1, <2>2, FromZero
  <2>4. QED BY <2>3 DEF G
<1>10. QED
  <2>1. V[m] = f[m] BY <1>9
  <2>2. QED BY <1>5, <1>8, <2>1

\* A digit more multiplies the value by ten and adds to it.
LEMMA ValueSteps ==
    ASSUME NEW ds \in Seq(Digits)
    PROVE  /\ ValueOf(ds) \in Nat /\ (ds = <<>> => ValueOf(ds) = 0)
           /\ \A d \in Digits : ValueOf(Append(ds, d)) = 10 * ValueOf(ds) + DigitValue(d)
<1>1. PICK m \in Nat : m = Len(ds) OBVIOUS
<1>2. PICK V \in [0 .. m -> Nat] :
           /\ \A c \in 0 .. m : V[c] = IF c = 0 THEN 0 ELSE 10 * V[c - 1] + DigitValue(ds[c])
           /\ ValueOf(ds) = V[m]
  BY <1>1, ValueFunction
<1>3. ValueOf(ds) \in Nat /\ (ds = <<>> => ValueOf(ds) = 0)
  <2>1. V[0] = 0 BY <1>2
  <2>2. ds = <<>> => m = 0 BY <1>1
  <2>3. QED BY <1>2, <2>1, <2>2
<1>4. ASSUME NEW d \in Digits PROVE ValueOf(Append(ds, d)) = 10 * ValueOf(ds) + DigitValue(d)
  <2> DEFINE es == Append(ds, d)
  <2>1. /\ es \in Seq(Digits) /\ Len(es) = m + 1 /\ es[m + 1] = d
        /\ \A c \in 1 .. m : es[c] = ds[c]
    BY <1>1
  <2> HIDE DEF es
  <2>2. m + 1 \in Nat BY <1>1
  <2>3. PICK W \in [0 .. m + 1 -> Nat] :
             /\ \A c \in 0 .. m + 1 :
                    W[c] = IF c = 0 THEN 0 ELSE 10 * W[c - 1] + DigitValue(es[c])
             /\ ValueOf(es) = W[m + 1]
    BY <2>1, <2>2, ValueFunction
  <2>4. \A c \in 0 .. m : W[c] = V[c]
    <3> DEFINE G == {c \in 0 .. m : W[c] = V[c]}
    <3>1. 0 \in G BY <1>2, <2>3
    <3>2. ASSUME NEW c \in 0 .. m, c # 0, c - 1 \in G PROVE c \in G
      <4>1. c \in 1 .. m /\ c \in 0 .. m + 1 BY <3>2
      <4>2. V[c] = 10 * V[c - 1] + DigitValue(ds[c]) BY <1>2, <3>2
      <4>3. W[c] = 10 * W[c - 1] + DigitValue(es[c]) BY <2>3, <3>2, <4>1
      <4>4. es[c] = ds[c] /\ W[c - 1] = V[c - 1] BY <2>1, <3>2, <4>1
      <4>5. QED BY <4>2, <4>3, <4>4
    <3> HIDE DEF G
    <3>3. \A c \in 0 .. m : c \in G BY <3>1, <3>2, FromZero
    <3>4. QED BY <3>3 DEF G
  <2>5. W[m + 1] = 10 * W[m] + DigitValue(es[m + 1])
    <3>1. m + 1 \in 0 .. m + 1 /\ m + 1 # 0 /\ (m + 1) - 1 = m OBVIOUS
    <3>2. QED BY <2>3, <3>1
  <2>6. W[m] = ValueOf(ds) BY <1>2, <2>4
  <2>7. ValueOf(es) = 10 * ValueOf(ds) + DigitValue(d) BY <2>1, <2>3, <2>5, <2>6
  <2>8. QED BY <2>7 DEF es
<1>5. QED BY <1>3, <1>4

\* ... and a product taken number by number.
LEMMA TotalFunction ==
    ASSUME NEW ns \in Seq(Nat), NEW m \in Nat, m = Len(ns)
    PROVE  \E V \in [0 .. m -> Nat] :
               /\ \A c \in 0 .. m : V[c] = IF c = 0 THEN 1 ELSE V[c - 1] * ns[c]
               /\ TotalOf(ns) = V[m]
<1> DEFINE step == [e \in Nat \X Int |->
                      IF e[2] \in 1 .. m THEN e[1] * ns[e[2]] ELSE 1]
           IsV(V) == V = [d \in 0 .. m |->
                             IF d = 0 THEN 1 ELSE V[d - 1] * ns[d]]
<1>1. \A d \in 1 .. m : ns[d] \in Nat OBVIOUS
<1>2. step \in [Nat \X Int -> Nat] BY <1>1
<1>3. \A e \in Nat, c \in 1 .. m : step[<<e, c>>] = e * ns[c] OBVIOUS
<1> HIDE DEF step
<1>4. PICK f \in [0 .. m -> Nat] : Follows(f, 1, step, 0, m)
  <2>1. 1 \in Nat /\ 0 \in Int /\ m \in Int /\ 0 <= m OBVIOUS
  <2>2. QED BY <1>2, <2>1, Recursion, Zenon
<1>5. \A c \in 0 .. m : f[c] = IF c = 0 THEN 1 ELSE f[c - 1] * ns[c]
  <2>1. ASSUME NEW c \in 0 .. m, c # 0 PROVE f[c] = f[c - 1] * ns[c]
    <3>1. f[c - 1] \in Nat /\ c \in 1 .. m BY <2>1
    <3>2. QED BY <1>3, <1>4, <2>1, <3>1 DEF Follows
  <2>2. f[0] = 1 BY <1>4 DEF Follows
  <2>3. QED BY <2>1, <2>2
<1>6. IsV(f) BY <1>5
<1> DEFINE V == CHOOSE V : IsV(V)
<1>7. IsV(V) BY <1>6, Zenon
<1>8. TotalOf(ns) = V[m] BY DEF TotalOf
<1> HIDE DEF V
<1>9. \A c \in 0 .. m : V[c] = f[c]
  <2> DEFINE G == {c \in 0 .. m : V[c] = f[c]}
  <2>1. 0 \in G BY <1>6, <1>7
  <2>2. ASSUME NEW c \in 0 .. m, c # 0, c - 1 \in G PROVE c \in G
    <3>1. V[c] = V[c - 1] * ns[c] BY <1>7, <2>2
    <3>2. QED BY <1>5, <2>2, <3>1
  <2> HIDE DEF G
  <2>3. \A c \in 0 .. m : c \in G BY <2>1, <2>2, FromZero
  <2>4. QED BY <2>3 DEF G
<1>10. QED
  <2>1. V[m] = f[m] BY <1>9
  <2>2. QED BY <1>5, <1>8, <2>1

\* A size more multiplies the product.
LEMMA TotalSteps ==
    ASSUME NEW ns \in Seq(Nat)
    PROVE  /\ TotalOf(ns) \in Nat /\ (ns = <<>> => TotalOf(ns) = 1)
           /\ \A d \in Nat : TotalOf(Append(ns, d)) = TotalOf(ns) * d
<1>1. PICK m \in Nat : m = Len(ns) OBVIOUS
<1>2. PICK V \in [0 .. m -> Nat] :
           /\ \A c \in 0 .. m : V[c] = IF c = 0 THEN 1 ELSE V[c - 1] * ns[c]
           /\ TotalOf(ns) = V[m]
  BY <1>1, TotalFunction
<1>3. TotalOf(ns) \in Nat /\ (ns = <<>> => TotalOf(ns) = 1)
  <2>1. V[0] = 1 BY <1>2
  <2>2. ns = <<>> => m = 0 BY <1>1
  <2>3. QED BY <1>2, <2>1, <2>2
<1>4. ASSUME NEW d \in Nat PROVE TotalOf(Append(ns, d)) = TotalOf(ns) * d
  <2> DEFINE ms == Append(ns, d)
  <2>1. /\ ms \in Seq(Nat) /\ Len(ms) = m + 1 /\ ms[m + 1] = d
        /\ \A c \in 1 .. m : ms[c] = ns[c]
    BY <1>1
  <2> HIDE DEF ms
  <2>2. m + 1 \in Nat BY <1>1
  <2>3. PICK W \in [0 .. m + 1 -> Nat] :
             /\ \A c \in 0 .. m + 1 :
                    W[c] = IF c = 0 THEN 1 ELSE W[c - 1] * ms[c]
             /\ TotalOf(ms) = W[m + 1]
    BY <2>1, <2>2, TotalFunction
  <2>4. \A c \in 0 .. m : W[c] = V[c]
    <3> DEFINE G == {c \in 0 .. m : W[c] = V[c]}
    <3>1. 0 \in G BY <1>2, <2>3
    <3>2. ASSUME NEW c \in 0 .. m, c # 0, c - 1 \in G PROVE c \in G
      <4>1. c \in 1 .. m /\ c \in 0 .. m + 1 BY <3>2
      <4>2. V[c] = V[c - 1] * ns[c] BY <1>2, <3>2
      <4>3. W[c] = W[c - 1] * ms[c] BY <2>3, <3>2, <4>1
      <4>4. ms[c] = ns[c] /\ W[c - 1] = V[c - 1] BY <2>1, <3>2, <4>1
      <4>5. QED BY <4>2, <4>3, <4>4
    <3> HIDE DEF G
    <3>3. \A c \in 0 .. m : c \in G BY <3>1, <3>2, FromZero
    <3>4. QED BY <3>3 DEF G
  <2>5. W[m + 1] = W[m] * ms[m + 1]
    <3>1. m + 1 \in 0 .. m + 1 /\ m + 1 # 0 /\ (m + 1) - 1 = m OBVIOUS
    <3>2. QED BY <2>3, <3>1
  <2>6. W[m] = TotalOf(ns) BY <1>2, <2>4
  <2>7. TotalOf(ms) = TotalOf(ns) * d BY <2>1, <2>3, <2>5, <2>6
  <2>8. QED BY <2>7 DEF ms
<1>5. QED BY <1>3, <1>4

\* Remainders, and those of products.
LEMMA RemainderUnique ==
    ASSUME NEW u \in Nat \ {0}, NEW q \in Nat, NEW r \in 0 .. u - 1
    PROVE  (u * q + r) % u = r
<1>1. PICK x \in Nat : x = u * q + r OBVIOUS
<1>2. PICK k \in Nat, s \in 0 .. u - 1 : x % u = s /\ x = u * k + s
  BY <1>1, Division
<1>3. ~(k > q)
  <2>1. k > q => u * k >= u * (q + 1) OBVIOUS
  <2>2. QED BY <1>1, <1>2, <2>1
<1>4. ~(k < q)
  <2>1. k < q => u * q >= u * (k + 1) OBVIOUS
  <2>2. QED BY <1>1, <1>2, <2>1
<1>5. k = q BY <1>3, <1>4
<1>6. s = r BY <1>1, <1>2, <1>5
<1>7. QED BY <1>1, <1>2, <1>6

\* A product that wraps around at each factor is the product wrapped around once.
LEMMA ProductRemainder ==
    ASSUME NEW u \in Nat \ {0}, NEW x \in Nat, NEW y \in Nat
    PROVE  ((x % u) * y) % u = (x * y) % u
<1>1. PICK q \in Nat, r \in 0 .. u - 1 : x % u = r /\ x = u * q + r BY Division
<1>2. PICK z \in Nat : z = r * y OBVIOUS
<1>3. PICK k \in Nat, s \in 0 .. u - 1 : z % u = s /\ z = u * k + s BY Division
<1>4. PICK l \in Nat : l = q * y + k OBVIOUS
<1>5. x * y = u * l + s
  <2>1. x * y = u * (q * y) + r * y BY <1>1
  <2>2. QED BY <1>2, <1>3, <1>4, <2>1
<1>6. (u * l + s) % u = s BY RemainderUnique
<1>7. QED BY <1>1, <1>2, <1>3, <1>5, <1>6

-----------------------------------------------------------------------------
\* A stretch of the text ends where its characters do.
Ends(from, chars, to) == /\ \A c \in from .. to : text[c] \in chars
                         /\ to < Len(text) => text[to + 1] \notin chars

\* There is a stretch from every position.
LEMMA StretchEnds ==
    ASSUME text \in Seq(STRING), NEW from \in 1 .. Len(text) + 1, NEW chars
    PROVE  Stretch(from, chars) \in from - 1 .. Len(text) /\ Ends(from, chars, Stretch(from, chars))
<1>1. PICK m \in Nat : m = Len(text) OBVIOUS
<1>2. \E to \in from - 1 .. m : Ends(from, chars, to)
  <2> SUFFICES ASSUME \A to \in from - 1 .. m : ~Ends(from, chars, to) PROVE FALSE
    OBVIOUS
  <2>1. PICK lo \in Int : lo = from - 1 OBVIOUS
  <2>2. lo <= m /\ from = lo + 1 BY <1>1, <2>1
  <2> DEFINE G == {to \in lo .. m : \A c \in from .. to : text[c] \in chars}
  <2>3. lo \in G BY <1>1, <2>2
  <2>4. ASSUME NEW to \in lo .. m, to # lo, to - 1 \in G PROVE to \in G
    <3>1. to - 1 \in from - 1 .. m BY <2>1, <2>4
    <3>2. ~Ends(from, chars, to - 1) BY <3>1
    <3>3. (to - 1) + 1 = to BY <2>4
    <3>4. text[to] \in chars BY <2>4, <3>2, <3>3 DEF Ends
    <3>5. QED BY <2>1, <2>2, <2>4, <3>4
  <2>5. \A to \in lo .. m : to \in G
    <3> HIDE DEF G
    <3>1. m \in Int OBVIOUS
    <3>2. QED BY <2>3, <2>4, <3>1, Upwards
  <2>6. m \in G BY <1>1, <2>1, <2>2, <2>5
  <2>7. Ends(from, chars, m) BY <1>1, <2>6 DEF Ends
  <2>8. QED BY <1>1, <2>1, <2>2, <2>7
<1>3. Stretch(from, chars) = CHOOSE to \in from - 1 .. m : Ends(from, chars, to)
  BY <1>1 DEF Stretch, Ends
<1>4. QED BY <1>1, <1>2, <1>3

\* A stretch is at least as long as the right characters, and ends at a wrong one.
LEMMA StretchReaches ==
    ASSUME text \in Seq(STRING), NEW from \in 1 .. Len(text) + 1, NEW chars,
           NEW to \in from - 1 .. Len(text), \A c \in from .. to : text[c] \in chars
    PROVE  /\ to <= Stretch(from, chars)
           /\ (to < Len(text) => text[to + 1] \notin chars) => to = Stretch(from, chars)
<1>1. PICK m \in Nat : m = Len(text) OBVIOUS
<1>2. PICK e \in from - 1 .. m : e = Stretch(from, chars) BY <1>1, StretchEnds
<1>3. Ends(from, chars, e) BY <1>2, StretchEnds
<1>4. to <= e
  <2> SUFFICES ASSUME e < to PROVE FALSE BY <1>1, <1>2
  <2>1. e + 1 \in from .. to BY <1>1, <1>2
  <2>2. text[e + 1] \in chars BY <2>1
  <2>3. e < Len(text) BY <1>1
  <2>4. QED BY <1>3, <2>2, <2>3 DEF Ends
<1>5. ASSUME to < Len(text) => text[to + 1] \notin chars PROVE to = e
  <2> SUFFICES ASSUME to < e PROVE FALSE BY <1>1, <1>4
  <2>1. to + 1 \in from .. e /\ to < Len(text) BY <1>1, <1>2
  <2>2. text[to + 1] \in chars BY <1>3, <2>1 DEF Ends
  <2>3. QED BY <1>5, <2>1, <2>2
<1>6. QED BY <1>2, <1>4, <1>5

\* What a letter more says of a field.
LEMMA LetterMore ==
    ASSUME NEW c \in Nat \ {0}, NEW f \in Flags, f.char = text[c], NEW field, NEW default
    PROVE  LastFlag(field, default, c) =
               IF f.field = field THEN f.value ELSE LastFlag(field, default, c - 1)
<1> DEFINE Said(to) == {d \in 1 .. to : \E g \in Flags : g.char = text[d] /\ g.field = field}
           LastOf(said) == CHOOSE d \in said : \A e \in said : e <= d
           Value(said) == (CHOOSE g \in Flags : g.char = text[LastOf(said)]).value
<1>1. \A g \in Flags : g.char = f.char => g = f BY DEF Flags, Says
<1>2. LastFlag(field, default, c) = IF Said(c) = {} THEN default ELSE Value(Said(c))
  BY DEF LastFlag
<1>3. LastFlag(field, default, c - 1) = IF Said(c - 1) = {} THEN default ELSE Value(Said(c - 1))
  BY DEF LastFlag
<1>4. CASE f.field = field
  <2>1. c \in Said(c) /\ \A e \in Said(c) : e <= c BY <1>4
  <2>2. \A d \in Said(c) : (\A e \in Said(c) : e <= d) => d = c BY <2>1
  <2>3. LastOf(Said(c)) = c
    <3> HIDE DEF Said
    <3>1. LastOf(Said(c)) \in Said(c) /\ \A e \in Said(c) : e <= LastOf(Said(c)) BY <2>1
    <3>2. QED BY <2>2, <3>1
  <2>4. (CHOOSE g \in Flags : g.char = text[c]) = f BY <1>1
  <2>5. Value(Said(c)) = f.value BY <2>3, <2>4
  <2>6. QED BY <1>2, <1>4, <2>1, <2>5
<1>5. CASE f.field # field
  <2>1. Said(c) = Said(c - 1) BY <1>1, <1>5
  <2> HIDE DEF Said, Value
  <2>2. QED BY <1>2, <1>3, <1>5, <2>1
<1>6. QED BY <1>4, <1>5

-----------------------------------------------------------------------------
\* The fields of a stretch, of which there is always one.
FieldSeqs == Seq(Seq(Digits)) \ {<<>>}

\* No character is of two of the kinds that numbers and vector parts are made of.
LEMMA Kinds ==
    /\ \A c : c \in NumberChars <=> IsDigit(c) \/ IsSeparator(c)
    /\ \A c : IsDigit(c) => ~IsSeparator(c)
    /\ \A c : StartsVector(c) => c \notin NumberChars
<1>1. DOMAIN DigitChars = 1 .. 10
  BY DEF DigitChars
<1>2. \A d \in 1 .. 10 : DigitChars[d] \in {"0", "1", "2", "3", "4", "5", "6", "7", "8", "9"}
  <2>1. TAKE d \in 1 .. 10
  <2>2. \/ d = 1 \/ d = 2 \/ d = 3 \/ d = 4 \/ d = 5 \/ d = 6 \/ d = 7 \/ d = 8 \/ d = 9 \/ d = 10
    OBVIOUS
  <2>3. QED BY <2>2 DEF DigitChars
<1>3. \A c : IsDigit(c) => ~IsSeparator(c) /\ ~StartsVector(c)
  BY <1>2 DEF IsDigit, IsSeparator, StartsVector
<1>4. \A c : c \in NumberChars <=> IsDigit(c) \/ IsSeparator(c)
  BY DEF NumberChars, IsDigit, IsSeparator
<1>5. \A c : StartsVector(c) => ~IsSeparator(c) BY DEF IsSeparator, StartsVector
<1>6. QED BY <1>3, <1>4, <1>5

\* What a character does to the fields.
LEMMA ExtendedFields ==
    ASSUME NEW s \in FieldSeqs, NEW ch \in NumberChars
    PROVE  /\ Extended(s, ch) \in FieldSeqs
           /\ IsSeparator(ch) =>
                  /\ Len(Extended(s, ch)) = Len(s) + 1
                  /\ Extended(s, ch)[Len(s) + 1] = <<>>
                  /\ \A k \in 1 .. Len(s) : Extended(s, ch)[k] = s[k]
           /\ ~IsSeparator(ch) =>
                  /\ ch \in Digits /\ Len(Extended(s, ch)) = Len(s)
                  /\ Extended(s, ch)[Len(s)] = Append(s[Len(s)], ch)
                  /\ \A k \in 1 .. Len(s) - 1 : Extended(s, ch)[k] = s[k]
<1>1. PICK m \in Nat \ {0} : m = Len(s) BY DEF FieldSeqs
<1>2. s \in Seq(Seq(Digits)) /\ s[m] \in Seq(Digits) BY <1>1 DEF FieldSeqs
<1>3. CASE IsSeparator(ch)
  <2>1. <<>> \in Seq(Digits) OBVIOUS
  <2>2. Extended(s, ch) = Append(s, <<>>) BY <1>3 DEF Extended
  <2>3. Append(s, <<>>) \in Seq(Seq(Digits)) /\ Len(Append(s, <<>>)) = m + 1
    BY <1>1, <1>2, <2>1
  <2>4. Append(s, <<>>) # <<>> BY <1>1, <2>3
  <2>5. QED BY <1>2, <1>3, <2>1, <2>2, <2>3, <2>4 DEF FieldSeqs
<1>4. CASE ~IsSeparator(ch)
  <2>1. ch \in Digits BY <1>4, Kinds, DigitTypes
  <2>2. PICK last \in Seq(Digits) : last = Append(s[m], ch)
    <3>1. \A ds \in Seq(Digits) : Append(ds, ch) \in Seq(Digits) BY <2>1
    <3>2. Append(s[m], ch) \in Seq(Digits) BY <1>2, <3>1
    <3>3. QED BY <3>2
  <2>3. PICK e : e = [s EXCEPT ![m] = last] OBVIOUS
  <2>4. Extended(s, ch) = e BY <1>1, <1>4, <2>2, <2>3 DEF Extended
  <2>5. e \in Seq(Seq(Digits)) /\ Len(e) = m BY <1>1, <1>2, <2>2, <2>3
  <2>6. e[m] = last /\ \A k \in 1 .. m - 1 : e[k] = s[k] BY <1>1, <1>2, <2>3
  <2>7. e # <<>> BY <1>1, <2>5
  <2>8. QED BY <1>1, <1>4, <2>1, <2>2, <2>4, <2>5, <2>6, <2>7 DEF FieldSeqs
<1>5. QED BY <1>3, <1>4

\* The fields up to each position are those before it and its character.
LEMMA FieldsAreExtended ==
    ASSUME NEW from \in Int, NEW to \in Int, from - 1 <= to,
           \A c \in from .. to : text[c] \in NumberChars
    PROVE  /\ FieldsUpTo(from, to)[from - 1] = <<<<>>>>
           /\ \A c \in from .. to : FieldsUpTo(from, to)[c] = Extended(FieldsUpTo(from, to)[c - 1], text[c])
           /\ \A c \in from - 1 .. to : FieldsUpTo(from, to)[c] \in FieldSeqs
<1> DEFINE step == [e \in FieldSeqs \X Int |->
                      IF e[2] \in from .. to THEN Extended(e[1], text[e[2]]) ELSE <<<<>>>>]
           IsF(F) == F = [c \in from - 1 .. to |->
                             IF c < from THEN <<<<>>>> ELSE Extended(F[c - 1], text[c])]
<1>1. <<<<>>>> \in FieldSeqs
  <2>1. <<>> \in Seq(Digits) OBVIOUS
  <2>2. <<<<>>>> \in Seq(Seq(Digits)) /\ <<<<>>>> # <<>> BY <2>1
  <2>3. QED BY <2>2 DEF FieldSeqs
<1>2. step \in [FieldSeqs \X Int -> FieldSeqs]
  <2>1. \A e \in FieldSeqs \X Int : e[2] \in from .. to => Extended(e[1], text[e[2]]) \in FieldSeqs
    BY ExtendedFields
  <2>2. QED BY <1>1, <2>1
<1>3. \A s \in FieldSeqs, c \in from .. to : step[<<s, c>>] = Extended(s, text[c]) OBVIOUS
<1> HIDE DEF step
<1>4. PICK lo \in Int : lo = from - 1 OBVIOUS
<1>5. PICK f \in [lo .. to -> FieldSeqs] : Follows(f, <<<<>>>>, step, lo, to)
  <2>1. lo <= to BY <1>4
  <2>2. QED BY <1>1, <1>2, <2>1, Recursion, Zenon
<1>6. f[lo] = <<<<>>>>
  <2>1. lo \in lo .. to BY <1>4
  <2>2. QED BY <1>5, <2>1 DEF Follows
<1>7. \A c \in from .. to : f[c] = Extended(f[c - 1], text[c])
  <2>1. TAKE c \in from .. to
  <2>2. c \in lo .. to /\ c # lo /\ c - 1 \in lo .. to BY <1>4
  <2>3. f[c - 1] \in FieldSeqs BY <2>2
  <2>4. f[c] = step[<<f[c - 1], c>>] BY <1>5, <2>2 DEF Follows
  <2>5. QED BY <1>3, <2>3, <2>4
<1>8. IsF(f)
  <2>1. f = [c \in lo .. to |-> f[c]] OBVIOUS
  <2>2. \A c \in lo .. to : f[c] = IF c < from THEN <<<<>>>> ELSE Extended(f[c - 1], text[c])
    <3>1. TAKE c \in lo .. to
    <3>2. CASE c = lo BY <1>4, <1>6, <3>2
    <3>3. CASE c # lo
      <4>1. c \in from .. to /\ ~(c < from) BY <1>4, <3>3
      <4>2. QED BY <1>7, <4>1
    <3>4. QED BY <3>2, <3>3
  <2>3. QED BY <1>4, <2>1, <2>2
<1> DEFINE F == CHOOSE F : IsF(F)
<1>9. IsF(F) BY <1>8, Zenon
<1>10. FieldsUpTo(from, to) = F BY DEF FieldsUpTo
<1> HIDE DEF F
<1>11. F[lo] = <<<<>>>> BY <1>4, <1>9
<1>12. \A c \in from .. to : F[c] = Extended(F[c - 1], text[c]) BY <1>9
<1> HIDE DEF IsF
<1>13. \A c \in lo .. to : F[c] \in FieldSeqs
  <2> DEFINE G == {c \in lo .. to : F[c] \in FieldSeqs}
  <2>1. lo \in G BY <1>1, <1>4, <1>11
  <2>2. ASSUME NEW c \in lo .. to, c # lo, c - 1 \in G PROVE c \in G
    <3>1. c \in from .. to BY <1>4, <2>2
    <3>2. F[c] = Extended(F[c - 1], text[c]) BY <1>12, <3>1
    <3>3. F[c] \in FieldSeqs BY <2>2, <3>1, <3>2, ExtendedFields
    <3>4. QED BY <2>2, <3>3
  <2> HIDE DEF G
  <2>3. \A c \in lo .. to : c \in G BY <2>1, <2>2, Upwards
  <2>4. QED BY <2>3 DEF G
<1>14. QED BY <1>4, <1>10, <1>11, <1>12, <1>13

-----------------------------------------------------------------------------
\* What the fields say, and what the code has made of them: while it reads one
\* and when it has stored it.
FitsIn(s) == \A k \in 1 .. Len(s) : ValueOf(s[k]) <= NumberMax
GoodIn(s) == Len(s) < MaxRank /\ \A k \in 1 .. Len(s) - 1 : ValueOf(s[k]) > 0
AllGood(s) == Len(s) < MaxRank /\ \A k \in 1 .. Len(s) : ValueOf(s[k]) > 0

Pending(s, ns, num) ==
    /\ Len(ns) = Len(s) - 1
    /\ FitsIn(s) => /\ \A k \in 1 .. Len(ns) : ns[k] = ValueOf(s[k])
                    /\ num = ValueOf(s[Len(s)])
Recorded(s, ns) == /\ Len(ns) = Len(s)
                   /\ FitsIn(s) => \A k \in 1 .. Len(ns) : ns[k] = ValueOf(s[k])

\* Fewer characters: what fits and is good has been so before.
LEMMA Shorter ==
    ASSUME NEW s \in FieldSeqs, NEW ch \in NumberChars
    PROVE  /\ FitsIn(Extended(s, ch)) => FitsIn(s)
           /\ GoodIn(Extended(s, ch)) => GoodIn(s)
           /\ IsSeparator(ch) /\ GoodIn(Extended(s, ch)) => AllGood(s)
<1>1. PICK m \in Nat \ {0} : m = Len(s) BY DEF FieldSeqs
<1>2. PICK e \in FieldSeqs : e = Extended(s, ch) BY ExtendedFields
<1>3. MaxRank \in Nat BY MaxRankAssumption
<1>4. CASE IsSeparator(ch)
  <2>1. Len(e) = m + 1 /\ \A k \in 1 .. m : e[k] = s[k]
    BY <1>1, <1>2, <1>4, ExtendedFields
  <2>2. FitsIn(e) => FitsIn(s) BY <1>1, <2>1 DEF FitsIn
  <2>3. GoodIn(e) => AllGood(s) BY <1>1, <1>3, <2>1 DEF GoodIn, AllGood
  <2>4. AllGood(s) => GoodIn(s) BY <1>1 DEF GoodIn, AllGood
  <2>5. QED BY <1>2, <2>2, <2>3, <2>4
<1>5. CASE ~IsSeparator(ch)
  <2>1. /\ ch \in Digits /\ Len(e) = m /\ e[m] = Append(s[m], ch)
        /\ \A k \in 1 .. m - 1 : e[k] = s[k]
    BY <1>1, <1>2, <1>5, ExtendedFields
  <2>2. s[m] \in Seq(Digits) BY <1>1 DEF FieldSeqs
  <2>3. PICK v \in Nat : v = ValueOf(s[m]) BY <2>2, ValueSteps
  <2>4. ValueOf(e[m]) = 10 * v + DigitValue(ch) BY <2>1, <2>2, <2>3, ValueSteps
  <2>5. DigitValue(ch) \in Nat BY <2>1, DigitTypes
  <2>6. ValueOf(e[m]) <= NumberMax => ValueOf(s[m]) <= NumberMax
    BY <2>3, <2>4, <2>5, NumberMaxAssumption
  <2>7. FitsIn(e) => FitsIn(s)
    <3> SUFFICES ASSUME FitsIn(e), NEW k \in 1 .. m PROVE ValueOf(s[k]) <= NumberMax
      BY <1>1 DEF FitsIn
    <3>1. ValueOf(e[k]) <= NumberMax BY <2>1 DEF FitsIn
    <3>2. CASE k = m BY <2>6, <3>1, <3>2
    <3>3. CASE k # m
      <4>1. k \in 1 .. m - 1 BY <3>3
      <4>2. QED BY <2>1, <3>1, <4>1
    <3>4. QED BY <3>2, <3>3
  <2>8. GoodIn(e) => GoodIn(s) BY <1>1, <2>1 DEF GoodIn
  <2>9. QED BY <1>2, <1>5, <2>7, <2>8
<1>6. QED BY <1>4, <1>5

\* What is said of all fields of a stretch has been so at each of its positions.
LEMMA WithinStretch ==
    ASSUME NEW from \in Int, NEW to \in Int, from - 1 <= to,
           \A c \in from .. to : text[c] \in NumberChars, NEW c \in from - 1 .. to
    PROVE  LET F == FieldsUpTo(from, to)
           IN  /\ F[c] \in FieldSeqs
               /\ FitsIn(F[to]) => FitsIn(F[c])
               /\ AllGood(F[to]) => GoodIn(F[c])
               /\ AllGood(F[to]) /\ (c = to \/ IsSeparator(text[c + 1])) => AllGood(F[c])
<1> DEFINE F == FieldsUpTo(from, to)
<1>1. /\ \A d \in from .. to : F[d] = Extended(F[d - 1], text[d])
      /\ \A d \in from - 1 .. to : F[d] \in FieldSeqs
  BY FieldsAreExtended
<1> HIDE DEF F
<1>2. PICK lo \in Int : lo = from - 1 OBVIOUS
<1> DEFINE G == {d \in lo .. to : /\ FitsIn(F[to]) => FitsIn(F[d])
                                  /\ AllGood(F[to]) => GoodIn(F[d])}
<1>3. to \in G
  <2>1. F[to] \in FieldSeqs BY <1>1
  <2>2. PICK s \in FieldSeqs : s = F[to] BY <2>1
  <2>3. PICK m \in Nat : m = Len(s) BY DEF FieldSeqs
  <2>4. AllGood(s) => GoodIn(s) BY <2>3 DEF AllGood, GoodIn
  <2>5. QED BY <1>2, <2>2, <2>4
<1>4. ASSUME NEW d \in lo .. to - 1, d + 1 \in G PROVE d \in G
  <2>1. d + 1 \in from .. to /\ (d + 1) - 1 = d /\ d \in from - 1 .. to BY <1>2
  <2>2. F[d + 1] = Extended(F[d], text[d + 1]) /\ F[d] \in FieldSeqs BY <1>1, <2>1
  <2>3. QED BY <1>4, <2>1, <2>2, Shorter
<1>5. \A d \in lo .. to : d \in G
  <2> HIDE DEF G
  <2>1. QED BY <1>3, <1>4, Downwards
<1>6. c \in G BY <1>2, <1>5
<1>7. ASSUME AllGood(F[to]), IsSeparator(text[c + 1]), c # to PROVE AllGood(F[c])
  <2>1. c + 1 \in from .. to /\ (c + 1) - 1 = c /\ c + 1 \in lo .. to BY <1>2, <1>7
  <2>2. F[c + 1] = Extended(F[c], text[c + 1]) /\ F[c] \in FieldSeqs BY <1>1, <2>1
  <2>3. GoodIn(F[c + 1]) BY <1>5, <1>7, <2>1
  <2>4. QED BY <1>7, <2>1, <2>2, <2>3, Shorter
<1>8. QED BY <1>1, <1>6, <1>7 DEF F

\* A number that fits in an int is stored as it is.
LEMMA NoWrap ==
    ASSUME NEW w \in Nat, w <= NumberMax
    PROVE  WrapNumber(w) = w
<1>1. NumberMax \in Nat BY NumberMaxAssumption
<1>2. PICK u \in Nat \ {0} : u = UIntSize /\ u = 2 * NumberMax + 2 BY <1>1 DEF UIntSize
<1>3. PICK r \in 0 .. u - 1 : r = w + NumberMax + 1 BY <1>1, <1>2
<1>4. 0 \in Nat /\ u * 0 + r = r BY <1>2, <1>3
<1>5. r % u = r BY <1>4, RemainderUnique
<1>6. QED BY <1>1, <1>2, <1>3, <1>5 DEF WrapNumber

\* One more digit ...
LEMMA ReadDigit ==
    ASSUME NEW s \in FieldSeqs, NEW ch, IsDigit(ch), NEW ns \in Seq(Nat), NEW num \in Int,
           Pending(s, ns, num)
    PROVE  Pending(Extended(s, ch), ns, WrapNumber(10 * num + DigitValue(ch)))
<1>1. PICK m \in Nat \ {0} : m = Len(s) BY DEF FieldSeqs
<1>2. ch \in NumberChars /\ ~IsSeparator(ch) BY Kinds
<1>3. PICK e \in FieldSeqs : e = Extended(s, ch) BY <1>2, ExtendedFields
<1>4. /\ ch \in Digits /\ Len(e) = m /\ e[m] = Append(s[m], ch)
      /\ \A k \in 1 .. m - 1 : e[k] = s[k]
  BY <1>1, <1>2, <1>3, ExtendedFields
<1>5. Len(ns) = m - 1 BY <1>1 DEF Pending
<1>6. ASSUME FitsIn(e)
      PROVE  /\ \A k \in 1 .. Len(ns) : ns[k] = ValueOf(e[k])
             /\ WrapNumber(10 * num + DigitValue(ch)) = ValueOf(e[m])
  <2>1. FitsIn(s) BY <1>2, <1>3, <1>6, Shorter
  <2>2. (\A k \in 1 .. Len(ns) : ns[k] = ValueOf(s[k])) /\ num = ValueOf(s[m])
    BY <1>1, <2>1 DEF Pending
  <2>3. \A k \in 1 .. Len(ns) : ns[k] = ValueOf(e[k]) BY <1>4, <1>5, <2>2
  <2>4. s[m] \in Seq(Digits) BY <1>1 DEF FieldSeqs
  <2>5. num \in Nat BY <2>2, <2>4, ValueSteps
  <2>6. DigitValue(ch) \in Nat BY <1>4, DigitTypes
  <2>7. PICK w \in Nat : w = 10 * num + DigitValue(ch) BY <2>5, <2>6
  <2>8. ValueOf(e[m]) = w BY <1>4, <2>2, <2>4, <2>7, ValueSteps
  <2>9. w <= NumberMax
    <3>1. m \in 1 .. Len(e) BY <1>4
    <3>2. ValueOf(e[m]) <= NumberMax BY <1>6, <3>1 DEF FitsIn
    <3>3. QED BY <2>8, <3>2
  <2>10. WrapNumber(w) = w BY <2>9, NoWrap
  <2>11. QED BY <2>3, <2>7, <2>8, <2>10
<1>7. QED BY <1>3, <1>4, <1>5, <1>6 DEF Pending

\* ... the number is stored ...
LEMMA Store ==
    ASSUME NEW s \in FieldSeqs, NEW ns \in Seq(Nat), NEW num \in Nat, Pending(s, ns, num)
    PROVE  Recorded(s, Append(ns, num))
<1>1. PICK m \in Nat \ {0} : m = Len(s) BY DEF FieldSeqs
<1>2. PICK l \in Nat : l = Len(ns) OBVIOUS
<1>3. l = m - 1 BY <1>1, <1>2 DEF Pending
<1>4. PICK ms : ms = Append(ns, num) OBVIOUS
<1>5. Len(ms) = m /\ ms[m] = num /\ \A k \in 1 .. l : ms[k] = ns[k]
  <2>1. /\ Len(Append(ns, num)) = l + 1 /\ Append(ns, num)[l + 1] = num
        /\ \A k \in 1 .. l : Append(ns, num)[k] = ns[k]
    BY <1>2
  <2>2. l + 1 = m BY <1>3
  <2>3. QED BY <1>4, <2>1, <2>2
<1>6. FitsIn(s) => \A k \in 1 .. m : ms[k] = ValueOf(s[k])
  BY <1>1, <1>2, <1>3, <1>5 DEF Pending
<1>7. QED BY <1>1, <1>4, <1>5, <1>6 DEF Recorded

\* ... the next one begins ...
LEMMA ReadSeparator ==
    ASSUME NEW s \in FieldSeqs, NEW ch, IsSeparator(ch), NEW ns \in Seq(Nat), Recorded(s, ns)
    PROVE  Pending(Extended(s, ch), ns, 0)
<1>1. PICK m \in Nat \ {0} : m = Len(s) BY DEF FieldSeqs
<1>2. ch \in NumberChars BY Kinds
<1>3. PICK e \in FieldSeqs : e = Extended(s, ch) BY <1>2, ExtendedFields
<1>4. Len(e) = m + 1 /\ e[m + 1] = <<>> /\ \A k \in 1 .. m : e[k] = s[k]
  BY <1>1, <1>2, <1>3, ExtendedFields
<1>5. Len(ns) = m BY <1>1 DEF Recorded
<1>6. ValueOf(<<>>) = 0
  <2>1. <<>> \in Seq(Digits) OBVIOUS
  <2>2. QED BY <2>1, ValueSteps
<1>7. ASSUME FitsIn(e)
      PROVE  (\A k \in 1 .. Len(ns) : ns[k] = ValueOf(e[k])) /\ 0 = ValueOf(e[m + 1])
  <2>1. FitsIn(s) BY <1>2, <1>3, <1>7, Shorter
  <2>2. QED BY <1>4, <1>5, <1>6, <2>1 DEF Recorded
<1>8. QED BY <1>3, <1>4, <1>5, <1>7 DEF Pending

\* ... and the last one is there.
LEMMA AllRead ==
    ASSUME NEW s \in FieldSeqs, NEW ns \in Seq(Nat \ {0}), Recorded(s, ns), FitsIn(s),
           Len(ns) < MaxRank
    PROVE  ns = ValuesOf(s) /\ AllGood(s)
<1>1. PICK m \in Nat \ {0} : m = Len(s) BY DEF FieldSeqs
<1>2. Len(ns) = m /\ \A k \in 1 .. m : ns[k] = ValueOf(s[k]) BY <1>1 DEF Recorded
<1>3. DOMAIN s = 1 .. m BY <1>1 DEF FieldSeqs
<1>4. ns = [k \in 1 .. m |-> ns[k]] BY <1>2
<1>5. ns = ValuesOf(s) BY <1>2, <1>3, <1>4 DEF ValuesOf
<1>6. \A k \in 1 .. m : ns[k] > 0 BY <1>2
<1>7. QED BY <1>1, <1>2, <1>5, <1>6 DEF AllGood

\* Reading on in a stretch of numbers, of which F are the fields.
IsStretch(from, to) ==
    /\ from \in 1 .. Len(text) + 1 /\ to \in from - 1 .. Len(text)
    /\ Ends(from, NumberChars, to)

\* A number without a digit is zero.
LEMMA EmptyIsZero == <<>> \in Seq(Digits) /\ ValueOf(<<>>) = 0
<1>1. <<>> \in Seq(Digits) OBVIOUS
<1>2. QED BY <1>1, ValueSteps

\* The terminating zero is no character that is looked for.
LEMMA CharFacts ==
    ASSUME text \in Seq(STRING), at \in 1 .. Len(text) + 1
    PROVE  /\ Char \in NumberChars \/ StartsVector(Char) \/ IsFlag(Char) => at <= Len(text)
           /\ at <= Len(text) => Char = text[at]
<1>1. ~IsSeparator("end") /\ ~StartsVector("end") BY DEF IsSeparator, StartsVector
<1>2. ~IsDigit("end")
  <2>1. SUFFICES ASSUME NEW d \in 1 .. 10 PROVE DigitChars[d] # "end" BY DEF IsDigit
  <2>2. \/ d = 1 \/ d = 2 \/ d = 3 \/ d = 4 \/ d = 5 \/ d = 6 \/ d = 7 \/ d = 8 \/ d = 9 \/ d = 10
    OBVIOUS
  <2>3. QED BY <2>2 DEF DigitChars
<1>3. ~IsFlag("end") BY DEF IsFlag, Flags, Says
<1>4. QED BY <1>1, <1>2, <1>3, Kinds DEF Char

\* A digit of a number that is under way.
LEMMA DigitStep ==
    ASSUME text \in Seq(STRING), at \in 1 .. Len(text) + 1, NEW from, NEW to, IsStretch(from, to),
           at - 1 \in from - 1 .. to, IsDigit(Char), n \in Int, NEW ns \in Seq(Nat),
           Pending(FieldsUpTo(from, to)[at - 1], ns, n)
    PROVE  /\ at \in from .. to
           /\ Pending(FieldsUpTo(from, to)[at], ns, WrapNumber(10 * n + DigitValue(Char)))
<1> DEFINE F == FieldsUpTo(from, to)
<1>1. at <= Len(text) /\ Char = text[at] /\ text[at] \in NumberChars BY CharFacts, Kinds
<1>2. from \in Int /\ to \in Int /\ from - 1 <= to /\ (\A c \in from .. to : text[c] \in NumberChars)
  BY DEF IsStretch, Ends
<1>3. PICK c \in Int : c = at - 1 /\ c + 1 = at OBVIOUS
<1>4. c # to BY <1>1, <1>3 DEF IsStretch, Ends
<1>5. at \in from .. to BY <1>2, <1>3, <1>4
<1>6. F[at] = Extended(F[at - 1], text[at]) /\ F[at - 1] \in FieldSeqs
  <2>1. at - 1 \in from - 1 .. to BY <1>5
  <2>2. QED BY <1>2, <1>5, <2>1, FieldsAreExtended
<1> HIDE DEF F
<1>7. Pending(F[at - 1], ns, n) BY DEF F
<1>8. Pending(F[at], ns, WrapNumber(10 * n + DigitValue(Char)))
  BY <1>1, <1>6, <1>7, ReadDigit
<1>9. QED BY <1>5, <1>8 DEF F

\* A field begins with a digit in a text that is well formed.
LEMMA NextField ==
    ASSUME text \in Seq(STRING), NEW from, NEW to, IsStretch(from, to),
           NEW c \in from - 1 .. to, NEW k \in Nat, k = Len(FieldsUpTo(from, to)[c]), k # 0,
           FieldsUpTo(from, to)[c][k] = <<>>, AllGood(FieldsUpTo(from, to)[to])
    PROVE  c + 1 <= Len(text) /\ IsDigit(text[c + 1])
<1> DEFINE F == FieldsUpTo(from, to)
<1>1. from \in Int /\ to \in Int /\ from - 1 <= to /\ (\A d \in from .. to : text[d] \in NumberChars)
  BY DEF IsStretch, Ends
<1>2. (c = to \/ IsSeparator(text[c + 1])) => AllGood(F[c]) BY <1>1, WithinStretch
<1>3. ~AllGood(F[c])
  <2> HIDE DEF F
  <2>1. k = Len(F[c]) /\ F[c][k] = <<>> BY DEF F
  <2>2. k \in 1 .. k OBVIOUS
  <2>3. QED BY <2>1, <2>2, EmptyIsZero DEF AllGood
<1>4. c # to /\ ~IsSeparator(text[c + 1]) BY <1>2, <1>3
<1>5. c + 1 \in from .. to BY <1>1, <1>4
<1>6. c + 1 <= Len(text) BY <1>5 DEF IsStretch
<1>7. QED BY <1>1, <1>4, <1>5, <1>6, Kinds

\* After the digits of a number.
LEMMA NumberStep ==
    ASSUME text \in Seq(STRING), at \in 1 .. Len(text) + 1, NEW from, NEW to, IsStretch(from, to),
           at - 1 \in from - 1 .. to, ~IsDigit(Char), n \in Int, NEW ns \in Seq(Nat),
           Pending(FieldsUpTo(from, to)[at - 1], ns, n)
    PROVE  LET F == FieldsUpTo(from, to)
           IN  /\ AllGood(F[to]) /\ FitsIn(F[to]) => n > 0 /\ Len(ns) + 1 < MaxRank
               /\ n > 0 => Recorded(F[at - 1], Append(ns, n))
               /\ ~IsSeparator(Char) => at - 1 = to
               /\ n > 0 /\ IsSeparator(Char) =>
                      /\ at \in from .. to /\ at + 1 <= Len(text) + 1
                      /\ Pending(F[at], Append(ns, n), 0)
                      /\ AllGood(F[to]) => at + 1 <= Len(text) /\ IsDigit(text[at + 1])
<1> DEFINE F == FieldsUpTo(from, to)
<1>1. from \in Int /\ to \in Int /\ from - 1 <= to /\ (\A c \in from .. to : text[c] \in NumberChars)
  BY DEF IsStretch, Ends
<1>2. PICK c \in from - 1 .. to : c = at - 1 /\ c + 1 = at OBVIOUS
<1>3. /\ F[c] \in FieldSeqs
      /\ FitsIn(F[to]) => FitsIn(F[c])
      /\ AllGood(F[to]) /\ (c = to \/ IsSeparator(text[c + 1])) => AllGood(F[c])
  BY <1>1, WithinStretch
<1>4. /\ \A d \in from .. to : F[d] = Extended(F[d - 1], text[d])
      /\ \A d \in from - 1 .. to : F[d] \in FieldSeqs
  BY <1>1, FieldsAreExtended
<1> HIDE DEF F
<1>5. Pending(F[c], ns, n) BY <1>2 DEF F
<1>6. PICK m \in Nat \ {0} : m = Len(F[c])
  <2>1. PICK s \in FieldSeqs : s = F[c] BY <1>3
  <2>2. PICK m \in Nat \ {0} : m = Len(s) BY DEF FieldSeqs
  <2>3. QED BY <2>1, <2>2
<1>7. Len(ns) = m - 1 BY <1>5, <1>6 DEF Pending
<1>8. c # to => c + 1 \in from .. to /\ at <= Len(text) BY <1>1, <1>2 DEF IsStretch
<1>9. c # to => IsSeparator(text[c + 1]) /\ IsSeparator(Char)
  BY <1>1, <1>2, <1>8, CharFacts, Kinds
<1>10. ASSUME AllGood(F[to]), FitsIn(F[to]) PROVE n > 0 /\ Len(ns) + 1 < MaxRank
  <2>1. AllGood(F[c]) /\ FitsIn(F[c]) BY <1>3, <1>9, <1>10
  <2>2. n = ValueOf(F[c][m]) BY <1>5, <1>6, <2>1 DEF Pending
  <2>3. m < MaxRank /\ \A k \in 1 .. m : ValueOf(F[c][k]) > 0 BY <1>6, <2>1 DEF AllGood
  <2>4. m \in 1 .. m BY <1>6
  <2>5. n > 0 BY <2>2, <2>3, <2>4
  <2>6. Len(ns) + 1 = m BY <1>6, <1>7
  <2>7. QED BY <2>3, <2>5, <2>6
<1>11. n > 0 => Recorded(F[c], Append(ns, n)) BY <1>3, <1>5, Store
<1>12. ASSUME n > 0, IsSeparator(Char)
       PROVE  /\ at \in from .. to /\ at + 1 <= Len(text) + 1
              /\ Pending(F[at], Append(ns, n), 0)
              /\ AllGood(F[to]) => at + 1 <= Len(text) /\ IsDigit(text[at + 1])
  <2>1. at <= Len(text) /\ Char = text[at] BY <1>12, CharFacts, Kinds
  <2>2. c # to BY <1>2, <1>12, <2>1, Kinds DEF IsStretch, Ends
  <2>3. at \in from .. to BY <1>2, <1>8, <2>2
  <2>4. F[at] = Extended(F[c], text[at]) /\ F[at] \in FieldSeqs
    <3>1. at \in from - 1 .. to /\ at - 1 = c BY <1>1, <1>2, <2>3
    <3>2. QED BY <1>4, <2>3, <3>1
  <2>5. n \in Nat BY <1>12
  <2>6. PICK ms \in Seq(Nat) : ms = Append(ns, n)
    <3>1. Append(ns, n) \in Seq(Nat) BY <2>5
    <3>2. QED BY <3>1
  <2>7. Pending(Extended(F[c], text[at]), ms, 0)
    BY <1>3, <1>11, <1>12, <2>1, <2>6, ReadSeparator
  <2>8. Len(F[at]) = m + 1 /\ F[at][m + 1] = <<>>
    <3>1. PICK s \in FieldSeqs : s = F[c] BY <1>3
    <3>2. text[at] \in NumberChars /\ IsSeparator(text[at]) BY <1>12, <2>1, Kinds
    <3>3. Len(Extended(s, text[at])) = Len(s) + 1 /\ Extended(s, text[at])[Len(s) + 1] = <<>>
      BY <3>2, ExtendedFields
    <3>4. QED BY <1>6, <2>4, <3>1, <3>3
  <2>9. AllGood(F[to]) => at + 1 <= Len(text) /\ IsDigit(text[at + 1])
    <3>1. PICK k \in Nat : k = m + 1 /\ k # 0 OBVIOUS
    <3>2. PICK d \in from - 1 .. to : d = at BY <1>1, <2>3
    <3>3. QED BY <2>8, <3>1, <3>2, NextField DEF F
  <2>10. QED BY <2>1, <2>3, <2>4, <2>6, <2>7, <2>9
<1>13. QED BY <1>2, <1>9, <1>10, <1>11, <1>12 DEF F

SizesTo(c) == FieldsUpTo(FlagsEnd + 1, SizesEnd)[c]
VectorTo(c) == FieldsUpTo(SizesEnd + 2, VectorEnd)[c]

Said(to, ns, size, vs, vsize) ==
    [kind |-> LastFlag("kind", "complex", to), sign |-> LastFlag("sign", -1, to),
     in_place |-> LastFlag("in_place", 0, to), split |-> LastFlag("split", 0, to),
     n |-> ns, size |-> size, vn |-> vs, vsize |-> vsize]

\* Nothing but the text is asked for.
LEMMA SameText ==
    ASSUME UNCHANGED text
    PROVE  /\ FlagsEnd' = FlagsEnd /\ SizesEnd' = SizesEnd /\ VectorEnd' = VectorEnd
           /\ HasVector' <=> HasVector
           /\ Fits' <=> Fits
           /\ WellFormed' <=> WellFormed
           /\ \A c : SizesTo(c)' = SizesTo(c) /\ VectorTo(c)' = VectorTo(c)
           /\ \A to, ns, size, vs, vsize : Said(to, ns, size, vs, vsize)' = Said(to, ns, size, vs, vsize)
<1>1. \A from, chars : Stretch(from, chars)' = Stretch(from, chars) BY DEF Stretch
<1>2. \A from, to : FieldsUpTo(from, to)' = FieldsUpTo(from, to) BY DEF FieldsUpTo
<1>3. \A field, default, to : LastFlag(field, default, to)' = LastFlag(field, default, to)
  BY DEF LastFlag
<1>4. FlagsEnd' = FlagsEnd BY <1>1 DEF FlagsEnd
<1>5. SizesEnd' = SizesEnd BY <1>1, <1>4 DEF SizesEnd
<1>6. VectorEnd' = VectorEnd BY <1>1, <1>5 DEF VectorEnd
<1>7. HasVector' <=> HasVector BY <1>5 DEF HasVector
<1>8. \A c : SizesTo(c)' = SizesTo(c) /\ VectorTo(c)' = VectorTo(c)
  BY <1>2, <1>4, <1>5, <1>6 DEF SizesTo, VectorTo
<1>9. \A to, ns, size, vs, vsize : Said(to, ns, size, vs, vsize)' = Said(to, ns, size, vs, vsize)
  BY <1>3 DEF Said
<1>10. SizeFields' = SizeFields /\ VectorFields' = VectorFields
  BY <1>2, <1>4, <1>5, <1>6, <1>7 DEF SizeFields, VectorFields, Fields
<1>11. AllFields' = AllFields BY <1>10 DEF AllFields
<1>12. (Fits' <=> Fits) /\ (WellFormed' <=> WellFormed)
  BY <1>10, <1>11 DEF Fits, WellFormed
<1>13. QED BY <1>4, <1>5, <1>6, <1>7, <1>8, <1>9, <1>12

-----------------------------------------------------------------------------
ParseTypeOK ==
    /\ text \in Seq(STRING) /\ at \in 1 .. Len(text) + 1
    /\ goal \in {"L1", "L2", "L4", "done", "assertion"}
    /\ n \in Int
    /\ problem.n \in Seq(Nat \ {0}) /\ Len(problem.n) <= MaxRank
    /\ problem.vn \in Seq(Nat \ {0}) /\ Len(problem.vn) <= MaxRank

\* Before the sizes the letters so far count, and after them all letters.
LettersInv ==
    goal = "L1" => /\ \A c \in 1 .. at - 1 : text[c] \in FlagChars
                   /\ problem = Said(at - 1, <<>>, 1, <<>>, 1)
AfterInv ==
    goal \in {"L2", "L4", "done"} =>
        /\ Len(problem.n) < MaxRank /\ Len(problem.vn) < MaxRank
        /\ problem = Said(FlagsEnd, problem.n, TotalOf(problem.n) % UIntSize,
                          problem.vn, TotalOf(problem.vn) % UIntSize)

\* Where in the sizes and in the vector part the code is, and what it has read.
SizesInv ==
    goal = "L2" => /\ at - 1 \in FlagsEnd .. SizesEnd /\ problem.vn = <<>>
                   /\ Pending(SizesTo(at - 1), problem.n, n)
VectorInv ==
    goal = "L4" => /\ HasVector /\ at - 1 \in SizesEnd + 1 .. VectorEnd
                   /\ Recorded(SizesTo(SizesEnd), problem.n)
                   /\ Pending(VectorTo(at - 1), problem.vn, n)
DoneInv ==
    goal = "done" => /\ Recorded(SizesTo(SizesEnd), problem.n)
                     /\ IF HasVector THEN Recorded(VectorTo(VectorEnd), problem.vn)
                                     ELSE problem.vn = <<>>
AssertInv == goal = "assertion" => (Fits => ~WellFormed)

ParseInv == ParseTypeOK /\ LettersInv /\ AfterInv /\ SizesInv /\ VectorInv /\ DoneInv /\ AssertInv

\* Where the parts of a text are.
LEMMA Parts ==
    ASSUME text \in Seq(STRING)
    PROVE  /\ FlagsEnd \in 0 .. Len(text) /\ IsStretch(FlagsEnd + 1, SizesEnd)
           /\ HasVector => IsStretch(SizesEnd + 2, VectorEnd)
<1>1. PICK m \in Nat : m = Len(text) OBVIOUS
<1>2. FlagsEnd \in 0 .. m
  <2>1. 1 \in 1 .. Len(text) + 1 BY <1>1
  <2>2. Stretch(1, FlagChars) \in 1 - 1 .. Len(text) BY <2>1, StretchEnds
  <2>3. QED BY <1>1, <2>2 DEF FlagsEnd
<1>3. PICK from \in 1 .. Len(text) + 1 : from = FlagsEnd + 1 BY <1>1, <1>2
<1>4. IsStretch(from, Stretch(from, NumberChars)) BY StretchEnds DEF IsStretch
<1>5. Stretch(from, NumberChars) = SizesEnd BY <1>3 DEF SizesEnd
<1>6. SizesEnd \in FlagsEnd .. m BY <1>1, <1>2, <1>3, <1>4, <1>5 DEF IsStretch
<1>7. ASSUME HasVector PROVE IsStretch(SizesEnd + 2, VectorEnd)
  <2>1. SizesEnd < m BY <1>1, <1>7 DEF HasVector
  <2>2. PICK w \in 1 .. Len(text) + 1 : w = SizesEnd + 2 BY <1>1, <1>2, <1>6, <2>1
  <2>3. IsStretch(w, Stretch(w, NumberChars)) BY StretchEnds DEF IsStretch
  <2>4. QED BY <2>2, <2>3 DEF VectorEnd
<1>8. QED BY <1>1, <1>2, <1>3, <1>4, <1>5, <1>7

\* What a text must be is said of its fields.
LEMMA Truth ==
    ASSUME text \in Seq(STRING)
    PROVE  /\ Fits => FitsIn(SizesTo(SizesEnd)) /\ (HasVector => FitsIn(VectorTo(VectorEnd)))
           /\ WellFormed => AllGood(SizesTo(SizesEnd)) /\ (HasVector => AllGood(VectorTo(VectorEnd)))
           /\ AllGood(SizesTo(SizesEnd)) /\ (HasVector => AllGood(VectorTo(VectorEnd))) => WellFormed
<1>1. PICK s : s = SizesTo(SizesEnd) /\ s = SizeFields
  BY DEF SizesTo, SizeFields, Fields
<1>2. PICK v : v = VectorFields OBVIOUS
<1>3. HasVector => v = VectorTo(VectorEnd) BY <1>2 DEF VectorTo, VectorFields, Fields
<1>4. ~HasVector => v = <<>> BY <1>2 DEF VectorFields
<1>5. s \in FieldSeqs /\ (HasVector => v \in FieldSeqs)
  <2>1. \A from, to : IsStretch(from, to) => FieldsUpTo(from, to)[to] \in FieldSeqs
    <3> SUFFICES ASSUME NEW from, NEW to, IsStretch(from, to)
                 PROVE FieldsUpTo(from, to)[to] \in FieldSeqs
      OBVIOUS
    <3>2. from \in Int /\ to \in Int /\ from - 1 <= to BY DEF IsStretch
    <3>3. \A d \in from .. to : text[d] \in NumberChars BY DEF IsStretch, Ends
    <3>4. to \in from - 1 .. to BY <3>2
    <3>5. QED BY <3>2, <3>3, <3>4, FieldsAreExtended
  <2>2. QED BY <1>1, <1>3, <2>1, Parts DEF SizesTo, VectorTo
<1>6. v \in Seq(Seq(Digits)) /\ s \in Seq(Seq(Digits))
  <2>1. CASE HasVector BY <1>5, <2>1 DEF FieldSeqs
  <2>2. CASE ~HasVector
    <3>1. <<>> \in Seq(Seq(Digits)) OBVIOUS
    <3>2. QED BY <1>4, <1>5, <2>2, <3>1 DEF FieldSeqs
  <2>3. QED BY <2>1, <2>2
<1>7. PICK l \in Nat, k \in Nat : l = Len(s) /\ DOMAIN s = 1 .. l /\ k = Len(v) /\ DOMAIN v = 1 .. k
  BY <1>6
<1>8. AllFields = {s[f] : f \in 1 .. l} \cup {v[f] : f \in 1 .. k}
  BY <1>1, <1>2, <1>7 DEF AllFields
<1>9. Fits => FitsIn(s) /\ (HasVector => FitsIn(v)) BY <1>7, <1>8 DEF Fits, FitsIn
<1>10. WellFormed => AllGood(s) /\ (HasVector => AllGood(v))
  BY <1>1, <1>2, <1>7, <1>8 DEF WellFormed, AllGood
<1>11. ASSUME AllGood(s), HasVector => AllGood(v) PROVE WellFormed
  <2>1. l < MaxRank /\ k < MaxRank BY <1>4, <1>7, <1>11, MaxRankAssumption DEF AllGood
  <2>2. \A f \in AllFields : ValueOf(f) > 0 BY <1>4, <1>7, <1>8, <1>11 DEF AllGood
  <2>3. \A f \in AllFields : f # <<>> BY <2>2, EmptyIsZero
  <2>4. QED BY <1>1, <1>2, <1>7, <2>1, <2>2, <2>3 DEF WellFormed
<1>12. QED BY <1>1, <1>3, <1>9, <1>10, <1>11

\* Nothing has been read.
LEMMA ParseInitHolds == ParseInit => ParseInv
<1> SUFFICES ASSUME ParseInit PROVE ParseInv
  OBVIOUS
<1>1. /\ text \in Seq(STRING) /\ at = 1 /\ goal = "L1" /\ n = 0
      /\ problem = [kind |-> "complex", sign |-> -1, in_place |-> 0, split |-> 0,
                    n |-> <<>>, size |-> 1, vn |-> <<>>, vsize |-> 1]
  BY TextsAssumption DEF ParseInit
<1>2. <<>> \in Seq(Nat \ {0}) /\ Len(<<>>) = 0 OBVIOUS
<1>3. ParseTypeOK BY <1>1, <1>2, MaxRankAssumption DEF ParseTypeOK
<1>4. \A field, default : LastFlag(field, default, 0) = default BY DEF LastFlag
<1>5. LettersInv BY <1>1, <1>4 DEF LettersInv, Said
<1>6. QED
  BY <1>1, <1>3, <1>5 DEF ParseInv, AfterInv, SizesInv, VectorInv, DoneInv, AssertInv

\* A letter.
LEMMA LetterHolds == ParseInv /\ Letter => ParseInv'
<1> SUFFICES ASSUME ParseInv, Letter PROVE ParseInv'
  OBVIOUS
<1> USE DEF ParseInv
<1>1. goal = "L1" /\ at' = at + 1 /\ UNCHANGED <<text, goal, n>> BY DEF Letter
<1>2. PICK f \in Flags : f.char = Char /\ problem' = [problem EXCEPT ![f.field] = f.value]
  BY DEF Letter
<1>3. text \in Seq(STRING) /\ at \in 1 .. Len(text) + 1 BY DEF ParseTypeOK
<1>4. at <= Len(text) /\ Char = text[at] BY <1>2, <1>3, CharFacts DEF IsFlag
<1>5. problem = Said(at - 1, <<>>, 1, <<>>, 1) /\ \A c \in 1 .. at - 1 : text[c] \in FlagChars
  BY <1>1 DEF LettersInv
<1>6. \A field, default : LastFlag(field, default, at) =
                             IF f.field = field THEN f.value ELSE LastFlag(field, default, at - 1)
  BY <1>2, <1>3, <1>4, LetterMore
<1>7. f.field \in {"kind", "sign", "in_place", "split"} BY DEF Flags, Says
<1>8. problem' = Said(at, <<>>, 1, <<>>, 1)
  <2>1. CASE f.field = "kind" BY <1>2, <1>5, <1>6, <2>1 DEF Said
  <2>2. CASE f.field = "sign" BY <1>2, <1>5, <1>6, <2>2 DEF Said
  <2>3. CASE f.field = "in_place" BY <1>2, <1>5, <1>6, <2>3 DEF Said
  <2>4. CASE f.field = "split" BY <1>2, <1>5, <1>6, <2>4 DEF Said
  <2>5. QED BY <1>7, <2>1, <2>2, <2>3, <2>4
<1>9. ParseTypeOK'
  <2>1. problem'.n = <<>> /\ problem'.vn = <<>> BY <1>8 DEF Said
  <2>2. <<>> \in Seq(Nat \ {0}) /\ Len(<<>>) = 0 OBVIOUS
  <2>3. at' \in 1 .. Len(text') + 1 BY <1>1, <1>3, <1>4
  <2>4. QED BY <1>1, <2>1, <2>2, <2>3, MaxRankAssumption DEF ParseTypeOK
<1>10. LettersInv'
  <2>1. text[at] \in FlagChars BY <1>2, <1>4 DEF FlagChars
  <2>2. \A c \in 1 .. at' - 1 : text'[c] \in FlagChars BY <1>1, <1>3, <1>5, <2>1
  <2>3. at' - 1 = at BY <1>1, <1>3
  <2>4. \A to, ns, size, vs, vsize : Said(to, ns, size, vs, vsize)' = Said(to, ns, size, vs, vsize)
    BY <1>1, SameText
  <2>5. QED BY <1>8, <2>2, <2>3, <2>4 DEF LettersInv
<1>11. QED BY <1>1, <1>9, <1>10 DEF AfterInv, SizesInv, VectorInv, DoneInv, AssertInv

\* The first number begins.
LEMMA SizesHolds == ParseInv /\ Sizes => ParseInv'
<1> SUFFICES ASSUME ParseInv, Sizes PROVE ParseInv'
  OBVIOUS
<1> USE DEF ParseInv
<1>1. /\ goal = "L1" /\ ~IsFlag(Char) /\ UNCHANGED <<text, problem>> /\ at' = at /\ n' = 0
      /\ goal' = IF at <= Len(text) /\ IsDigit(text[at]) THEN "L2" ELSE "assertion"
  BY DEF Sizes, Begin
<1>2. text \in Seq(STRING) /\ at \in 1 .. Len(text) + 1 BY DEF ParseTypeOK
<1>3. PICK m \in Nat : m = Len(text) BY <1>2
<1>4. problem = Said(at - 1, <<>>, 1, <<>>, 1) /\ \A c \in 1 .. at - 1 : text[c] \in FlagChars
  BY <1>1 DEF LettersInv
<1>5. at - 1 = FlagsEnd
  <2>1. at - 1 < Len(text) => text[(at - 1) + 1] \notin FlagChars
    <3>1. (at - 1) + 1 = at BY <1>2
    <3>2. at - 1 < m => at <= m BY <1>2, <1>3
    <3>3. QED BY <1>1, <1>2, <1>3, <3>1, <3>2, CharFacts DEF IsFlag, FlagChars
  <2>2. PICK p \in 1 - 1 .. Len(text) : p = at - 1 BY <1>2, <1>3
  <2>3. 1 \in 1 .. Len(text) + 1 BY <1>3
  <2>4. p = Stretch(1, FlagChars) BY <1>2, <1>4, <2>1, <2>2, <2>3, StretchReaches
  <2>5. QED BY <2>2, <2>4 DEF FlagsEnd
<1>6. IsStretch(FlagsEnd + 1, SizesEnd) BY <1>2, Parts
<1>7. at - 1 \in FlagsEnd .. SizesEnd
  <2>1. SizesEnd \in Int /\ FlagsEnd + 1 - 1 <= SizesEnd
    BY <1>2, <1>3, <1>5, <1>6 DEF IsStretch
  <2>2. QED BY <1>2, <1>5, <2>1
<1>8. SizesTo(at - 1) = <<<<>>>>
  <2>1. PICK from \in Int : from = FlagsEnd + 1 BY <1>2, <1>5
  <2>2. SizesEnd \in Int /\ from - 1 <= SizesEnd BY <1>3, <1>6, <2>1 DEF IsStretch
  <2>3. \A c \in from .. SizesEnd : text[c] \in NumberChars
    BY <1>6, <2>1 DEF IsStretch, Ends
  <2>4. FieldsUpTo(from, SizesEnd)[from - 1] = <<<<>>>> BY <2>2, <2>3, FieldsAreExtended
  <2>5. from - 1 = at - 1 BY <1>2, <1>5, <2>1
  <2>6. QED BY <2>1, <2>4, <2>5 DEF SizesTo
<1>9. problem.n = <<>> /\ problem.vn = <<>> /\ problem.size = 1 /\ problem.vsize = 1
  BY <1>4 DEF Said
<1>10. ParseTypeOK' BY <1>1 DEF ParseTypeOK
<1>11. UNCHANGED text BY <1>1
<1>12. CASE goal' = "L2"
  <2>1. Pending(<<<<>>>>, <<>>, 0)
    <3>1. Len(<<<<>>>>) = 1 /\ <<<<>>>>[1] = <<>> /\ Len(<<>>) = 0 OBVIOUS
    <3>2. QED BY <3>1, EmptyIsZero DEF Pending
  <2>2. SizesInv' BY <1>1, <1>7, <1>8, <1>9, <1>11, <2>1, SameText DEF SizesInv
  <2>3. AfterInv'
    <3>1. TotalOf(<<>>) = 1
      <4>1. <<>> \in Seq(Nat) OBVIOUS
      <4>2. QED BY <4>1, TotalSteps
    <3>2. 1 % UIntSize = 1
      <4>1. PICK u \in Nat \ {0} : u = UIntSize /\ u >= 2
        BY NumberMaxAssumption DEF UIntSize
      <4>2. 0 \in Nat /\ 1 \in 0 .. u - 1 /\ u * 0 + 1 = 1 BY <4>1
      <4>3. QED BY <4>1, <4>2, RemainderUnique
    <3>3. 0 < MaxRank /\ Len(<<>>) = 0 BY MaxRankAssumption
    <3>4. problem = Said(FlagsEnd, <<>>, TotalOf(<<>>) % UIntSize, <<>>, TotalOf(<<>>) % UIntSize)
      BY <1>4, <1>5, <3>1, <3>2
    <3>5. problem' = problem BY <1>1
    <3>6. \A to, ns, size, vs, vsize : Said(to, ns, size, vs, vsize)' = Said(to, ns, size, vs, vsize)
      BY <1>11, SameText
    <3>7. FlagsEnd' = FlagsEnd BY <1>11, SameText
    <3>8. QED BY <1>9, <3>3, <3>4, <3>5, <3>6, <3>7 DEF AfterInv
  <2>4. QED BY <1>10, <1>12, <2>2, <2>3 DEF LettersInv, VectorInv, DoneInv, AssertInv
<1>13. CASE goal' = "assertion"
  <2>1. ~WellFormed
    <3> SUFFICES ASSUME WellFormed PROVE FALSE
      OBVIOUS
    <3>1. AllGood(FieldsUpTo(FlagsEnd + 1, SizesEnd)[SizesEnd])
      BY <1>2, Truth DEF SizesTo
    <3>2. PICK from, to : from = FlagsEnd + 1 /\ to = SizesEnd OBVIOUS
    <3>3. PICK c \in from - 1 .. to : c = at - 1 BY <1>2, <1>5, <1>7, <3>2
    <3>4. PICK k \in Nat : k = 1 OBVIOUS
    <3>5. FieldsUpTo(from, to)[c] = <<<<>>>> BY <1>8, <3>2, <3>3 DEF SizesTo
    <3>6. k = Len(FieldsUpTo(from, to)[c]) /\ k # 0 /\ FieldsUpTo(from, to)[c][k] = <<>>
      BY <3>4, <3>5
    <3>7. c + 1 <= Len(text) /\ IsDigit(text[c + 1])
      BY <1>2, <1>6, <3>1, <3>2, <3>6, NextField
    <3>8. c + 1 = at BY <1>2, <3>3
    <3>9. QED BY <1>1, <1>13, <3>7, <3>8
  <2>2. AssertInv' BY <1>11, <2>1, SameText DEF AssertInv
  <2>3. QED BY <1>10, <1>13, <2>2 DEF LettersInv, AfterInv, SizesInv, VectorInv, DoneInv
<1>14. QED BY <1>1, <1>12, <1>13

\* A digit of a number.
LEMMA DigitHolds == ParseInv /\ Digit => ParseInv'
<1> SUFFICES ASSUME ParseInv, Digit PROVE ParseInv'
  OBVIOUS
<1> USE DEF ParseInv
<1>1. /\ goal \in {"L2", "L4"} /\ IsDigit(Char) /\ UNCHANGED <<text, goal, problem>> /\ at' = at + 1
      /\ n' = WrapNumber(10 * n + DigitValue(Char))
  BY DEF Digit
<1>2. /\ text \in Seq(STRING) /\ at \in 1 .. Len(text) + 1 /\ n \in Int
      /\ problem.n \in Seq(Nat) /\ problem.vn \in Seq(Nat)
  BY DEF ParseTypeOK
<1>3. at <= Len(text) BY <1>1, <1>2, CharFacts, Kinds
<1>4. ParseTypeOK'
  <2>1. at' \in 1 .. Len(text') + 1 BY <1>1, <1>2, <1>3
  <2>2. n' \in Int
    <3>1. DigitValue(Char) \in Int BY <1>1, DigitTypes
    <3>2. PICK w \in Int : w = 10 * n + DigitValue(Char) BY <1>2, <3>1
    <3>3. PICK u \in Nat \ {0} : u = UIntSize BY NumberMaxAssumption DEF UIntSize
    <3>4. WrapNumber(w) \in Int BY <3>2, <3>3, NumberMaxAssumption DEF WrapNumber
    <3>5. QED BY <1>1, <3>2, <3>4
  <2>3. QED BY <1>1, <2>1, <2>2 DEF ParseTypeOK
<1>5. UNCHANGED text BY <1>1
<1>6. AfterInv'
  <2>1. \A to, ns, size, vs, vsize : Said(to, ns, size, vs, vsize)' = Said(to, ns, size, vs, vsize)
    BY <1>5, SameText
  <2>2. FlagsEnd' = FlagsEnd BY <1>5, SameText
  <2>3. QED BY <1>1, <2>1, <2>2 DEF AfterInv
<1>7. at' - 1 = at BY <1>1, <1>2
<1>8. CASE goal = "L2"
  <2>1. IsStretch(FlagsEnd + 1, SizesEnd) /\ FlagsEnd \in Int BY <1>2, Parts
  <2>2. at - 1 \in FlagsEnd .. SizesEnd /\ Pending(SizesTo(at - 1), problem.n, n)
    BY <1>8 DEF SizesInv
  <2>3. PICK from, to : from = FlagsEnd + 1 /\ to = SizesEnd OBVIOUS
  <2>4. at - 1 \in from - 1 .. to BY <1>2, <2>1, <2>2, <2>3
  <2>5. /\ at \in from .. to
        /\ Pending(FieldsUpTo(from, to)[at], problem.n, WrapNumber(10 * n + DigitValue(Char)))
    BY <1>1, <1>2, <2>1, <2>2, <2>3, <2>4, DigitStep DEF SizesTo
  <2>6. at \in FlagsEnd .. SizesEnd BY <2>1, <2>3, <2>5
  <2>7. Pending(SizesTo(at), problem.n, n') BY <1>1, <2>3, <2>5 DEF SizesTo
  <2>8. problem.vn = <<>> BY <1>8 DEF SizesInv
  <2>9. SizesInv' BY <1>1, <1>5, <1>7, <2>6, <2>7, <2>8, SameText DEF SizesInv
  <2>10. QED
    BY <1>1, <1>4, <1>6, <1>8, <2>9 DEF LettersInv, VectorInv, DoneInv, AssertInv
<1>9. CASE goal = "L4"
  <2>1. /\ HasVector /\ at - 1 \in SizesEnd + 1 .. VectorEnd
        /\ Recorded(SizesTo(SizesEnd), problem.n) /\ Pending(VectorTo(at - 1), problem.vn, n)
    BY <1>9 DEF VectorInv
  <2>2. IsStretch(SizesEnd + 2, VectorEnd) /\ SizesEnd \in Int
    BY <1>2, <2>1, Parts DEF IsStretch
  <2>3. PICK from, to : from = SizesEnd + 2 /\ to = VectorEnd OBVIOUS
  <2>4. at - 1 \in from - 1 .. to BY <1>2, <2>1, <2>2, <2>3
  <2>5. /\ at \in from .. to
        /\ Pending(FieldsUpTo(from, to)[at], problem.vn, WrapNumber(10 * n + DigitValue(Char)))
    BY <1>1, <1>2, <2>1, <2>2, <2>3, <2>4, DigitStep DEF VectorTo
  <2>6. at \in SizesEnd + 1 .. VectorEnd BY <2>2, <2>3, <2>5
  <2>7. Pending(VectorTo(at), problem.vn, n') BY <1>1, <2>3, <2>5 DEF VectorTo
  <2>8. VectorInv' BY <1>1, <1>5, <1>7, <2>1, <2>6, <2>7, SameText DEF VectorInv
  <2>9. QED BY <1>1, <1>4, <1>6, <1>9, <2>8 DEF LettersInv, SizesInv, DoneInv, AssertInv
<1>10. QED BY <1>1, <1>8, <1>9

\* The sizes and their product, with one more size.
LEMMA OneMore ==
    ASSUME NEW ns \in Seq(Nat \ {0}), NEW num \in Nat \ {0}
    PROVE  /\ Append(ns, num) \in Seq(Nat \ {0}) /\ Len(Append(ns, num)) = Len(ns) + 1
           /\ ((TotalOf(ns) % UIntSize) * num) % UIntSize = TotalOf(Append(ns, num)) % UIntSize
<1>1. PICK u \in Nat \ {0} : u = UIntSize BY NumberMaxAssumption DEF UIntSize
<1>2. ns \in Seq(Nat) OBVIOUS
<1>3. PICK t \in Nat : t = TotalOf(ns) BY <1>2, TotalSteps
<1>4. TotalOf(Append(ns, num)) = t * num BY <1>2, <1>3, TotalSteps
<1>5. ((t % u) * num) % u = (t * num) % u BY ProductRemainder
<1>6. QED BY <1>1, <1>3, <1>4, <1>5

\* A number of the sizes is stored.
LEMMA SizeHolds == ParseInv /\ Size => ParseInv'
<1> SUFFICES ASSUME ParseInv, Size PROVE ParseInv'
  OBVIOUS
<1> USE DEF ParseInv
<1>1. goal = "L2" /\ ~IsDigit(Char) /\ UNCHANGED text BY DEF Size, Number
<1>2. /\ text \in Seq(STRING) /\ at \in 1 .. Len(text) + 1 /\ n \in Int
      /\ problem.n \in Seq(Nat \ {0}) /\ problem.vn \in Seq(Nat \ {0})
  BY DEF ParseTypeOK
<1>3. /\ at - 1 \in FlagsEnd .. SizesEnd /\ problem.vn = <<>>
      /\ Pending(SizesTo(at - 1), problem.n, n)
  BY <1>1 DEF SizesInv
<1>4. /\ Len(problem.n) < MaxRank /\ Len(problem.vn) < MaxRank
      /\ problem = Said(FlagsEnd, problem.n, TotalOf(problem.n) % UIntSize,
                        problem.vn, TotalOf(problem.vn) % UIntSize)
  BY <1>1 DEF AfterInv
<1>5. PICK l \in Nat, mr \in Nat : l = Len(problem.n) /\ mr = MaxRank /\ l < mr
  <2>1. Len(problem.n) \in Nat BY <1>2
  <2>2. MaxRank \in Nat BY MaxRankAssumption
  <2>3. QED BY <1>4, <2>1, <2>2
<1>6. FlagsEnd \in Int /\ SizesEnd \in Int /\ IsStretch(FlagsEnd + 1, SizesEnd)
  BY <1>2, Parts DEF IsStretch
<1>7. PICK from, to : from = FlagsEnd + 1 /\ to = SizesEnd OBVIOUS
<1>8. at - 1 \in from - 1 .. to /\ from \in Int /\ to \in Int BY <1>3, <1>6, <1>7
<1>9. /\ AllGood(SizesTo(SizesEnd)) /\ FitsIn(SizesTo(SizesEnd)) => n > 0 /\ l + 1 < mr
      /\ n > 0 => Recorded(SizesTo(at - 1), Append(problem.n, n))
      /\ ~IsSeparator(Char) => at - 1 = SizesEnd
      /\ n > 0 /\ IsSeparator(Char) =>
             /\ at \in FlagsEnd + 1 .. SizesEnd /\ at + 1 <= Len(text) + 1
             /\ Pending(SizesTo(at), Append(problem.n, n), 0)
             /\ AllGood(SizesTo(SizesEnd)) => at + 1 <= Len(text) /\ IsDigit(text[at + 1])
  <2>1. problem.n \in Seq(Nat) BY <1>2
  <2>2. Pending(FieldsUpTo(from, to)[at - 1], problem.n, n) BY <1>3, <1>7 DEF SizesTo
  <2>3. IsStretch(from, to) BY <1>6, <1>7
  <2> DEFINE F == FieldsUpTo(from, to)
  <2>4. /\ AllGood(F[to]) /\ FitsIn(F[to]) => n > 0 /\ Len(problem.n) + 1 < MaxRank
        /\ n > 0 => Recorded(F[at - 1], Append(problem.n, n))
        /\ ~IsSeparator(Char) => at - 1 = to
        /\ n > 0 /\ IsSeparator(Char) =>
               /\ at \in from .. to /\ at + 1 <= Len(text) + 1
               /\ Pending(F[at], Append(problem.n, n), 0)
               /\ AllGood(F[to]) => at + 1 <= Len(text) /\ IsDigit(text[at + 1])
    BY <1>1, <1>2, <1>8, <2>1, <2>2, <2>3, NumberStep
  <2> HIDE DEF F
  <2>5. \A c : F[c] = SizesTo(c) BY <1>7 DEF F, SizesTo
  <2>6. QED BY <1>5, <1>7, <2>4, <2>5
<1>10. Fits /\ WellFormed => n > 0 /\ l + 1 < mr BY <1>2, <1>9, Truth
<1>11. \A to1, ns, size, vs, vsize : Said(to1, ns, size, vs, vsize)' = Said(to1, ns, size, vs, vsize)
  BY <1>1, SameText
<1>12. CASE n <= 0
  <2>1. goal' = "assertion" /\ UNCHANGED <<at, n, problem>>
    BY <1>12 DEF Size, Number
  <2>2. ~(Fits /\ WellFormed) BY <1>2, <1>10, <1>12
  <2>3. AssertInv' BY <1>1, <2>2, SameText DEF AssertInv
  <2>4. ParseTypeOK' BY <1>1, <2>1 DEF ParseTypeOK
  <2>5. QED BY <2>1, <2>3, <2>4 DEF LettersInv, AfterInv, SizesInv, VectorInv, DoneInv
<1>13. CASE n > 0
  <2>1. n \in Nat \ {0} /\ ~(n <= 0) BY <1>2, <1>13
  <2>2. PICK ns \in Seq(Nat \ {0}) : ns = Append(problem.n, n) BY <1>2, <2>1, OneMore
  <2>3. Len(ns) = l + 1 BY <1>2, <1>5, <2>1, <2>2, OneMore
  <2>4. ((TotalOf(problem.n) % UIntSize) * n) % UIntSize = TotalOf(ns) % UIntSize
    BY <1>2, <2>1, <2>2, OneMore
  <2>5. problem' = Stored("n", "size") BY <2>1 DEF Size, Number
  <2>6. problem' = Said(FlagsEnd, ns, TotalOf(ns) % UIntSize, problem.vn, TotalOf(problem.vn) % UIntSize)
    <3>1. PICK t : t = TotalOf(ns) % UIntSize OBVIOUS
    <3>2. PICK vt : vt = TotalOf(problem.vn) % UIntSize OBVIOUS
    <3>3. problem.size = TotalOf(problem.n) % UIntSize /\ problem.vsize = vt
      BY <1>4, <3>2 DEF Said
    <3>4. (problem.size * n) % UIntSize = t BY <2>4, <3>1, <3>3
    <3>5. Stored("n", "size") = [problem EXCEPT !["n"] = ns, !["size"] = t]
      BY <2>2, <3>4 DEF Stored
    <3>6. PICK k, g, h, p, v, z :
              /\ k = LastFlag("kind", "complex", FlagsEnd) /\ g = LastFlag("sign", -1, FlagsEnd)
              /\ h = LastFlag("in_place", 0, FlagsEnd) /\ p = LastFlag("split", 0, FlagsEnd)
              /\ v = problem.n /\ z = TotalOf(problem.n) % UIntSize
      OBVIOUS
    <3>7. PICK vn : vn = problem.vn OBVIOUS
    <3>8. problem = [kind |-> k, sign |-> g, in_place |-> h, split |-> p, n |-> v, size |-> z,
                     vn |-> vn, vsize |-> vt]
      BY <1>4, <3>2, <3>6, <3>7 DEF Said
    <3>9. [problem EXCEPT !["n"] = ns, !["size"] = t]
              = [kind |-> k, sign |-> g, in_place |-> h, split |-> p, n |-> ns, size |-> t,
                 vn |-> vn, vsize |-> vt]
      BY <3>8
    <3>10. QED BY <2>5, <3>1, <3>2, <3>5, <3>6, <3>7, <3>9 DEF Said
  <2>7. problem'.n = ns /\ problem'.vn = problem.vn BY <2>6 DEF Said
  <2>8. IF TooMany(ns) THEN goal' = "assertion" /\ UNCHANGED <<at, n>>
        ELSE IF IsSeparator(Char) THEN Begin("L2", at + 1)
        ELSE IF StartsVector(Char) THEN Begin("L4", at + 1)
        ELSE goal' = "done" /\ UNCHANGED <<at, n>>
    BY <2>1, <2>7 DEF Size, Number
  <2>9. /\ problem'.n \in Seq(Nat \ {0}) /\ Len(problem'.n) <= MaxRank
        /\ problem'.vn \in Seq(Nat \ {0}) /\ Len(problem'.vn) <= MaxRank
    <3>1. problem'.n \in Seq(Nat \ {0}) BY <2>2, <2>7
    <3>2. Len(problem'.n) <= MaxRank
      <4>1. l + 1 <= mr BY <1>5
      <4>2. QED BY <1>5, <2>3, <2>7, <4>1
    <3>3. problem'.vn \in Seq(Nat \ {0}) BY <1>2, <2>7
    <3>4. Len(problem'.vn) <= MaxRank
      <4>1. Len(problem.vn) = 0 BY <1>3
      <4>2. QED BY <2>7, <4>1, MaxRankAssumption
    <3>5. QED BY <3>1, <3>2, <3>3, <3>4
  <2>10. CASE TooMany(ns)
    <3>1. goal' = "assertion" /\ UNCHANGED <<at, n>> BY <2>8, <2>10
    <3>2. ~(l + 1 < mr) BY <1>5, <2>3, <2>10 DEF TooMany
    <3>3. AssertInv' BY <1>1, <1>10, <3>2, SameText DEF AssertInv
    <3>4. ParseTypeOK' BY <1>1, <1>2, <2>9, <3>1 DEF ParseTypeOK
    <3>5. QED BY <3>1, <3>3, <3>4 DEF LettersInv, AfterInv, SizesInv, VectorInv, DoneInv
  <2>11. CASE ~TooMany(ns)
    <3>1. Len(ns) < MaxRank BY <1>5, <2>3, <2>11 DEF TooMany
    <3>2. AfterInv'
      <4>1. FlagsEnd' = FlagsEnd BY <1>1, SameText
      <4>2. problem' = Said(FlagsEnd, problem'.n, TotalOf(problem'.n) % UIntSize,
                            problem'.vn, TotalOf(problem'.vn) % UIntSize)
        BY <2>6, <2>7
      <4>3. QED BY <1>4, <1>11, <2>7, <3>1, <4>1, <4>2 DEF AfterInv
    <3>3. CASE IsSeparator(Char)
      <4>1. at' = at + 1 /\ n' = 0
            /\ goal' = IF at + 1 <= Len(text) /\ IsDigit(text[at + 1]) THEN "L2" ELSE "assertion"
        BY <2>8, <2>11, <3>3 DEF Begin
      <4>2. /\ at \in FlagsEnd + 1 .. SizesEnd /\ at + 1 <= Len(text) + 1
            /\ Pending(SizesTo(at), ns, 0)
            /\ AllGood(SizesTo(SizesEnd)) => at + 1 <= Len(text) /\ IsDigit(text[at + 1])
        BY <1>9, <1>13, <2>2, <3>3
      <4>3. at' \in 1 .. Len(text') + 1 BY <1>1, <1>2, <4>1, <4>2
      <4>4. ParseTypeOK' BY <1>1, <1>2, <2>9, <4>1, <4>3 DEF ParseTypeOK
      <4>5. CASE goal' = "L2"
        <5>1. at' - 1 = at /\ at \in FlagsEnd .. SizesEnd BY <1>2, <1>6, <4>1, <4>2
        <5>2. SizesInv' BY <1>1, <1>3, <2>7, <4>1, <4>2, <5>1, SameText DEF SizesInv
        <5>3. QED
          BY <3>2, <4>4, <4>5, <5>2 DEF LettersInv, VectorInv, DoneInv, AssertInv
      <4>6. CASE goal' = "assertion"
        <5>1. ~WellFormed BY <1>2, <4>1, <4>2, <4>6, Truth
        <5>2. AssertInv' BY <1>1, <5>1, SameText DEF AssertInv
        <5>3. QED BY <3>2, <4>4, <4>6, <5>2 DEF LettersInv, SizesInv, VectorInv, DoneInv
      <4>7. QED BY <4>1, <4>5, <4>6
    <3>4. CASE ~IsSeparator(Char)
      <4>1. at - 1 = SizesEnd /\ Recorded(SizesTo(SizesEnd), ns)
        BY <1>9, <1>13, <2>2, <3>4
      <4>2. SizesEnd + 1 = at /\ (SizesEnd < Len(text) <=> at <= Len(text))
        BY <1>2, <1>6, <4>1
      <4>3. HasVector <=> StartsVector(Char)
        BY <1>2, <4>2, CharFacts DEF HasVector
      <4>4. CASE StartsVector(Char)
        <5>1. at' = at + 1 /\ n' = 0
              /\ goal' = IF at + 1 <= Len(text) /\ IsDigit(text[at + 1]) THEN "L4" ELSE "assertion"
          BY <2>8, <2>11, <3>4, <4>4 DEF Begin
        <5>2. HasVector /\ IsStretch(SizesEnd + 2, VectorEnd) BY <1>2, <4>3, <4>4, Parts
        <5>3. PICK w, e : w = SizesEnd + 2 /\ e = VectorEnd OBVIOUS
        <5>4. w \in Int /\ e \in Int /\ w - 1 = at /\ w - 1 <= e /\ at \in w - 1 .. e
          BY <1>2, <1>6, <4>1, <5>2, <5>3 DEF IsStretch
        <5>5. VectorTo(at) = <<<<>>>>
          <6>1. \A c \in w .. e : text[c] \in NumberChars
            BY <5>2, <5>3 DEF IsStretch, Ends
          <6>2. FieldsUpTo(w, e)[w - 1] = <<<<>>>> BY <5>4, <6>1, FieldsAreExtended
          <6>3. QED BY <5>3, <5>4, <6>2 DEF VectorTo
        <5>6. at' \in 1 .. Len(text') + 1
          <6>1. at <= Len(text) BY <1>2, <4>4, CharFacts
          <6>2. QED BY <1>1, <1>2, <5>1, <6>1
        <5>7. ParseTypeOK' BY <1>1, <1>2, <2>9, <5>1, <5>6 DEF ParseTypeOK
        <5>8. CASE goal' = "L4"
          <6>1. Pending(<<<<>>>>, <<>>, 0)
            <7>1. Len(<<<<>>>>) = 1 /\ <<<<>>>>[1] = <<>> /\ Len(<<>>) = 0 OBVIOUS
            <7>2. QED BY <7>1, EmptyIsZero DEF Pending
          <6>2. at' - 1 = at /\ at \in SizesEnd + 1 .. VectorEnd
            BY <1>2, <1>6, <4>2, <5>1, <5>3, <5>4
          <6>3. VectorInv'
            BY <1>1, <1>3, <2>7, <4>1, <5>1, <5>2, <5>5, <6>1, <6>2, SameText
               DEF VectorInv
          <6>4. QED
            BY <3>2, <5>7, <5>8, <6>3 DEF LettersInv, SizesInv, DoneInv, AssertInv
        <5>9. CASE goal' = "assertion"
          <6>1. ~WellFormed
            <7> SUFFICES ASSUME WellFormed PROVE FALSE
              OBVIOUS
            <7>1. AllGood(FieldsUpTo(w, e)[e]) BY <1>2, <5>2, <5>3, Truth DEF VectorTo
            <7>2. PICK c \in w - 1 .. e : c = at BY <5>4
            <7>3. PICK k \in Nat : k = 1 OBVIOUS
            <7>4. FieldsUpTo(w, e)[c] = <<<<>>>> BY <5>3, <5>5, <7>2 DEF VectorTo
            <7>5. k = Len(FieldsUpTo(w, e)[c]) /\ k # 0 /\ FieldsUpTo(w, e)[c][k] = <<>>
              BY <7>3, <7>4
            <7>6. IsStretch(w, e) BY <5>2, <5>3
            <7>7. c + 1 <= Len(text) /\ IsDigit(text[c + 1])
              BY <1>2, <7>1, <7>5, <7>6, NextField
            <7>8. QED BY <5>1, <5>9, <7>2, <7>7
          <6>2. AssertInv' BY <1>1, <6>1, SameText DEF AssertInv
          <6>3. QED
            BY <3>2, <5>7, <5>9, <6>2 DEF LettersInv, SizesInv, VectorInv, DoneInv
        <5>10. QED BY <5>1, <5>8, <5>9
      <4>5. CASE ~StartsVector(Char)
        <5>1. goal' = "done" /\ UNCHANGED <<at, n>> BY <2>8, <2>11, <3>4, <4>5
        <5>2. DoneInv' BY <1>1, <1>3, <2>7, <4>1, <4>3, <4>5, SameText DEF DoneInv
        <5>3. ParseTypeOK' BY <1>1, <1>2, <2>9, <5>1 DEF ParseTypeOK
        <5>4. QED
          BY <3>2, <5>1, <5>2, <5>3 DEF LettersInv, SizesInv, VectorInv, AssertInv
      <4>6. QED BY <4>4, <4>5
    <3>5. QED BY <3>3, <3>4
  <2>12. QED BY <2>10, <2>11
<1>14. QED BY <1>2, <1>12, <1>13

\* A number of the vector part is stored.
LEMMA VectorSizeHolds == ParseInv /\ VectorSize => ParseInv'
<1> SUFFICES ASSUME ParseInv, VectorSize PROVE ParseInv'
  OBVIOUS
<1> USE DEF ParseInv
<1>1. goal = "L4" /\ ~IsDigit(Char) /\ UNCHANGED text BY DEF VectorSize, Number
<1>2. /\ text \in Seq(STRING) /\ at \in 1 .. Len(text) + 1 /\ n \in Int
      /\ problem.n \in Seq(Nat \ {0}) /\ problem.vn \in Seq(Nat \ {0})
  BY DEF ParseTypeOK
<1>3. /\ HasVector /\ at - 1 \in SizesEnd + 1 .. VectorEnd
      /\ Recorded(SizesTo(SizesEnd), problem.n)
      /\ Pending(VectorTo(at - 1), problem.vn, n)
  BY <1>1 DEF VectorInv
<1>4. /\ Len(problem.n) < MaxRank /\ Len(problem.vn) < MaxRank
      /\ problem = Said(FlagsEnd, problem.n, TotalOf(problem.n) % UIntSize,
                        problem.vn, TotalOf(problem.vn) % UIntSize)
  BY <1>1 DEF AfterInv
<1>5. PICK l \in Nat, mr \in Nat : l = Len(problem.vn) /\ mr = MaxRank /\ l < mr
  <2>1. Len(problem.vn) \in Nat BY <1>2
  <2>2. MaxRank \in Nat BY MaxRankAssumption
  <2>3. QED BY <1>4, <2>1, <2>2
<1>6. SizesEnd \in Int /\ VectorEnd \in Int /\ IsStretch(SizesEnd + 2, VectorEnd)
  BY <1>2, <1>3, Parts DEF IsStretch
<1>7. PICK from, to : from = SizesEnd + 2 /\ to = VectorEnd OBVIOUS
<1>8. at - 1 \in from - 1 .. to /\ from \in Int /\ to \in Int BY <1>3, <1>6, <1>7
<1>9. /\ AllGood(VectorTo(VectorEnd)) /\ FitsIn(VectorTo(VectorEnd)) => n > 0 /\ l + 1 < mr
      /\ n > 0 => Recorded(VectorTo(at - 1), Append(problem.vn, n))
      /\ ~IsSeparator(Char) => at - 1 = VectorEnd
      /\ n > 0 /\ IsSeparator(Char) =>
             /\ at \in SizesEnd + 2 .. VectorEnd /\ at + 1 <= Len(text) + 1
             /\ Pending(VectorTo(at), Append(problem.vn, n), 0)
             /\ AllGood(VectorTo(VectorEnd)) => at + 1 <= Len(text) /\ IsDigit(text[at + 1])
  <2>1. problem.vn \in Seq(Nat) BY <1>2
  <2>2. Pending(FieldsUpTo(from, to)[at - 1], problem.vn, n) BY <1>3, <1>7 DEF VectorTo
  <2>3. IsStretch(from, to) BY <1>6, <1>7
  <2> DEFINE F == FieldsUpTo(from, to)
  <2>4. /\ AllGood(F[to]) /\ FitsIn(F[to]) => n > 0 /\ Len(problem.vn) + 1 < MaxRank
        /\ n > 0 => Recorded(F[at - 1], Append(problem.vn, n))
        /\ ~IsSeparator(Char) => at - 1 = to
        /\ n > 0 /\ IsSeparator(Char) =>
               /\ at \in from .. to /\ at + 1 <= Len(text) + 1
               /\ Pending(F[at], Append(problem.vn, n), 0)
               /\ AllGood(F[to]) => at + 1 <= Len(text) /\ IsDigit(text[at + 1])
    BY <1>1, <1>2, <1>8, <2>1, <2>2, <2>3, NumberStep
  <2> HIDE DEF F
  <2>5. \A c : F[c] = VectorTo(c) BY <1>7 DEF F, VectorTo
  <2>6. QED BY <1>5, <1>7, <2>4, <2>5
<1>10. Fits /\ WellFormed => n > 0 /\ l + 1 < mr BY <1>2, <1>3, <1>9, Truth
<1>11. \A to1, ns, size, vs, vsize : Said(to1, ns, size, vs, vsize)' = Said(to1, ns, size, vs, vsize)
  BY <1>1, SameText
<1>12. CASE n <= 0
  <2>1. goal' = "assertion" /\ UNCHANGED <<at, n, problem>>
    BY <1>12 DEF VectorSize, Number
  <2>2. ~(Fits /\ WellFormed) BY <1>2, <1>10, <1>12
  <2>3. AssertInv' BY <1>1, <2>2, SameText DEF AssertInv
  <2>4. ParseTypeOK' BY <1>1, <2>1 DEF ParseTypeOK
  <2>5. QED BY <2>1, <2>3, <2>4 DEF LettersInv, AfterInv, SizesInv, VectorInv, DoneInv
<1>13. CASE n > 0
  <2>1. n \in Nat \ {0} /\ ~(n <= 0) BY <1>2, <1>13
  <2>2. PICK vs \in Seq(Nat \ {0}) : vs = Append(problem.vn, n) BY <1>2, <2>1, OneMore
  <2>3. Len(vs) = l + 1 BY <1>2, <1>5, <2>1, <2>2, OneMore
  <2>4. ((TotalOf(problem.vn) % UIntSize) * n) % UIntSize = TotalOf(vs) % UIntSize
    BY <1>2, <2>1, <2>2, OneMore
  <2>5. problem' = Stored("vn", "vsize") BY <2>1 DEF VectorSize, Number
  <2>6. problem' = Said(FlagsEnd, problem.n, TotalOf(problem.n) % UIntSize, vs, TotalOf(vs) % UIntSize)
    <3>1. PICK t : t = TotalOf(vs) % UIntSize OBVIOUS
    <3>2. PICK nt : nt = TotalOf(problem.n) % UIntSize OBVIOUS
    <3>3. problem.vsize = TotalOf(problem.vn) % UIntSize /\ problem.size = nt
      BY <1>4, <3>2 DEF Said
    <3>4. (problem.vsize * n) % UIntSize = t BY <2>4, <3>1, <3>3
    <3>5. Stored("vn", "vsize") = [problem EXCEPT !["vn"] = vs, !["vsize"] = t]
      BY <2>2, <3>4 DEF Stored
    <3>6. PICK k, g, h, p, v, z :
              /\ k = LastFlag("kind", "complex", FlagsEnd) /\ g = LastFlag("sign", -1, FlagsEnd)
              /\ h = LastFlag("in_place", 0, FlagsEnd) /\ p = LastFlag("split", 0, FlagsEnd)
              /\ v = problem.vn /\ z = TotalOf(problem.vn) % UIntSize
      OBVIOUS
    <3>7. PICK ns : ns = problem.n OBVIOUS
    <3>8. problem = [kind |-> k, sign |-> g, in_place |-> h, split |-> p, n |-> ns, size |-> nt,
                     vn |-> v, vsize |-> z]
      BY <1>4, <3>2, <3>6, <3>7 DEF Said
    <3>9. [problem EXCEPT !["vn"] = vs, !["vsize"] = t]
              = [kind |-> k, sign |-> g, in_place |-> h, split |-> p, n |-> ns, size |-> nt,
                 vn |-> vs, vsize |-> t]
      BY <3>8
    <3>10. QED BY <2>5, <3>1, <3>2, <3>5, <3>6, <3>7, <3>9 DEF Said
  <2>7. problem'.n = problem.n /\ problem'.vn = vs BY <2>6 DEF Said
  <2>8. IF TooMany(vs) THEN goal' = "assertion" /\ UNCHANGED <<at, n>>
        ELSE IF IsSeparator(Char) THEN Begin("L4", at + 1)
        ELSE goal' = "done" /\ UNCHANGED <<at, n>>
    BY <2>1, <2>7 DEF VectorSize, Number
  <2>9. /\ problem'.n \in Seq(Nat \ {0}) /\ Len(problem'.n) <= MaxRank
        /\ problem'.vn \in Seq(Nat \ {0}) /\ Len(problem'.vn) <= MaxRank
    <3>1. problem'.n \in Seq(Nat \ {0}) BY <1>2, <2>7
    <3>2. Len(problem'.n) <= MaxRank
      <4>1. Len(problem.n) \in Nat BY <1>2
      <4>2. MaxRank \in Nat BY MaxRankAssumption
      <4>3. QED BY <1>4, <2>7, <4>1, <4>2
    <3>3. problem'.vn \in Seq(Nat \ {0}) BY <2>2, <2>7
    <3>4. Len(problem'.vn) <= MaxRank
      <4>1. l + 1 <= mr BY <1>5
      <4>2. QED BY <1>5, <2>3, <2>7, <4>1
    <3>5. QED BY <3>1, <3>2, <3>3, <3>4
  <2>10. CASE TooMany(vs)
    <3>1. goal' = "assertion" /\ UNCHANGED <<at, n>> BY <2>8, <2>10
    <3>2. ~(l + 1 < mr) BY <1>5, <2>3, <2>10 DEF TooMany
    <3>3. AssertInv' BY <1>1, <1>10, <3>2, SameText DEF AssertInv
    <3>4. ParseTypeOK' BY <1>1, <1>2, <2>9, <3>1 DEF ParseTypeOK
    <3>5. QED BY <3>1, <3>3, <3>4 DEF LettersInv, AfterInv, SizesInv, VectorInv, DoneInv
  <2>11. CASE ~TooMany(vs)
    <3>1. Len(vs) < MaxRank BY <1>5, <2>3, <2>11 DEF TooMany
    <3>2. AfterInv'
      <4>1. FlagsEnd' = FlagsEnd BY <1>1, SameText
      <4>2. problem' = Said(FlagsEnd, problem'.n, TotalOf(problem'.n) % UIntSize,
                            problem'.vn, TotalOf(problem'.vn) % UIntSize)
        BY <2>6, <2>7
      <4>3. QED BY <1>4, <1>11, <2>7, <3>1, <4>1, <4>2 DEF AfterInv
    <3>3. CASE IsSeparator(Char)
      <4>1. at' = at + 1 /\ n' = 0
            /\ goal' = IF at + 1 <= Len(text) /\ IsDigit(text[at + 1]) THEN "L4" ELSE "assertion"
        BY <2>8, <2>11, <3>3 DEF Begin
      <4>2. /\ at \in SizesEnd + 2 .. VectorEnd /\ at + 1 <= Len(text) + 1
            /\ Pending(VectorTo(at), vs, 0)
            /\ AllGood(VectorTo(VectorEnd)) => at + 1 <= Len(text) /\ IsDigit(text[at + 1])
        BY <1>9, <1>13, <2>2, <3>3
      <4>3. at' \in 1 .. Len(text') + 1 BY <1>1, <1>2, <4>1, <4>2
      <4>4. ParseTypeOK' BY <1>1, <1>2, <2>9, <4>1, <4>3 DEF ParseTypeOK
      <4>5. CASE goal' = "L4"
        <5>1. at' - 1 = at /\ at \in SizesEnd + 1 .. VectorEnd BY <1>2, <1>6, <4>1, <4>2
        <5>2. VectorInv' BY <1>1, <1>3, <2>7, <4>1, <4>2, <5>1, SameText DEF VectorInv
        <5>3. QED BY <3>2, <4>4, <4>5, <5>2 DEF LettersInv, SizesInv, DoneInv, AssertInv
      <4>6. CASE goal' = "assertion"
        <5>1. ~WellFormed BY <1>2, <1>3, <4>1, <4>2, <4>6, Truth
        <5>2. AssertInv' BY <1>1, <5>1, SameText DEF AssertInv
        <5>3. QED BY <3>2, <4>4, <4>6, <5>2 DEF LettersInv, SizesInv, VectorInv, DoneInv
      <4>7. QED BY <4>1, <4>5, <4>6
    <3>4. CASE ~IsSeparator(Char)
      <4>1. at - 1 = VectorEnd /\ Recorded(VectorTo(VectorEnd), vs)
        BY <1>9, <1>13, <2>2, <3>4
      <4>2. goal' = "done" /\ UNCHANGED <<at, n>> BY <2>8, <2>11, <3>4
      <4>3. DoneInv' BY <1>1, <1>3, <2>7, <4>1, SameText DEF DoneInv
      <4>4. ParseTypeOK' BY <1>1, <1>2, <2>9, <4>2 DEF ParseTypeOK
      <4>5. QED BY <3>2, <4>2, <4>3, <4>4 DEF LettersInv, SizesInv, VectorInv, AssertInv
    <3>5. QED BY <3>3, <3>4
  <2>12. QED BY <2>10, <2>11
<1>14. QED BY <1>2, <1>12, <1>13

\* Every step of problem_parse.
LEMMA ParseNextHolds == ParseInv /\ [ParseNext]_parseVars => ParseInv'
<1>1. ASSUME ParseInv, UNCHANGED parseVars PROVE ParseInv'
  <2>1. UNCHANGED <<text, at, goal, n, problem>> BY <1>1 DEF parseVars
  <2>2. UNCHANGED text BY <2>1
  <2> USE <1>1 DEF ParseInv
  <2>3. ParseTypeOK' BY <2>1 DEF ParseTypeOK
  <2>4. LettersInv' BY <2>1, <2>2, SameText DEF LettersInv
  <2>5. AfterInv' BY <2>1, <2>2, SameText DEF AfterInv
  <2>6. SizesInv' BY <2>1, <2>2, SameText DEF SizesInv
  <2>7. VectorInv' BY <2>1, <2>2, SameText DEF VectorInv
  <2>8. DoneInv' BY <2>1, <2>2, SameText DEF DoneInv
  <2>9. AssertInv' BY <2>1, <2>2, SameText DEF AssertInv
  <2>10. QED BY <2>3, <2>4, <2>5, <2>6, <2>7, <2>8, <2>9
<1>2. QED
  BY <1>1, LetterHolds, SizesHolds, DigitHolds, SizeHolds, VectorSizeHolds DEF ParseNext

\* The inductive invariant of problem_parse: the letters read so far count, the
\* numbers stored are the fields passed and the one under way is the field up to
\* *s, and where an assertion has failed the text is no problem.
THEOREM ParseInvHolds == ParseSpec => []ParseInv
<1>1. QED BY ParseInitHolds, ParseNextHolds, PTL DEF ParseSpec

\* What the invariant says of the end.
LEMMA ReadRightly == ParseInv => ParsesAsWritten
<1> SUFFICES ASSUME ParseInv PROVE ParsesAsWritten
  OBVIOUS
<1> USE DEF ParseInv
<1>1. /\ text \in Seq(STRING)
      /\ problem.n \in Seq(Nat \ {0}) /\ Len(problem.n) <= MaxRank
      /\ problem.vn \in Seq(Nat \ {0}) /\ Len(problem.vn) <= MaxRank
  BY DEF ParseTypeOK
<1>2. ASSUME goal = "done", Fits
      PROVE  /\ problem.n = ValuesOf(SizeFields) /\ AllGood(SizesTo(SizesEnd))
             /\ problem.vn = ValuesOf(VectorFields) /\ (HasVector => AllGood(VectorTo(VectorEnd)))
  <2>1. Len(problem.n) < MaxRank /\ Len(problem.vn) < MaxRank BY <1>2 DEF AfterInv
  <2>2. \A from, to : IsStretch(from, to) => FieldsUpTo(from, to)[to] \in FieldSeqs
    <3> SUFFICES ASSUME NEW from, NEW to, IsStretch(from, to)
                 PROVE FieldsUpTo(from, to)[to] \in FieldSeqs
      OBVIOUS
    <3>1. from \in Int /\ to \in Int /\ from - 1 <= to BY DEF IsStretch
    <3>2. \A d \in from .. to : text[d] \in NumberChars BY DEF IsStretch, Ends
    <3>3. to \in from - 1 .. to BY <3>1
    <3>4. QED BY <3>1, <3>2, <3>3, FieldsAreExtended
  <2>3. PICK s \in FieldSeqs : s = SizesTo(SizesEnd) BY <1>1, <2>2, Parts DEF SizesTo
  <2>4. Recorded(s, problem.n) /\ FitsIn(s) BY <1>1, <1>2, <2>3, Truth DEF DoneInv
  <2>5. problem.n = ValuesOf(s) /\ AllGood(s) BY <1>1, <2>1, <2>4, AllRead
  <2>6. s = SizeFields BY <2>3 DEF SizesTo, SizeFields, Fields
  <2>7. CASE HasVector
    <3>1. PICK v \in FieldSeqs : v = VectorTo(VectorEnd)
      BY <1>1, <2>2, <2>7, Parts DEF VectorTo
    <3>2. Recorded(v, problem.vn) /\ FitsIn(v)
      BY <1>1, <1>2, <2>7, <3>1, Truth DEF DoneInv
    <3>3. problem.vn = ValuesOf(v) /\ AllGood(v) BY <1>1, <2>1, <3>2, AllRead
    <3>4. v = VectorFields BY <2>7, <3>1 DEF VectorTo, VectorFields, Fields
    <3>5. QED BY <2>3, <2>5, <2>6, <3>1, <3>3, <3>4
  <2>8. CASE ~HasVector
    <3>1. problem.vn = <<>> BY <1>2, <2>8 DEF DoneInv
    <3>2. VectorFields = <<>> BY <2>8 DEF VectorFields
    <3>3. ValuesOf(<<>>) = <<>> BY DEF ValuesOf
    <3>4. QED BY <2>3, <2>5, <2>6, <2>8, <3>1, <3>2, <3>3
  <2>9. QED BY <2>7, <2>8
<1>3. (goal \in {"done", "assertion"} /\ Fits) => (goal = "done" <=> WellFormed)
  BY <1>1, <1>2, Truth DEF AssertInv
<1>4. ASSUME goal = "done", Fits
      PROVE  problem = [kind |-> LastFlag("kind", "complex", FlagsEnd),
                        sign |-> LastFlag("sign", -1, FlagsEnd),
                        in_place |-> LastFlag("in_place", 0, FlagsEnd),
                        split |-> LastFlag("split", 0, FlagsEnd),
                        n |-> ValuesOf(SizeFields),
                        size |-> TotalOf(ValuesOf(SizeFields)),
                        vn |-> ValuesOf(VectorFields),
                        vsize |-> TotalOf(ValuesOf(VectorFields))]
  <2>1. problem = Said(FlagsEnd, problem.n, TotalOf(problem.n) % UIntSize,
                       problem.vn, TotalOf(problem.vn) % UIntSize)
    BY <1>4 DEF AfterInv
  <2>2. PICK u \in Nat \ {0} : u = UIntSize BY NumberMaxAssumption DEF UIntSize
  <2>3. \A r \in Nat : r < u => r % u = r OBVIOUS
  <2>4. TotalOf(problem.n) \in Nat /\ TotalOf(problem.vn) \in Nat
    <3>1. problem.n \in Seq(Nat) /\ problem.vn \in Seq(Nat) BY <1>1
    <3>2. QED BY <3>1, TotalSteps
  <2>5. TotalOf(problem.n) < u /\ TotalOf(problem.vn) < u BY <1>2, <1>4, <2>2 DEF Fits
  <2>6. /\ TotalOf(problem.n) % UIntSize = TotalOf(problem.n)
        /\ TotalOf(problem.vn) % UIntSize = TotalOf(problem.vn)
    BY <2>2, <2>3, <2>4, <2>5
  <2>7. QED BY <1>2, <1>4, <2>1, <2>6 DEF Said
<1>5. QED BY <1>1, <1>3, <1>4 DEF ParsesAsWritten

\* For all texts, every MAX_RANK and every INT_MAX, problem_parse accepts exactly
\* the well-formed texts whose numbers fit, stores what they say, and never stores
\* a size beyond the arrays.
THEOREM ParsesRightly == ParseSpec => []ParsesAsWritten
<1>1. QED BY ParseInvHolds, ReadRightly, PTL

-----------------------------------------------------------------------------
(***************************************************************************)
(* getopt_long: what the arguments mean.                                   *)
(***************************************************************************)
Word == Seq(STRING)
Answer == [val : STRING \cup {"?"}, optarg : Word]
Reading == [options : Seq(Answer), others : Seq(Word)]

\* A set of natural numbers has a least one.
LEMMA LeastNatural ==
    ASSUME NEW T, T \subseteq Nat, T # {}
    PROVE  \E m \in T : \A y \in T : m <= y
<1> DEFINE R == OpToRel(<, Nat)
<1>1. IsWellFoundedOn(R, Nat) BY NatLessThanWellFounded
<1>2. \A x, y \in Nat : <<x, y>> \in R <=> x < y BY DEF OpToRel
<1> HIDE DEF R
<1>3. PICK m \in T : \A y \in T : <<y, m>> \notin R BY <1>1, WFMin
<1>4. m \in Nat /\ \A y \in T : y \in Nat /\ ~(y < m) BY <1>2, <1>3
<1>5. \A y \in T : m <= y BY <1>4
<1>6. QED BY <1>5

\* A command line is a sequence of words.
LEMMA Lines ==
    ASSUME NEW line \in CommandLines
    PROVE  /\ line \in Seq(Word) /\ Len(line) \in Nat
           /\ \A l \in 1 .. Len(line) : line[l] \in Word /\ Len(line[l]) \in Nat
BY OptionsAssumption DEF Word

\* A part of a sequence.
LEMMA PartOf ==
    ASSUME NEW S, NEW s \in Seq(S), NEW lo \in 1 .. Len(s) + 1
    PROVE  /\ SubSeq(s, lo, Len(s)) \in Seq(S)
           /\ Len(SubSeq(s, lo, Len(s))) = Len(s) - lo + 1
           /\ \A d \in 1 .. Len(s) - lo + 1 : SubSeq(s, lo, Len(s))[d] = s[lo + d - 1]
OBVIOUS

\* The table of short options.
LEMMA HasArgs ==
    /\ \A o \in ShortOptions : /\ HasArg(o.val) = o.has_arg
                               /\ o.has_arg \in {"no", "required", "optional"}
                               /\ o.val \in STRING \ {"?"}
    /\ \A c : (~\E o \in ShortOptions : o.val = c) => HasArg(c) = "?"
<1>1. \A o \in ShortOptions : /\ o \in LongOptions
                              /\ o.has_arg \in {"no", "required", "optional"}
                              /\ o.val \in STRING \ {"?"}
  BY OptionsAssumption DEF ShortOptions
<1>2. ASSUME NEW o \in ShortOptions PROVE HasArg(o.val) = o.has_arg
  <2>1. \A q \in ShortOptions : q.val = o.val => q = o BY <1>1, OptionsAssumption
  <2>2. (CHOOSE q \in ShortOptions : q.val = o.val) = o BY <2>1
  <2>3. QED BY <2>2 DEF HasArg
<1>3. QED BY <1>1, <1>2 DEF HasArg

Taker(word, c) == HasArg(word[c]) \in {"required", "optional"}

\* The last option of an element.
EndsAt(word, c) == /\ c \in 2 .. Len(word)
                   /\ \A d \in 2 .. c - 1 : ~Taker(word, d)
                   /\ c = Len(word) \/ Taker(word, c)

LEMMA LastExists ==
    ASSUME NEW word \in Word, Len(word) >= 2
    PROVE  \E c : EndsAt(word, c)
<1> DEFINE Takers == {c \in 2 .. Len(word) : Taker(word, c)}
<1>0. Len(word) \in Nat BY DEF Word
<1>1. CASE Takers = {}
  <2>1. EndsAt(word, Len(word)) BY <1>0, <1>1 DEF EndsAt
  <2>2. QED BY <2>1
<1>2. CASE Takers # {}
  <2>1. PICK c \in Takers : \A d \in Takers : c <= d
    <3>1. Takers \subseteq Nat BY <1>0
    <3> HIDE DEF Takers
    <3>2. QED BY <1>2, <3>1, LeastNatural
  <2>2. EndsAt(word, c) BY <1>0, <2>1 DEF EndsAt
  <2>3. QED BY <2>2
<1>3. QED BY <1>1, <1>2

\* What option d of the element l of the line means, c being the last one.
ShortAnswer(line, l, c, d) ==
    LET word == line[l]
        has == HasArg(word[d])
    IN CASE has = "?" -> Option("?", NoArg)
         [] has = "no" -> Option(word[d], NoArg)
         [] has = "optional" \/ (has = "required" /\ c < Len(word)) ->
                Option(word[d], SubSeq(word, c + 1, Len(word)))
         [] has = "required" /\ c = Len(word) ->
                IF l < Len(line) THEN Option(word[d], line[l + 1]) ELSE Option("?", NoArg)
ShortTakes(line, l, c) ==
    IF HasArg(line[l][c]) = "required" /\ c = Len(line[l]) /\ l < Len(line) THEN 1 ELSE 0

LEMMA ShortMeans ==
    ASSUME NEW line \in CommandLines, NEW l \in 1 .. Len(line), NEW c, EndsAt(line[l], c)
    PROVE  ShortMeaning(line, l) = [options |-> [d \in 1 .. c - 1 |-> ShortAnswer(line, l, c, d + 1)],
                                    takes |-> ShortTakes(line, l, c)]
<1> DEFINE word == line[l]
           takers == {d \in 2 .. Len(word) : HasArg(word[d]) \in {"required", "optional"}}
           last == IF takers = {} THEN Len(word) ELSE Min(takers)
<1>0. c \in Nat /\ Len(word) \in Nat BY Lines DEF EndsAt
<1>1. last = c
  <2>1. CASE takers = {} BY <2>1 DEF EndsAt, Taker
  <2>2. CASE takers # {}
    <3>1. c \in takers /\ \A d \in takers : c <= d BY <1>0, <2>2 DEF EndsAt, Taker
    <3>2. \A d \in takers : (\A e \in takers : d <= e) => d = c BY <1>0, <3>1
    <3>3. Min(takers) = c BY <3>1, <3>2 DEF Min
    <3>4. QED BY <2>2, <3>3
  <2>3. QED BY <2>1, <2>2
<1> HIDE DEF last
<1> DEFINE takes(e) == IF HasArg(word[e]) = "required" /\ e = Len(word) /\ l < Len(line) THEN 1 ELSE 0
           meant(e, d) ==
               CASE HasArg(word[d]) = "?" -> Option("?", NoArg)
                 [] HasArg(word[d]) = "no" -> Option(word[d], NoArg)
                 [] HasArg(word[d]) = "optional" \/ (HasArg(word[d]) = "required" /\ e < Len(word)) ->
                        Option(word[d], SubSeq(word, e + 1, Len(word)))
                 [] HasArg(word[d]) = "required" /\ e = Len(word) ->
                        IF takes(e) = 1 THEN Option(word[d], line[l + 1]) ELSE Option("?", NoArg)
<1>2. ShortMeaning(line, l) = [options |-> [d \in 1 .. last - 1 |-> meant(last, d + 1)],
                               takes |-> takes(last)]
  BY Zenon DEF ShortMeaning, last
<1>3. ASSUME NEW d \in 2 .. c PROVE meant(c, d) = ShortAnswer(line, l, c, d)
  <2>1. CASE HasArg(word[d]) = "required" /\ c = Len(word)
    <3>1. d = c BY <1>0, <2>1 DEF EndsAt, Taker
    <3>2. takes(c) = 1 <=> l < Len(line) BY <2>1, <3>1
    <3>3. meant(c, d) = IF takes(c) = 1 THEN Option(word[d], line[l + 1]) ELSE Option("?", NoArg)
      <4> HIDE DEF takes
      <4>1. QED BY <1>0, <2>1
    <3>4. ShortAnswer(line, l, c, d) = IF l < Len(line) THEN Option(word[d], line[l + 1])
                                                        ELSE Option("?", NoArg)
      BY <1>0, <2>1 DEF ShortAnswer
    <3>5. QED BY <3>2, <3>3, <3>4
  <2>2. CASE ~(HasArg(word[d]) = "required" /\ c = Len(word))
    BY <2>2 DEF ShortAnswer
  <2>3. QED BY <2>1, <2>2
<1> HIDE DEF meant
<1>4. [d \in 1 .. c - 1 |-> meant(c, d + 1)] = [d \in 1 .. c - 1 |-> ShortAnswer(line, l, c, d + 1)]
  <2>1. \A d \in 1 .. c - 1 : d + 1 \in 2 .. c BY <1>0
  <2>2. QED BY <1>3, <2>1
<1>5. QED BY <1>1, <1>2, <1>4 DEF ShortTakes

LEMMA OptionTypes ==
    /\ NoArg \in Word /\ Option("?", NoArg) \in Answer
    /\ \A v \in STRING, w \in Word : Option(v, w) \in Answer
<1>1. NoArg \in Word BY DEF NoArg, Word
<1>2. \A v \in STRING \cup {"?"}, w \in Word : Option(v, w) \in Answer
  BY DEF Option, Answer
<1>3. QED BY <1>1, <1>2

LEMMA ShortTypes ==
    ASSUME NEW line \in CommandLines, NEW l \in 1 .. Len(line), NEW c, EndsAt(line[l], c)
    PROVE  /\ \A d \in 2 .. c : ShortAnswer(line, l, c, d) \in Answer
           /\ ShortTakes(line, l, c) \in {0, 1}
           /\ l + 1 + ShortTakes(line, l, c) <= Len(line) + 1
<1> DEFINE word == line[l]
<1>1. word \in Word /\ Len(word) \in Nat /\ Len(line) \in Nat /\ c \in 2 .. Len(word)
  BY Lines DEF EndsAt
<1> HIDE DEF word
<1>2. ASSUME NEW d \in 2 .. c PROVE ShortAnswer(line, l, c, d) \in Answer
  <2>1. word[d] \in STRING BY <1>1 DEF Word
  <2>2. HasArg(word[d]) \in {"no", "required", "optional", "?"} BY HasArgs
  <2>3. SubSeq(word, c + 1, Len(word)) \in Word BY <1>1, PartOf DEF Word
  <2>4. l < Len(line) => line[l + 1] \in Word BY <1>1, Lines
  <2>5. CASE HasArg(word[d]) = "?" \/ HasArg(word[d]) = "no"
    BY <2>1, <2>5, OptionTypes DEF ShortAnswer, word
  <2>6. CASE HasArg(word[d]) = "optional" \/ (HasArg(word[d]) = "required" /\ c < Len(word))
    <3>1. ShortAnswer(line, l, c, d) = Option(word[d], SubSeq(word, c + 1, Len(word)))
      BY <1>1, <2>6 DEF ShortAnswer, word
    <3>2. QED BY <2>1, <2>3, <3>1, OptionTypes
  <2>7. CASE HasArg(word[d]) = "required" /\ c = Len(word)
    <3>1. ShortAnswer(line, l, c, d) = IF l < Len(line) THEN Option(word[d], line[l + 1])
                                                        ELSE Option("?", NoArg)
      BY <1>1, <2>7 DEF ShortAnswer, word
    <3>2. QED BY <2>1, <2>4, <3>1, OptionTypes
  <2>8. QED BY <1>1, <2>2, <2>5, <2>6, <2>7
<1>3. QED BY <1>1, <1>2 DEF ShortTakes

-----------------------------------------------------------------------------
\* Long options.
LEMMA NameEnds ==
    ASSUME NEW chars \in Word
    PROVE  NameOf(chars) \in 0 .. Len(chars)
<1> DEFINE I == {d \in 1 .. Len(chars) : chars[d] = "="}
<1>1. NameOf(chars) = IF I = {} THEN 0 ELSE Min(I) BY DEF NameOf, SelectInSeq
<1>2. ASSUME I # {} PROVE Min(I) \in I
  <2>1. I \subseteq Nat BY DEF Word
  <2> HIDE DEF I
  <2>2. \E m \in I : \A y \in I : m <= y BY <1>2, <2>1, LeastNatural
  <2>3. QED BY <2>2 DEF Min
<1>3. Len(chars) \in Nat BY DEF Word
<1> HIDE DEF I
<1>4. I \subseteq 1 .. Len(chars) BY DEF I
<1>5. CASE I = {} BY <1>1, <1>3, <1>5
<1>6. CASE I # {}
  <2>1. NameOf(chars) \in 1 .. Len(chars) BY <1>1, <1>2, <1>4, <1>6
  <2>2. QED BY <1>3, <2>1
<1>7. QED BY <1>5, <1>6

Means(name, o) == o.name = name \/ (Exact(name) = {} /\ Matches(name) = {o})

\* The loop over the table finds the option meant.
LEMMA MatchedIsMeant ==
    ASSUME NEW name
    PROVE  /\ Matched(name) \subseteq LongOptions
           /\ \A o \in LongOptions : o \in Matched(name) <=> Means(name, o)
           /\ \A o, q \in Matched(name) : o = q
<1>0. /\ \A o, q \in LongOptions : o.name = q.name \/ o.val = q.val => o = q
      /\ Exact(name) \subseteq LongOptions /\ Matches(name) \subseteq LongOptions
  BY OptionsAssumption DEF Exact, Matches
<1>1. CASE Exact(name) # {}
  <2>1. Matched(name) = Exact(name) BY <1>1 DEF Matched
  <2>2. QED BY <1>0, <1>1, <2>1 DEF Exact, Means
<1>2. CASE Exact(name) = {} /\ \E o, q \in Matches(name) : o.has_arg # q.has_arg \/ o.val # q.val
  <2>1. Matched(name) = {} BY <1>2 DEF Matched
  <2>2. \A o \in LongOptions : ~Means(name, o) BY <1>2 DEF Means, Exact
  <2>3. QED BY <2>1, <2>2
<1>3. CASE Exact(name) = {} /\ \A o, q \in Matches(name) : o.has_arg = q.has_arg /\ o.val = q.val
  <2>1. Matched(name) = Matches(name) BY <1>3 DEF Matched
  <2>2. \A o, q \in Matches(name) : o = q BY <1>0, <1>3
  <2>3. \A o \in LongOptions : o.name # name BY <1>3 DEF Exact
  <2>4. QED BY <1>0, <1>3, <2>1, <2>2, <2>3 DEF Means
<1>4. QED BY <1>1, <1>2, <1>3

LongChars(line, l) == SubSeq(line[l], 3, Len(line[l]))
LongName(line, l) ==
    LET chars == LongChars(line, l)
    IN IF NameOf(chars) = 0 THEN chars ELSE SubSeq(chars, 1, NameOf(chars) - 1)
Meant(answer, takes) == [options |-> <<answer>>, takes |-> takes]

\* What an element with the option o means.
LongAnswer(line, l, o) ==
    LET chars == LongChars(line, l)
    IN IF NameOf(chars) # 0
       THEN Meant(IF o.has_arg # "no"
                  THEN Option(o.val, SubSeq(chars, NameOf(chars) + 1, Len(chars)))
                  ELSE Option("?", NoArg), 0)
       ELSE IF o.has_arg = "required"
       THEN IF l < Len(line) THEN Meant(Option(o.val, line[l + 1]), 1)
                             ELSE Meant(Option("?", NoArg), 0)
       ELSE Meant(Option(o.val, NoArg), 0)

LEMMA LongMeans ==
    ASSUME NEW line \in CommandLines, NEW l \in 1 .. Len(line)
    PROVE  /\ Matched(LongName(line, l)) = {} =>
                  LongMeaning(line, l) = Meant(Option("?", NoArg), 0)
           /\ \A o \in Matched(LongName(line, l)) : LongMeaning(line, l) = LongAnswer(line, l, o)
<1> DEFINE chars == LongChars(line, l)
           equals == NameOf(chars)
           name == LongName(line, l)
           takes == IF equals = 0 /\ l < Len(line)
                          /\ \E o \in LongOptions : Means(name, o) /\ o.has_arg = "required"
                    THEN 1 ELSE 0
           right(o) == CASE o.has_arg = "no" -> equals = 0
                         [] o.has_arg = "optional" -> TRUE
                         [] o.has_arg = "required" -> equals # 0 \/ takes = 1
           optarg == IF equals # 0 THEN SubSeq(chars, equals + 1, Len(chars))
                     ELSE IF takes = 1 THEN line[l + 1] ELSE NoArg
<1>1. LongMeaning(line, l) =
          [options |-> IF \E o \in LongOptions : Means(name, o) /\ right(o)
                       THEN <<Option((CHOOSE o \in LongOptions : Means(name, o)).val, optarg)>>
                       ELSE <<Option("?", NoArg)>>,
           takes |-> takes]
  BY Zenon DEF LongMeaning, LongName, LongChars, Means
<1>2. ASSUME Matched(name) = {} PROVE LongMeaning(line, l) = Meant(Option("?", NoArg), 0)
  <2>1. \A o \in LongOptions : ~Means(name, o) BY <1>2, MatchedIsMeant
  <2>2. takes = 0 BY <2>1
  <2> HIDE DEF takes, right, optarg, name
  <2>3. QED BY <1>1, <2>1, <2>2 DEF Meant
<1>3. ASSUME NEW o \in Matched(name) PROVE LongMeaning(line, l) = LongAnswer(line, l, o)
  <2>1. o \in LongOptions /\ \A q \in LongOptions : Means(name, q) <=> q = o
    BY MatchedIsMeant
  <2>2. o.has_arg \in {"no", "required", "optional"} BY <2>1, OptionsAssumption
  <2>3. takes = IF equals = 0 /\ l < Len(line) /\ o.has_arg = "required" THEN 1 ELSE 0
    BY <2>1
  <2>4. (CHOOSE q \in LongOptions : Means(name, q)) = o BY <2>1
  <2> HIDE DEF takes
  <2>5. right(o) <=> \/ o.has_arg = "no" /\ equals = 0
                     \/ o.has_arg = "optional"
                     \/ o.has_arg = "required" /\ (equals # 0 \/ takes = 1)
    BY <2>2
  <2> HIDE DEF right
  <2>6. (\E q \in LongOptions : Means(name, q) /\ right(q)) <=> right(o) BY <2>1
  <2> HIDE DEF name
  <2>7. LongMeaning(line, l) =
            [options |-> IF right(o) THEN <<Option(o.val, optarg)>> ELSE <<Option("?", NoArg)>>,
             takes |-> takes]
    BY <1>1, <2>4, <2>6
  <2>8. CASE equals # 0
    <3>1. takes = 0 /\ optarg = SubSeq(chars, equals + 1, Len(chars)) BY <2>3, <2>8
    <3>2. right(o) <=> o.has_arg # "no" BY <2>2, <2>5, <2>8
    <3>3. QED BY <2>7, <2>8, <3>1, <3>2 DEF LongAnswer, Meant
  <2>9. CASE equals = 0 /\ o.has_arg = "required"
    <3>1. takes = (IF l < Len(line) THEN 1 ELSE 0) /\ (right(o) <=> l < Len(line))
      BY <2>3, <2>5, <2>9
    <3>2. QED BY <2>7, <2>9, <3>1 DEF LongAnswer, Meant
  <2>10. CASE equals = 0 /\ o.has_arg # "required"
    <3>1. takes = 0 /\ right(o) /\ optarg = NoArg BY <2>2, <2>3, <2>5, <2>10
    <3>2. QED BY <2>7, <2>10, <3>1 DEF LongAnswer, Meant
  <2>11. QED BY <2>8, <2>9, <2>10
<1>4. QED BY <1>2, <1>3

LEMMA LongTypes ==
    ASSUME NEW line \in CommandLines, NEW l \in 1 .. Len(line), Len(line[l]) >= 2
    PROVE  /\ LongChars(line, l) \in Word
           /\ Len(LongChars(line, l)) = Len(line[l]) - 2
           /\ LongName(line, l) \in Word
           /\ NameOf(LongChars(line, l)) # 0 =>
                  SubSeq(LongChars(line, l), NameOf(LongChars(line, l)) + 1,
                         Len(LongChars(line, l))) \in Word
           /\ \A o \in LongOptions : \E a \in Answer, e \in {0, 1} :
                  LongAnswer(line, l, o) = Meant(a, e) /\ l + 1 + e <= Len(line) + 1
<1> DEFINE word == line[l]
           chars == LongChars(line, l)
           equals == NameOf(chars)
<1>1. word \in Word /\ Len(word) \in Nat /\ Len(line) \in Nat /\ Len(word) >= 2 BY Lines
<1>2. chars \in Word /\ Len(chars) = Len(word) - 2
  <2>1. 3 \in 1 .. Len(word) + 1 BY <1>1
  <2>2. chars = SubSeq(word, 3, Len(word)) BY DEF LongChars
  <2> HIDE DEF word, chars
  <2>3. word \in Seq(STRING) BY <1>1 DEF Word
  <2>4. /\ SubSeq(word, 3, Len(word)) \in Seq(STRING)
        /\ Len(SubSeq(word, 3, Len(word))) = Len(word) - 3 + 1
    BY <2>1, <2>3, PartOf
  <2>5. chars \in Word BY <2>2, <2>4 DEF Word
  <2>6. QED BY <1>1, <2>2, <2>4, <2>5
<1>3. equals \in 0 .. Len(chars) BY <1>2, NameEnds
<1> HIDE DEF equals
<1>4. LongName(line, l) \in Word
  <2>1. CASE equals = 0 BY <1>2, <2>1 DEF LongName, equals
  <2>2. CASE equals # 0
    <3>1. LongName(line, l) = SubSeq(chars, 1, equals - 1) BY <2>2 DEF LongName, equals
    <3> HIDE DEF chars
    <3>2. SubSeq(chars, 1, equals - 1) \in Seq(STRING) BY <1>2, <1>3, <2>2 DEF Word
    <3>3. QED BY <3>1, <3>2 DEF Word
  <2>3. QED BY <2>1, <2>2
<1>5. equals # 0 => SubSeq(chars, equals + 1, Len(chars)) \in Word
  <2> HIDE DEF chars, word
  <2>1. equals \in 0 .. Len(chars) /\ Len(chars) \in Nat BY <1>1, <1>2, <1>3
  <2>2. equals + 1 \in 1 .. Len(chars) + 1 BY <2>1
  <2>3. QED BY <1>2, <2>2, PartOf DEF Word
<1>6. ASSUME NEW o \in LongOptions
      PROVE  \E a \in Answer, e \in {0, 1} :
                 LongAnswer(line, l, o) = Meant(a, e) /\ l + 1 + e <= Len(line) + 1
  <2>1. o.val \in STRING BY OptionsAssumption
  <2>2. Option(o.val, NoArg) \in Answer /\ Option("?", NoArg) \in Answer
    BY <2>1, OptionTypes
  <2>3. l + 1 + 0 <= Len(line) + 1 BY <1>1
  <2>4. CASE equals # 0
    <3>1. Option(o.val, SubSeq(chars, equals + 1, Len(chars))) \in Answer
      BY <1>5, <2>1, <2>4, OptionTypes
    <3>2. PICK a \in Answer : LongAnswer(line, l, o) = Meant(a, 0)
      BY <2>2, <2>4, <3>1 DEF LongAnswer, equals
    <3>3. QED BY <2>3, <3>2
  <2>5. CASE equals = 0 /\ o.has_arg = "required" /\ l < Len(line)
    <3>1. line[l + 1] \in Word BY <1>1, <2>5, Lines
    <3>2. Option(o.val, line[l + 1]) \in Answer BY <2>1, <3>1, OptionTypes
    <3>3. LongAnswer(line, l, o) = Meant(Option(o.val, line[l + 1]), 1)
      BY <2>5 DEF LongAnswer, equals
    <3>4. l + 1 + 1 <= Len(line) + 1 BY <1>1, <2>5
    <3>5. QED BY <3>2, <3>3, <3>4
  <2>6. CASE equals = 0 /\ ~(o.has_arg = "required" /\ l < Len(line))
    <3>1. PICK a \in Answer : LongAnswer(line, l, o) = Meant(a, 0)
      BY <2>2, <2>6 DEF LongAnswer, equals
    <3>2. QED BY <2>3, <3>1
  <2>7. QED BY <2>4, <2>5, <2>6
<1>7. QED BY <1>1, <1>2, <1>4, <1>5, <1>6 DEF equals

\* An element that is an option.
IsElement(line, l) == /\ l \in 1 .. Len(line)
                      /\ ~IsNonoption(line[l])
                      /\ line[l] # <<"-", "-">>

LEMMA OptionElementTypes ==
    ASSUME NEW line \in CommandLines, NEW l, IsElement(line, l)
    PROVE  \E answers \in Seq(Answer), e \in {0, 1} :
               /\ ElementMeaning(line, l) = [options |-> answers, takes |-> e]
               /\ l + 1 + e \in l + 1 .. Len(line) + 1
<1>1. /\ l \in 1 .. Len(line) /\ Len(line) \in Nat
      /\ line[l] \in Word /\ Len(line[l]) \in Nat /\ Len(line[l]) >= 2
  BY Lines DEF IsElement, IsNonoption
<1>2. CASE line[l][2] = "-"
  <2>1. PICK a \in Answer, e \in {0, 1} :
            LongMeaning(line, l) = Meant(a, e) /\ l + 1 + e <= Len(line) + 1
    <3>1. CASE Matched(LongName(line, l)) = {}
      <4>1. l + 1 + 0 <= Len(line) + 1 BY <1>1
      <4>2. LongMeaning(line, l) = Meant(Option("?", NoArg), 0) BY <1>1, <3>1, LongMeans
      <4>3. QED BY <4>1, <4>2, OptionTypes
    <3>2. CASE Matched(LongName(line, l)) # {}
      <4>1. PICK o \in Matched(LongName(line, l)) : TRUE BY <3>2
      <4>2. o \in LongOptions BY MatchedIsMeant
      <4>3. LongMeaning(line, l) = LongAnswer(line, l, o) BY <1>1, LongMeans
      <4>4. QED BY <1>1, <4>2, <4>3, LongTypes
    <3>3. QED BY <3>1, <3>2
  <2>2. <<a>> \in Seq(Answer) OBVIOUS
  <2>3. ElementMeaning(line, l) = [options |-> <<a>>, takes |-> e]
    BY <1>2, <2>1 DEF ElementMeaning, Meant
  <2>4. l + 1 + e \in l + 1 .. Len(line) + 1 BY <1>1, <2>1
  <2>5. QED BY <2>2, <2>3, <2>4
<1>3. CASE line[l][2] # "-"
  <2>1. PICK c : EndsAt(line[l], c) BY <1>1, LastExists
  <2> DEFINE answers == [d \in 1 .. c - 1 |-> ShortAnswer(line, l, c, d + 1)]
             e == ShortTakes(line, l, c)
  <2>2. ElementMeaning(line, l) = [options |-> answers, takes |-> e]
    BY <1>1, <1>3, <2>1, ShortMeans DEF ElementMeaning
  <2>3. e \in {0, 1} /\ l + 1 + e <= Len(line) + 1 BY <1>1, <2>1, ShortTypes
  <2>4. answers \in Seq(Answer)
    <3>1. c \in Nat /\ c >= 2 BY <1>1, <2>1 DEF EndsAt
    <3>2. \A d \in 1 .. c - 1 : d + 1 \in 2 .. c BY <3>1
    <3>3. \A d \in 1 .. c - 1 : ShortAnswer(line, l, c, d + 1) \in Answer
      BY <1>1, <2>1, <3>2, ShortTypes
    <3>4. answers \in [1 .. c - 1 -> Answer] BY <3>3
    <3>5. c - 1 \in Nat BY <3>1
    <3> HIDE DEF answers
    <3>6. QED BY <3>4, <3>5
  <2> HIDE DEF answers, e
  <2>5. l + 1 + e \in l + 1 .. Len(line) + 1 BY <1>1, <2>3
  <2>6. QED BY <2>2, <2>3, <2>4, <2>5
<1>4. QED BY <1>2, <1>3
-----------------------------------------------------------------------------
\* What the arguments from the l-th on mean, in terms of what those further on
\* do.
Body(line, order, l, from) ==
    CASE l > Len(line) -> [options |-> <<>>, others |-> <<>>]
      [] l <= Len(line) /\ line[l] = <<"-", "-">> ->
             [options |-> <<>>, others |-> SubSeq(line, l + 1, Len(line))]
      [] l <= Len(line) /\ IsNonoption(line[l]) ->
             IF order = "PERMUTE"
             THEN [options |-> from[l + 1].options,
                   others |-> <<line[l]>> \o from[l + 1].others]
             ELSE [options |-> <<>>, others |-> SubSeq(line, l, Len(line))]
      [] OTHER ->
             LET m == ElementMeaning(line, l)
             IN [options |-> m.options \o from[l + 1 + m.takes].options,
                 others |-> from[l + 1 + m.takes].others]

LEMMA BodyCases ==
    ASSUME NEW line \in CommandLines, NEW order, NEW l \in 1 .. Len(line) + 1
    PROVE  \/ l = Len(line) + 1
           \/ l \in 1 .. Len(line) /\ line[l] = <<"-", "-">>
           \/ l \in 1 .. Len(line) /\ IsNonoption(line[l]) /\ order = "PERMUTE"
           \/ l \in 1 .. Len(line) /\ IsNonoption(line[l]) /\ order # "PERMUTE"
           \/ IsElement(line, l)
<1>1. Len(line) \in Nat BY Lines
<1>2. QED BY <1>1 DEF IsElement

LEMMA BodyAtEnd ==
    ASSUME NEW line \in CommandLines, NEW order, NEW from
    PROVE  Body(line, order, Len(line) + 1, from) = [options |-> <<>>, others |-> <<>>]
<1>1. Len(line) + 1 > Len(line) /\ ~(Len(line) + 1 <= Len(line)) BY Lines
<1>2. QED BY <1>1 DEF Body

LEMMA BodyDashes ==
    ASSUME NEW line \in CommandLines, NEW order, NEW l \in 1 .. Len(line), NEW from,
           line[l] = <<"-", "-">>
    PROVE  Body(line, order, l, from) = [options |-> <<>>,
                                         others |-> SubSeq(line, l + 1, Len(line))]
<1>1. ~(l > Len(line)) /\ l <= Len(line) BY Lines
<1>2. ~IsNonoption(line[l]) BY DEF IsNonoption
<1>3. QED BY <1>1, <1>2 DEF Body

LEMMA BodyWord ==
    ASSUME NEW line \in CommandLines, NEW order, NEW l \in 1 .. Len(line), NEW from,
           IsNonoption(line[l])
    PROVE  Body(line, order, l, from) =
               IF order = "PERMUTE"
               THEN [options |-> from[l + 1].options, others |-> <<line[l]>> \o from[l + 1].others]
               ELSE [options |-> <<>>, others |-> SubSeq(line, l, Len(line))]
<1>1. ~(l > Len(line)) /\ l <= Len(line) BY Lines
<1>2. line[l] # <<"-", "-">> BY DEF IsNonoption
<1>3. QED BY <1>1, <1>2 DEF Body

LEMMA BodyElement ==
    ASSUME NEW line \in CommandLines, NEW order, NEW l, IsElement(line, l), NEW from
    PROVE  Body(line, order, l, from) =
               [options |-> ElementMeaning(line, l).options
                            \o from[l + 1 + ElementMeaning(line, l).takes].options,
                others |-> from[l + 1 + ElementMeaning(line, l).takes].others]
<1>1. ~(l > Len(line)) /\ ~IsNonoption(line[l]) /\ line[l] # <<"-", "-">>
  BY Lines DEF IsElement
<1>2. QED BY <1>1 DEF Body

LEMMA BodyTypes ==
    ASSUME NEW line \in CommandLines, NEW order, NEW l \in 1 .. Len(line) + 1, NEW from,
           \A e \in l + 1 .. Len(line) + 1 : from[e] \in Reading
    PROVE  Body(line, order, l, from) \in Reading
<1>1. Len(line) \in Nat /\ l \in Nat /\ line \in Seq(Word) BY Lines
<1>2. \A s \in Seq(Answer), w \in Seq(Word) : [options |-> s, others |-> w] \in Reading
  BY DEF Reading
<1>3. \A x \in Reading : x.options \in Seq(Answer) /\ x.others \in Seq(Word)
  BY DEF Reading
<1>4. <<>> \in Seq(Answer) /\ <<>> \in Seq(Word) OBVIOUS
<1>5. CASE l = Len(line) + 1
  <2>1. Body(line, order, l, from) = [options |-> <<>>, others |-> <<>>]
    BY <1>5, BodyAtEnd
  <2>2. QED BY <1>2, <1>4, <2>1
<1>6. CASE l \in 1 .. Len(line) /\ line[l] = <<"-", "-">>
  <2>1. Body(line, order, l, from) =
            [options |-> <<>>, others |-> SubSeq(line, l + 1, Len(line))]
              BY <1>6, BodyDashes, Zenon
  <2>2. l + 1 \in 1 .. Len(line) + 1 BY <1>1, <1>6
  <2>3. SubSeq(line, l + 1, Len(line)) \in Seq(Word) BY <1>1, <2>2, PartOf
  <2>4. QED BY <1>2, <1>4, <2>1, <2>3
<1>7. CASE l \in 1 .. Len(line) /\ IsNonoption(line[l]) /\ order = "PERMUTE"
  <2>1. Body(line, order, l, from) =
            [options |-> from[l + 1].options, others |-> <<line[l]>> \o from[l + 1].others]
    BY <1>7, BodyWord, Zenon
  <2>2. l + 1 \in l + 1 .. Len(line) + 1 /\ line[l] \in Word BY <1>1, <1>7, Lines
  <2>3. from[l + 1].options \in Seq(Answer) /\ from[l + 1].others \in Seq(Word)
    BY <1>3, <2>2
  <2>4. <<line[l]>> \o from[l + 1].others \in Seq(Word) BY <2>2, <2>3
  <2>5. QED BY <1>2, <2>1, <2>3, <2>4
<1>8. CASE l \in 1 .. Len(line) /\ IsNonoption(line[l]) /\ order # "PERMUTE"
  <2>1. Body(line, order, l, from) = [options |-> <<>>, others |-> SubSeq(line, l, Len(line))]
    BY <1>8, BodyWord, Zenon
  <2>2. SubSeq(line, l, Len(line)) \in Seq(Word) BY <1>1, PartOf
  <2>3. QED BY <1>2, <1>4, <2>1, <2>2
<1>9. CASE IsElement(line, l)
  <2>1. PICK s \in Seq(Answer), e \in {0, 1} :
            /\ ElementMeaning(line, l) = [options |-> s, takes |-> e]
            /\ l + 1 + e \in l + 1 .. Len(line) + 1
    BY <1>9, OptionElementTypes
  <2>2. Body(line, order, l, from) = [options |-> s \o from[l + 1 + e].options,
                                      others |-> from[l + 1 + e].others]
    <3>1. ElementMeaning(line, l).options = s /\ ElementMeaning(line, l).takes = e
      BY <2>1
    <3>2. QED BY <1>9, <3>1, BodyElement
  <2>3. from[l + 1 + e].options \in Seq(Answer) /\ from[l + 1 + e].others \in Seq(Word)
    BY <1>3, <2>1
  <2>4. s \o from[l + 1 + e].options \in Seq(Answer) BY <2>1, <2>3
  <2>5. QED BY <1>2, <2>2, <2>3, <2>4
<1>10. QED BY <1>5, <1>6, <1>7, <1>8, <1>9, BodyCases

LEMMA BodySame ==
    ASSUME NEW line \in CommandLines, NEW order, NEW l \in 1 .. Len(line) + 1,
           NEW from, NEW also, \A e \in l + 1 .. Len(line) + 1 : from[e] = also[e]
    PROVE  Body(line, order, l, from) = Body(line, order, l, also)
<1>1. Len(line) \in Nat /\ l \in Nat BY Lines
<1>2. CASE l = Len(line) + 1
  <2>1. /\ Body(line, order, l, from) = [options |-> <<>>, others |-> <<>>]
        /\ Body(line, order, l, also) = [options |-> <<>>, others |-> <<>>]
    BY <1>2, BodyAtEnd
  <2>2. QED BY <2>1
<1>3. CASE l \in 1 .. Len(line) /\ line[l] = <<"-", "-">>
  <2>1. \A x : Body(line, order, l, x) = [options |-> <<>>,
                                          others |-> SubSeq(line, l + 1, Len(line))]
    BY <1>3, BodyDashes, Zenon
  <2>2. QED BY <2>1
<1>4. CASE l \in 1 .. Len(line) /\ IsNonoption(line[l]) /\ order = "PERMUTE"
  <2>1. from[l + 1] = also[l + 1] BY <1>1, <1>4
  <2>2. QED
    <3>1. \A x : Body(line, order, l, x) =
                     [options |-> x[l + 1].options, others |-> <<line[l]>> \o x[l + 1].others]
      BY <1>4, BodyWord, Zenon
    <3>2. QED BY <2>1, <3>1
<1>5. CASE l \in 1 .. Len(line) /\ IsNonoption(line[l]) /\ order # "PERMUTE"
  <2>1. \A x : Body(line, order, l, x) = [options |-> <<>>,
                                          others |-> SubSeq(line, l, Len(line))]
    BY <1>5, BodyWord, Zenon
  <2>2. QED BY <2>1
<1>6. CASE IsElement(line, l)
  <2>1. PICK s \in Seq(Answer), e \in {0, 1} :
            /\ ElementMeaning(line, l) = [options |-> s, takes |-> e]
            /\ l + 1 + e \in l + 1 .. Len(line) + 1
    BY <1>6, OptionElementTypes
  <2>2. from[l + 1 + e] = also[l + 1 + e] BY <2>1
  <2>3. ElementMeaning(line, l).options = s /\ ElementMeaning(line, l).takes = e BY <2>1
  <2>4. \A x : Body(line, order, l, x) =
                   [options |-> ElementMeaning(line, l).options
                                \o x[l + 1 + ElementMeaning(line, l).takes].options,
                    others |-> x[l + 1 + ElementMeaning(line, l).takes].others]
    BY <1>6, BodyElement
  <2>5. QED BY <2>2, <2>3, <2>4
<1>7. QED BY <1>2, <1>3, <1>4, <1>5, <1>6, BodyCases

\* The recursive definition of the meaning has a solution.
LEMMA MeaningExists ==
    ASSUME NEW line \in CommandLines, NEW order
    PROVE  \E from : from = [l \in 1 .. Len(line) + 1 |-> Body(line, order, l, from)]
<1> DEFINE hi == Len(line) + 1
           Solves(f, lo) == \A e \in lo .. hi : f[e] = Body(line, order, e, f)
           G == {l \in 1 .. hi : \E f : f = [e \in 1 .. hi |-> f[e]] /\ Solves(f, l)}
<1>0. Len(line) \in Nat /\ hi \in Nat /\ hi >= 1 BY Lines
<1>1. hi \in G
  <2> DEFINE f == [e \in 1 .. hi |-> Body(line, order, e, <<>>)]
  <2>1. f = [e \in 1 .. hi |-> f[e]] OBVIOUS
  <2>2. f[hi] = Body(line, order, hi, <<>>) BY <1>0
  <2>3. Body(line, order, hi, <<>>) = Body(line, order, hi, f)
    <3>1. hi \in 1 .. Len(line) + 1 /\ \A e \in hi + 1 .. Len(line) + 1 : <<>>[e] = f[e]
      BY <1>0
    <3> HIDE DEF f, hi
    <3>2. QED BY <3>1, BodySame
  <2>4. Solves(f, hi)
    <3>1. \A e \in hi .. hi : e = hi BY <1>0
    <3> HIDE DEF f, hi
    <3>2. QED BY <2>2, <2>3, <3>1
  <2> HIDE DEF Solves, f
  <2>5. QED BY <1>0, <2>1, <2>4
<1>2. ASSUME NEW l \in 1 .. hi - 1, l + 1 \in G PROVE l \in G
  <2>0. l \in 1 .. hi /\ l \in 1 .. Len(line) + 1 BY <1>0
  <2>1. PICK f : f = [e \in 1 .. hi |-> f[e]] /\ Solves(f, l + 1) BY <1>2
  <2> DEFINE g == [e \in 1 .. hi |-> IF e = l THEN Body(line, order, l, f) ELSE f[e]]
  <2>2. g = [e \in 1 .. hi |-> g[e]] OBVIOUS
  <2>3. g[l] = Body(line, order, l, f) BY <2>0
  <2>4. \A e \in l + 1 .. hi : f[e] = g[e] BY <1>0, <2>0
  <2> HIDE DEF g
  <2>5. Body(line, order, l, f) = Body(line, order, l, g) BY <2>0, <2>4, BodySame
  <2>6. ASSUME NEW e \in l + 1 .. hi PROVE g[e] = Body(line, order, e, g)
    <3>1. e \in 1 .. Len(line) + 1 /\ \A d \in e + 1 .. Len(line) + 1 : f[d] = g[d]
      BY <1>0, <2>0, <2>4
    <3>2. Body(line, order, e, f) = Body(line, order, e, g) BY <3>1, BodySame
    <3>3. QED BY <2>1, <2>4, <3>2
  <2>7. Solves(g, l)
    <3>1. \A e \in l .. hi : e = l \/ e \in l + 1 .. hi BY <1>0
    <3> HIDE DEF hi
    <3>2. QED BY <2>3, <2>5, <2>6, <3>1
  <2> HIDE DEF Solves
  <2>8. QED BY <2>0, <2>2, <2>7
<1>3. 1 \in G
  <2>1. 1 \in 1 .. hi BY <1>0
  <2> HIDE DEF G
  <2>2. \A l \in 1 .. hi : l \in G
    <3> HIDE DEF hi
    <3>1. \A l \in 1 .. hi - 1 : l + 1 \in G => l \in G BY <1>2
    <3>2. 1 \in Int /\ hi \in Int BY <1>0
    <3>3. QED BY <1>1, <3>1, <3>2, Downwards, Zenon
  <2>3. QED BY <2>1, <2>2
<1>4. PICK f : f = [e \in 1 .. hi |-> f[e]] /\ Solves(f, 1) BY <1>3
<1>5. f = [l \in 1 .. Len(line) + 1 |-> Body(line, order, l, f)] BY <1>4
<1>6. QED BY <1>5

\* Its value at each argument.
LEMMA MeaningFunction ==
    ASSUME NEW line \in CommandLines, NEW order
    PROVE  \A l \in 1 .. Len(line) + 1 :
               /\ MeaningFrom(line, order)[l] \in Reading
               /\ MeaningFrom(line, order)[l] =
                      Body(line, order, l, MeaningFrom(line, order))
<1> DEFINE f == MeaningFrom(line, order)
           hi == Len(line) + 1
           G == {l \in 1 .. hi : \A e \in l .. hi : f[e] \in Reading}
<1>0. Len(line) \in Nat /\ hi \in Nat /\ hi >= 1 BY Lines
<1>1. f = CHOOSE from : from = [l \in 1 .. Len(line) + 1 |-> Body(line, order, l, from)]
  BY DEF MeaningFrom, Body
<1> HIDE DEF f
<1>2. f = [l \in 1 .. Len(line) + 1 |-> Body(line, order, l, f)] BY <1>1, MeaningExists
<1>3. \A l \in 1 .. hi : f[l] = Body(line, order, l, f) BY <1>2
<1>4. ASSUME NEW l \in 1 .. hi, \A e \in l + 1 .. hi : f[e] \in Reading
      PROVE  l \in G
  <2>1. f[l] \in Reading BY <1>3, <1>4, BodyTypes
  <2>2. \A e \in l .. hi : e = l \/ e \in l + 1 .. hi BY <1>0
  <2>3. QED BY <1>4, <2>1, <2>2
<1>5. hi \in G
  <2>1. \A e \in hi + 1 .. hi : FALSE BY <1>0
  <2>2. hi \in 1 .. hi BY <1>0
  <2> HIDE DEF hi, G
  <2>3. QED BY <1>4, <2>1, <2>2
<1>6. \A l \in 1 .. hi - 1 : l + 1 \in G => l \in G
  <2>1. TAKE l \in 1 .. hi - 1
  <2>2. l \in 1 .. hi BY <1>0
  <2>3. l + 1 \in G => \A e \in l + 1 .. hi : f[e] \in Reading OBVIOUS
  <2> HIDE DEF hi, G
  <2>4. QED BY <1>4, <2>2, <2>3
<1>7. \A l \in 1 .. hi : l \in G
  <2> HIDE DEF G
  <2>1. 1 \in Int /\ hi \in Int BY <1>0
  <2> HIDE DEF hi
  <2>2. QED BY <1>5, <1>6, <2>1, Downwards, Zenon
<1>8. \A l \in 1 .. hi : f[l] \in Reading
  <2>1. \A l \in 1 .. hi : l \in l .. hi BY <1>0
  <2>2. QED BY <1>7, <2>1
<1>9. QED BY <1>3, <1>8 DEF f
-----------------------------------------------------------------------------
(***************************************************************************)
(* getopt_long: what it has done of that.                                  *)
(***************************************************************************)
OptTypes ==
    /\ args \in CommandLines /\ ordering \in {"PERMUTE", "REQUIRE_ORDER"}
    /\ argv \in Seq(Word) /\ Len(argv) = Len(args)
    /\ optind \in 1 .. argc
    /\ firstNonopt \in 1 .. argc /\ lastNonopt \in 1 .. argc
    /\ bottom \in Nat /\ top \in Nat
    /\ nextchar \in Word /\ returned \in Seq(Answer)
    /\ optPc \in {"call", "exchange", "skip", "dashes", "rest", "stop", "decode", "done"}

\* Where the pointers are in each part of a call.
Pointers ==
    /\ optPc \in {"call", "decode", "dashes", "stop"} =>
           firstNonopt <= lastNonopt /\ lastNonopt <= optind
    /\ optPc \in {"call", "decode", "dashes"} /\ ordering # "PERMUTE" => firstNonopt = lastNonopt
    /\ optPc = "exchange" =>
           /\ firstNonopt <= bottom /\ bottom <= lastNonopt
           /\ lastNonopt <= top /\ top <= optind
           /\ after \in {"skip", "rest"} /\ (after = "skip" => ordering = "PERMUTE")
    /\ optPc = "skip" => firstNonopt <= optind /\ ordering = "PERMUTE"
    /\ optPc = "rest" => firstNonopt <= optind
    /\ optPc \in {"dashes", "stop"} =>
           /\ firstNonopt = lastNonopt \/ lastNonopt = optind
           /\ ordering = "PERMUTE" /\ optind # argc => ~IsNonoption(args[optind])
    /\ optPc = "stop" /\ optind # argc =>
           /\ args[optind] # <<"-", "-">>
           /\ ordering # "PERMUTE" => firstNonopt = lastNonopt

\* What has not been read is where it was.
Unread == optPc # "done" => \A c \in optind .. Len(args) : argv[c] = args[c]

\* In an option element: the next option is not behind one with an argument.
Inside == optPc = "decode" \/ (optPc = "call" /\ nextchar # <<>>)
Cursor == Len(args[optind]) - Len(nextchar) + 1
InElement ==
    /\ Inside => /\ IsElement(args, optind)
                 /\ Cursor \in 2 .. Len(args[optind])
                 /\ nextchar = SubSeq(args[optind], Cursor, Len(args[optind]))
                 /\ args[optind][2] = "-" => Cursor = 3
                 /\ args[optind][2] # "-" =>
                        \A d \in 2 .. Cursor - 1 : ~Taker(args[optind], d)
    /\ ~Inside /\ optPc # "done" => nextchar = <<>>

\* How many options of the element have been returned.
Given == IF Inside /\ args[optind][2] # "-" THEN Cursor - 2 ELSE 0

\* What is left to be done.
AfterDashes == optPc = "rest" \/ (optPc = "exchange" /\ after = "rest")
Left == IF AfterDashes THEN [options |-> <<>>, others |-> SubSeq(args, optind, Len(args))]
                       ELSE MeaningFrom(args, ordering)[optind]

\* After its first m elements, s is e.
EndsWith(s, m, e) == Len(s) = m + Len(e) /\ \A d \in 1 .. Len(e) : s[m + d] = e[d]

OptionsSoFar ==
    optPc # "done" =>
        /\ \A d \in 1 .. Len(returned) : returned[d] = Meaning.options[d]
        /\ EndsWith(Meaning.options, Len(returned) - Given, Left.options)

\* The arguments skipped so far are between firstNonopt and Upto.  While those
\* from lo on change places with the options between mid and hi, the one that
\* will be at f is at Moved.
Upto == IF optPc \in {"skip", "rest"} THEN optind ELSE lastNonopt
Moved(lo, mid, hi, f) == IF f < lo \/ f >= hi THEN f
                         ELSE IF f < lo + (hi - mid) THEN f + (mid - lo)
                         ELSE f - (hi - mid)
Place(c) == IF optPc = "exchange"
            THEN Moved(bottom, lastNonopt, top, c + (optind - lastNonopt)) ELSE c
OthersSoFar ==
    optPc # "done" =>
        /\ EndsWith(Meaning.others, Upto - firstNonopt, Left.others)
        /\ \A c \in firstNonopt .. Upto - 1 :
               argv[Place(c)] = Meaning.others[c - firstNonopt + 1]

OptInv == /\ OptTypes /\ Pointers /\ Unread /\ InElement
          /\ OptionsSoFar /\ OthersSoFar /\ OptionsInOrder
-----------------------------------------------------------------------------
\* The invariant holds initially and after every step.
LEMMA EndsLater ==
    ASSUME NEW S, NEW s \in Seq(S), NEW m \in Int, NEW u \in Seq(S), NEW w \in Seq(S),
           EndsWith(s, m, u \o w)
    PROVE  EndsWith(s, m + Len(u), w) /\ \A d \in 1 .. Len(u) : s[m + d] = u[d]
<1> DEFINE e == u \o w
<1>1. /\ Len(e) = Len(u) + Len(w) /\ Len(u) \in Nat /\ Len(w) \in Nat
      /\ \A d \in 1 .. Len(u) : e[d] = u[d]
      /\ \A d \in 1 .. Len(w) : e[Len(u) + d] = w[d]
  OBVIOUS
<1>2. Len(s) = m + Len(e) /\ \A d \in 1 .. Len(e) : s[m + d] = e[d] BY DEF EndsWith
<1> HIDE DEF e
<1>3. Len(s) = (m + Len(u)) + Len(w) BY <1>1, <1>2
<1>4. ASSUME NEW d \in 1 .. Len(u) PROVE s[m + d] = u[d]
  <2>1. d \in 1 .. Len(e) BY <1>1
  <2>2. QED BY <1>1, <1>2, <2>1
<1>5. ASSUME NEW d \in 1 .. Len(w) PROVE s[(m + Len(u)) + d] = w[d]
  <2>1. Len(u) + d \in 1 .. Len(e) /\ m + (Len(u) + d) = (m + Len(u)) + d BY <1>1
  <2>2. QED BY <1>1, <1>2, <2>1
<1>6. QED BY <1>3, <1>4, <1>5 DEF EndsWith

\* What is left to be read at each kind of argument.
LEMMA Reads ==
    ASSUME OptTypes, NEW l \in 1 .. argc
    PROVE  LET reads == MeaningFrom(args, ordering)
           IN /\ reads[l] \in Reading /\ reads[1] \in Reading
              /\ l = argc => reads[l] = [options |-> <<>>, others |-> <<>>]
              /\ l # argc /\ args[l] = <<"-", "-">> =>
                     reads[l] = [options |-> <<>>, others |-> SubSeq(args, l + 1, Len(args))]
              /\ l # argc /\ IsNonoption(args[l]) /\ ordering = "PERMUTE" =>
                     /\ reads[l + 1] \in Reading
                     /\ reads[l] = [options |-> reads[l + 1].options,
                                    others |-> <<args[l]>> \o reads[l + 1].others]
              /\ l # argc /\ IsNonoption(args[l]) /\ ordering # "PERMUTE" =>
                     reads[l] = [options |-> <<>>, others |-> SubSeq(args, l, Len(args))]
<1> DEFINE reads == MeaningFrom(args, ordering)
<1>1. args \in CommandLines /\ Len(args) \in Nat /\ argc = Len(args) + 1
  BY Lines DEF OptTypes, argc
<1>2. \A e \in 1 .. Len(args) + 1 : reads[e] \in Reading /\ reads[e] = Body(args, ordering, e, reads)
  BY <1>1, MeaningFunction, Zenon
<1>3. l \in 1 .. Len(args) + 1 /\ (l # argc => l \in 1 .. Len(args) /\ l + 1 \in 1 .. Len(args) + 1)
  BY <1>1
<1>4. 1 \in 1 .. Len(args) + 1 BY <1>1
<1> HIDE DEF reads
<1>5. l = argc => reads[l] = [options |-> <<>>, others |-> <<>>]
  BY <1>1, <1>2, <1>3, BodyAtEnd
<1>6. l # argc /\ args[l] = <<"-", "-">> =>
          reads[l] = [options |-> <<>>, others |-> SubSeq(args, l + 1, Len(args))]
  BY <1>1, <1>2, <1>3, BodyDashes, Zenon
<1>7. l # argc /\ IsNonoption(args[l]) =>
          Body(args, ordering, l, reads) =
              IF ordering = "PERMUTE"
              THEN [options |-> reads[l + 1].options, others |-> <<args[l]>> \o reads[l + 1].others]
              ELSE [options |-> <<>>, others |-> SubSeq(args, l, Len(args))]
  BY <1>1, <1>3, BodyWord, Zenon
<1>8. l # argc /\ IsNonoption(args[l]) /\ ordering = "PERMUTE" =>
          reads[l] = [options |-> reads[l + 1].options, others |-> <<args[l]>> \o reads[l + 1].others]
  BY <1>2, <1>3, <1>7, Zenon
<1>9. l # argc /\ IsNonoption(args[l]) /\ ordering # "PERMUTE" =>
          reads[l] = [options |-> <<>>, others |-> SubSeq(args, l, Len(args))]
  BY <1>2, <1>3, <1>7, Zenon
<1>10. QED BY <1>2, <1>3, <1>4, <1>5, <1>6, <1>8, <1>9 DEF reads

LEMMA ReadsElement ==
    ASSUME OptTypes, NEW l \in 1 .. argc, IsElement(args, l),
           NEW answers \in Seq(Answer), NEW e \in {0, 1},
           ElementMeaning(args, l) = [options |-> answers, takes |-> e], l + 1 + e <= argc
    PROVE  LET reads == MeaningFrom(args, ordering)
           IN /\ reads[l + 1 + e] \in Reading
              /\ reads[l] = [options |-> answers \o reads[l + 1 + e].options,
                             others |-> reads[l + 1 + e].others]
<1> DEFINE reads == MeaningFrom(args, ordering)
<1>1. args \in CommandLines /\ Len(args) \in Nat /\ argc = Len(args) + 1
  BY Lines DEF OptTypes, argc
<1>2. \A d \in 1 .. Len(args) + 1 : reads[d] \in Reading /\ reads[d] = Body(args, ordering, d, reads)
  BY <1>1, MeaningFunction, Zenon
<1>3. l \in 1 .. Len(args) + 1 /\ l + 1 + e \in 1 .. Len(args) + 1 BY <1>1
<1> HIDE DEF reads
<1>4. ElementMeaning(args, l).options = answers /\ ElementMeaning(args, l).takes = e OBVIOUS
<1>5. Body(args, ordering, l, reads) =
          [options |-> ElementMeaning(args, l).options
                       \o reads[l + 1 + ElementMeaning(args, l).takes].options,
           others |-> reads[l + 1 + ElementMeaning(args, l).takes].others]
  BY <1>1, BodyElement
<1>6. QED BY <1>2, <1>3, <1>4, <1>5 DEF reads

\* The types of what the invariant is about.
LEMMA OptNumbers ==
    ASSUME OptTypes
    PROVE  /\ Len(args) \in Nat /\ argc = Len(args) + 1 /\ argc \in Nat
           /\ args \in Seq(Word) /\ \A l \in 1 .. Len(args) : args[l] \in Word /\ Len(args[l]) \in Nat
           /\ optind \in Nat /\ firstNonopt \in Nat /\ lastNonopt \in Nat
           /\ bottom \in Nat /\ top \in Nat /\ Len(returned) \in Nat
           /\ Meaning \in Reading
           /\ Meaning.options \in Seq(Answer) /\ Meaning.others \in Seq(Word)
<1>1. Len(args) \in Nat /\ argc = Len(args) + 1 BY Lines DEF OptTypes, argc
<1>2. args \in Seq(Word) /\ \A l \in 1 .. Len(args) : args[l] \in Word /\ Len(args[l]) \in Nat
  BY Lines DEF OptTypes
<1>3. optind \in Nat /\ firstNonopt \in Nat /\ lastNonopt \in Nat /\ argc \in Nat
  BY <1>1 DEF OptTypes
<1>4. bottom \in Nat /\ top \in Nat /\ Len(returned) \in Nat BY DEF OptTypes
<1>5. 1 \in 1 .. argc BY <1>1
<1>6. Meaning \in Reading BY <1>5, Reads DEF Meaning
<1>7. Meaning.options \in Seq(Answer) /\ Meaning.others \in Seq(Word)
  BY <1>6 DEF Reading
<1>8. QED BY <1>1, <1>2, <1>3, <1>4, <1>6, <1>7

LEMMA InitOptions == OptInit => OptInv
<1> SUFFICES ASSUME OptInit PROVE OptInv OBVIOUS
<1>1. args \in CommandLines /\ Len(args) \in Nat /\ argc = Len(args) + 1 /\ args \in Seq(Word)
  BY Lines DEF OptInit, argc
<1>2. OptTypes
  <2>1. nextchar = <<>> /\ returned = <<>> BY DEF OptInit
  <2>4. <<>> \in Word /\ <<>> \in Seq(Answer) BY DEF Word
  <2>2. 1 \in 1 .. argc BY <1>1
  <2>3. QED BY <1>1, <2>1, <2>2, <2>4 DEF OptInit, OptTypes
<1>3. Pointers /\ Unread /\ InElement /\ OptionsInOrder
  <2>1. Pointers
    <3>1. optPc = "call" /\ optind = 1 /\ firstNonopt = 1 /\ lastNonopt = 1
      BY DEF OptInit
    <3>2. QED BY <3>1 DEF Pointers
  <2>2. Unread BY DEF OptInit, Unread
  <2>3. InElement BY DEF OptInit, InElement, Inside
  <2>4. OptionsInOrder BY DEF OptInit, OptionsInOrder
  <2>5. QED BY <2>1, <2>2, <2>3, <2>4
<1>4. Left = Meaning /\ Given = 0 /\ Upto = 1 /\ firstNonopt = 1 /\ returned = <<>>
  BY DEF OptInit, Left, AfterDashes, Meaning, Given, Inside, Upto
<1>5. OptionsSoFar
  <2>1. Len(Meaning.options) \in Nat BY <1>2, OptNumbers
  <2>2. QED BY <1>4, <2>1 DEF OptionsSoFar, EndsWith
<1>6. OthersSoFar
  <2>1. Len(Meaning.others) \in Nat BY <1>2, OptNumbers
  <2>2. QED BY <1>4, <2>1 DEF OthersSoFar, EndsWith
<1>7. QED BY <1>2, <1>3, <1>5, <1>6 DEF OptInv

\* A step that neither returns an option nor passes one.
LEMMA QuietOptions ==
    ASSUME OptInv, optPc # "done", UNCHANGED <<args, ordering, returned>>,
           Given' = Given, Left'.options = Left.options
    PROVE  OptionsSoFar'
BY DEF OptInv, OptionsSoFar, Meaning, EndsWith

LEMMA ResumeKeeps ==
    ASSUME OptInv, Resume
    PROVE  OptInv'
<1>1. OptTypes /\ OptTypes' BY DEF OptInv, OptTypes, Resume, argc
<1>2. Inside /\ Inside' BY DEF Resume, Inside
<1>3. Pointers' BY DEF OptInv, Pointers, Resume
<1>4. Unread' BY DEF OptInv, Unread, Resume
<1>5. UNCHANGED <<args, ordering, argv, optind, nextchar, firstNonopt, lastNonopt, returned>>
  BY DEF Resume
<1>6. InElement' BY <1>2, <1>5 DEF OptInv, InElement, Cursor
<1>7. OptionsSoFar'
  <2>1. Given' = Given BY <1>2, <1>5 DEF Given, Cursor
  <2>2. Left' = Left BY <1>5 DEF Left, AfterDashes, Resume
  <2>3. QED BY <1>5, <2>1, <2>2, QuietOptions DEF Resume
<1>8. OthersSoFar'
  <2>1. Left' = Left BY <1>5 DEF Left, AfterDashes, Resume
  <2>2. Upto = lastNonopt /\ Upto' = lastNonopt BY <1>5 DEF Upto, Resume
  <2>3. \A c : Place(c) = c /\ Place(c)' = c BY DEF Place, Resume
  <2>4. Meaning' = Meaning BY <1>5 DEF Meaning
  <2>5. OthersSoFar /\ optPc # "done" BY DEF OptInv, Resume
  <2>6. QED BY <1>5, <2>1, <2>2, <2>3, <2>4, <2>5 DEF OthersSoFar, EndsWith
<1>9. OptionsInOrder' BY DEF Resume, OptionsInOrder
<1>10. QED BY <1>1, <1>3, <1>4, <1>6, <1>7, <1>8, <1>9 DEF OptInv

\* When the exchange begins, the arguments skipped are still before the options.
LEMMA MovedFrom ==
    ASSUME NEW lo \in Nat, NEW mid \in Nat, NEW hi \in Nat, lo <= mid, mid <= hi,
           NEW c \in lo .. mid - 1
    PROVE  Moved(lo, mid, hi, c + (hi - mid)) = c
<1> DEFINE f == c + (hi - mid)
<1>1. ~(f < lo \/ f >= hi) /\ ~(f < lo + (hi - mid)) /\ f - (hi - mid) = c OBVIOUS
<1> HIDE DEF f
<1>2. Moved(lo, mid, hi, f) = c BY <1>1 DEF Moved
<1>3. QED BY <1>2 DEF f

\* While the arguments skipped and the options after them are exchanged, the
\* argument that will be at place f.
LEMMA ExchangeBegins ==
    ASSUME OptTypes, firstNonopt <= lastNonopt, lastNonopt <= optind',
           optind' \in Nat, NEW c \in firstNonopt .. lastNonopt - 1,
           bottom' = firstNonopt, top' = optind', lastNonopt' = lastNonopt, optPc' = "exchange"
    PROVE  Place(c)' = c
<1>1. firstNonopt \in Nat /\ lastNonopt \in Nat BY OptNumbers
<1>2. Place(c)' = Moved(bottom', lastNonopt', top', c + (optind' - lastNonopt'))
  BY DEF Place
<1>3. Moved(firstNonopt, lastNonopt, optind', c + (optind' - lastNonopt)) = c
  BY <1>1, MovedFrom
<1>4. QED BY <1>2, <1>3

LEMMA AdvanceKeeps ==
    ASSUME OptInv, Advance
    PROVE  OptInv'
<1>0. /\ UNCHANGED <<args, ordering, argv, optind, nextchar, lastNonopt, returned>>
      /\ optPc = "call" /\ nextchar = <<>> /\ optPc' \in {"dashes", "exchange", "skip"}
  BY DEF Advance, EnterExchange
<1>1. /\ OptTypes /\ argc = Len(args) + 1 /\ argc' = argc
      /\ firstNonopt \in Nat /\ lastNonopt \in Nat /\ optind \in Nat
      /\ firstNonopt <= lastNonopt /\ lastNonopt <= optind
      /\ ordering # "PERMUTE" => firstNonopt = lastNonopt
  <2>1. OptTypes BY DEF OptInv
  <2>2. QED BY <1>0, <2>1, OptNumbers DEF OptInv, Pointers, argc
<1>2. \/ /\ ordering # "PERMUTE" /\ optPc' = "dashes"
         /\ UNCHANGED <<firstNonopt, bottom, top, after>>
      \/ /\ ordering = "PERMUTE" /\ optPc' = "exchange"
         /\ bottom' = firstNonopt /\ top' = optind /\ after' = "skip" /\ firstNonopt' = firstNonopt
      \/ /\ ordering = "PERMUTE" /\ optPc' = "skip"
         /\ UNCHANGED <<bottom, top, after>>
         /\ \/ firstNonopt' = firstNonopt /\ lastNonopt = optind
            \/ firstNonopt' = optind /\ firstNonopt = lastNonopt
  <2>1. ordering \in {"PERMUTE", "REQUIRE_ORDER"} BY <1>1 DEF OptTypes
  <2>2. QED BY <1>1, <2>1 DEF Advance, EnterExchange
<1>3. firstNonopt' \in {firstNonopt, optind} /\ bottom' \in {bottom, firstNonopt}
      /\ top' \in {top, optind}
  BY <1>2
<1>4. OptTypes' BY <1>0, <1>1, <1>3 DEF OptTypes
<1>5. Pointers'
  <2>1. CASE optPc' = "dashes" BY <1>0, <1>1, <1>2, <2>1 DEF Pointers
  <2>2. CASE optPc' = "exchange" BY <1>0, <1>1, <1>2, <2>2 DEF Pointers
  <2>3. CASE optPc' = "skip" BY <1>0, <1>1, <1>2, <2>3 DEF Pointers
  <2>4. QED BY <1>0, <2>1, <2>2, <2>3
<1>6. Unread' BY <1>0 DEF OptInv, Unread
<1>7. ~Inside /\ ~Inside' BY <1>0 DEF Inside
<1>8. InElement' BY <1>0, <1>7 DEF InElement
<1>9. Left' = Left BY <1>0, <1>2 DEF Left, AfterDashes
<1>10. OptionsSoFar' BY <1>0, <1>7, <1>9, QuietOptions DEF Given
<1>11. OthersSoFar'
  <2>1. /\ EndsWith(Meaning.others, lastNonopt - firstNonopt, Left.others)
        /\ \A c \in firstNonopt .. lastNonopt - 1 : argv[c] = Meaning.others[c - firstNonopt + 1]
    BY <1>0 DEF OptInv, OthersSoFar, Upto, Place
  <2>2. Meaning' = Meaning BY <1>0 DEF Meaning
  <2>3. CASE optPc' = "dashes"
    <3>1. Upto' = lastNonopt /\ firstNonopt' = firstNonopt BY <1>0, <1>2, <2>3 DEF Upto
    <3>2. \A c : Place(c)' = c BY <2>3 DEF Place
    <3>3. QED BY <1>0, <1>9, <2>1, <2>2, <3>1, <3>2 DEF OthersSoFar, EndsWith
  <2>4. CASE optPc' = "exchange"
    <3>1. Upto' = lastNonopt /\ firstNonopt' = firstNonopt BY <1>0, <1>2, <2>4 DEF Upto
    <3>2. \A c \in firstNonopt .. lastNonopt - 1 : Place(c)' = c
      BY <1>0, <1>1, <1>2, <2>4, ExchangeBegins
    <3>3. QED BY <1>0, <1>9, <2>1, <2>2, <3>1, <3>2 DEF OthersSoFar, EndsWith
  <2>5. CASE optPc' = "skip"
    <3>1. Upto' = optind BY <1>0, <2>5 DEF Upto
    <3>2. \A c : Place(c)' = c BY <2>5 DEF Place
    <3>3. CASE firstNonopt' = firstNonopt /\ lastNonopt = optind
      BY <1>0, <1>9, <2>1, <2>2, <3>1, <3>2, <3>3 DEF OthersSoFar, EndsWith
    <3>4. CASE firstNonopt' = optind /\ firstNonopt = lastNonopt
      <4>1. Upto' - firstNonopt' = lastNonopt - firstNonopt BY <1>1, <3>1, <3>4
      <4>2. \A c \in firstNonopt' .. Upto' - 1 : FALSE BY <1>1, <3>1, <3>4
      <4>3. QED BY <1>0, <1>9, <2>1, <2>2, <4>1, <4>2 DEF OthersSoFar, EndsWith
    <3>5. QED BY <1>2, <2>5, <3>3, <3>4
  <2>6. QED BY <1>0, <2>3, <2>4, <2>5
<1>12. OptionsInOrder' BY <1>0 DEF OptionsInOrder
<1>13. QED BY <1>4, <1>5, <1>6, <1>8, <1>10, <1>11, <1>12 DEF OptInv

\* Where an element of a sequence comes from when two parts change places.
From(i1, j1, len, c) == IF c >= i1 /\ c < i1 + len THEN c - i1 + j1
                        ELSE IF c >= j1 /\ c < j1 + len THEN c - j1 + i1 ELSE c

LEMMA SwappedTypes ==
    ASSUME NEW s \in Seq(Word), NEW i1 \in Nat, NEW j1 \in Nat, NEW len \in Nat,
           1 <= i1, i1 + len <= j1, j1 + len <= Len(s) + 1
    PROVE  /\ Swapped(s, i1, j1, len) \in Seq(Word)
           /\ Len(Swapped(s, i1, j1, len)) = Len(s)
           /\ \A c \in 1 .. Len(s) : Swapped(s, i1, j1, len)[c] = s[From(i1, j1, len, c)]
<1> DEFINE from(c) == From(i1, j1, len, c)
           t == [c \in 1 .. Len(s) |-> s[from(c)]]
<1>0. Len(s) \in Nat /\ DOMAIN s = 1 .. Len(s) OBVIOUS
<1>1. ASSUME NEW c \in 1 .. Len(s)
      PROVE  (CASE c \in i1 .. i1 + len - 1 -> s[c - i1 + j1]
                [] c \in j1 .. j1 + len - 1 -> s[c - j1 + i1]
                [] OTHER -> s[c]) = s[from(c)]
  <2>1. CASE c >= i1 /\ c < i1 + len
    <3>1. c \in i1 .. i1 + len - 1 /\ c \notin j1 .. j1 + len - 1 BY <2>1
    <3>2. QED BY <2>1, <3>1 DEF From
  <2>2. CASE c >= j1 /\ c < j1 + len
    <3>1. c \in j1 .. j1 + len - 1 /\ c \notin i1 .. i1 + len - 1
          /\ ~(c >= i1 /\ c < i1 + len) BY <2>2
    <3>2. QED BY <2>2, <3>1 DEF From
  <2>3. CASE ~(c >= i1 /\ c < i1 + len) /\ ~(c >= j1 /\ c < j1 + len)
    <3>1. c \notin j1 .. j1 + len - 1 /\ c \notin i1 .. i1 + len - 1 BY <2>3
    <3>2. QED BY <2>3, <3>1 DEF From
  <2>4. QED BY <2>1, <2>2, <2>3
<1>2. Swapped(s, i1, j1, len) = t BY <1>0, <1>1 DEF Swapped
<1>3. \A c \in 1 .. Len(s) : from(c) \in 1 .. Len(s) BY <1>0 DEF From
<1> HIDE DEF from
<1>4. t \in [1 .. Len(s) -> Word] BY <1>3
<1>5. t \in Seq(Word) /\ Len(t) = Len(s) BY <1>0, <1>4
<1>6. \A c \in 1 .. Len(s) : t[c] = s[from(c)] OBVIOUS
<1> HIDE DEF t
<1>7. QED BY <1>2, <1>5, <1>6 DEF from

\* An iteration moves the arguments and keeps where each of them will be.
LEMMA MovedLonger ==
    ASSUME NEW s \in Seq(Word), NEW lo \in Nat, NEW len \in Nat, NEW far \in Nat,
           1 <= lo, 1 <= len, lo + len < far, far + len <= Len(s) + 1, NEW f \in 1 .. Len(s)
    PROVE  Swapped(s, lo, far, len)[Moved(lo, lo + len, far, f)]
               = s[Moved(lo, lo + len, far + len, f)]
<1> DEFINE before == Moved(lo, lo + len, far + len, f)
           now == Moved(lo, lo + len, far, f)
<1>0. Len(s) \in Nat /\ lo + len <= far OBVIOUS
<1>1. now \in 1 .. Len(s) BY DEF Moved
<1>2. From(lo, far, len, now) = before BY DEF Moved, From
<1> HIDE DEF before, now
<1>3. \A c \in 1 .. Len(s) : Swapped(s, lo, far, len)[c] = s[From(lo, far, len, c)]
  BY <1>0, SwappedTypes
<1>4. QED BY <1>1, <1>2, <1>3 DEF before, now

LEMMA MovedShorter ==
    ASSUME NEW s \in Seq(Word), NEW lo \in Nat, NEW mid \in Nat, NEW len \in Nat,
           1 <= lo, 1 <= len, lo + len <= mid, mid + len <= Len(s) + 1, NEW f \in 1 .. Len(s)
    PROVE  Swapped(s, lo, mid, len)[Moved(lo + len, mid, mid + len, f)]
               = s[Moved(lo, mid, mid + len, f)]
<1> DEFINE before == Moved(lo, mid, mid + len, f)
           now == Moved(lo + len, mid, mid + len, f)
<1>0. Len(s) \in Nat OBVIOUS
<1>1. now \in 1 .. Len(s) BY DEF Moved
<1>2. From(lo, mid, len, now) = before BY DEF Moved, From
<1> HIDE DEF before, now
<1>3. \A c \in 1 .. Len(s) : Swapped(s, lo, mid, len)[c] = s[From(lo, mid, len, c)]
  BY <1>0, SwappedTypes
<1>4. QED BY <1>1, <1>2, <1>3 DEF before, now

\* It moves nothing behind the options.
LEMMA SwappedBefore ==
    ASSUME NEW s \in Seq(Word), NEW lo \in Nat, NEW far \in Nat, NEW len \in Nat,
           NEW hi \in Nat, 1 <= lo, lo + len <= far, far + len <= hi, hi <= Len(s) + 1
    PROVE  /\ Swapped(s, lo, far, len) \in Seq(Word)
           /\ Len(Swapped(s, lo, far, len)) = Len(s)
           /\ \A c \in hi .. Len(s) : Swapped(s, lo, far, len)[c] = s[c]
<1>1. Len(s) \in Nat /\ far + len <= Len(s) + 1 OBVIOUS
<1>2. /\ Swapped(s, lo, far, len) \in Seq(Word)
      /\ Len(Swapped(s, lo, far, len)) = Len(s)
      /\ \A c \in 1 .. Len(s) : Swapped(s, lo, far, len)[c] = s[From(lo, far, len, c)]
  BY <1>1, SwappedTypes
<1>3. ASSUME NEW c \in hi .. Len(s) PROVE Swapped(s, lo, far, len)[c] = s[c]
  <2>1. c \in 1 .. Len(s) /\ From(lo, far, len, c) = c BY <1>1 DEF From
  <2>2. QED BY <1>2, <2>1
<1>4. QED BY <1>2, <1>3

\* When one of the segments is empty, they are where they will be.
LEMMA MovedTo ==
    ASSUME NEW lo \in Nat, NEW mid \in Nat, NEW hi \in Nat, lo <= mid, mid <= hi,
           ~(hi > mid /\ mid > lo), NEW f \in Int
    PROVE  Moved(lo, mid, hi, f) = f
BY DEF Moved

LEMMA ExchangeKeeps ==
    ASSUME OptInv, Exchange
    PROVE  OptInv'
<1> DEFINE lo == bottom
           mid == lastNonopt
           hi == top
<1>0. /\ UNCHANGED <<args, ordering, optind, nextchar, firstNonopt, lastNonopt, after,
                     returned, optPc>>
      /\ optPc = "exchange" /\ hi > mid /\ mid > lo
  BY DEF Exchange
<1>1. /\ OptTypes /\ argc = Len(args) + 1 /\ argc' = argc /\ Len(args) \in Nat
      /\ firstNonopt \in Nat /\ lo \in Nat /\ mid \in Nat /\ hi \in Nat /\ optind \in Nat
      /\ 1 <= firstNonopt /\ firstNonopt <= lo /\ hi <= optind /\ optind <= argc
      /\ argv \in Seq(Word) /\ Len(argv) = Len(args)
  <2>1. OptTypes BY DEF OptInv
  <2>2. QED BY <1>0, <2>1, OptNumbers DEF OptInv, Pointers, argc, OptTypes
<1>2. PICK len \in Nat, far \in Nat :
          /\ argv' = Swapped(argv, lo, far, len) /\ lo + len <= far /\ far + len <= hi
          /\ \/ /\ len = mid - lo /\ far = hi - len /\ len < hi - mid
                /\ bottom' = lo /\ top' = far
             \/ /\ len = hi - mid /\ far = mid /\ len <= mid - lo
                /\ bottom' = lo + len /\ top' = hi
  <2>1. CASE hi - mid > mid - lo
    <3>1. PICK len \in Nat, far \in Nat : len = mid - lo /\ far = hi - len
      <4>1. mid - lo \in Nat /\ hi - (mid - lo) \in Nat BY <1>0, <1>1, <2>1
      <4>2. QED BY <4>1
    <3>2. argv' = Swapped(argv, lo, far, len) /\ bottom' = lo /\ top' = far
      BY <2>1, <3>1 DEF Exchange
    <3>3. lo + len <= far /\ far + len <= hi /\ len < hi - mid BY <1>0, <1>1, <2>1, <3>1
    <3>4. QED BY <3>1, <3>2, <3>3
  <2>2. CASE ~(hi - mid > mid - lo)
    <3>1. PICK len \in Nat : len = hi - mid BY <1>0, <1>1
    <3>2. argv' = Swapped(argv, lo, mid, len) /\ bottom' = lo + len /\ top' = hi
      BY <2>2, <3>1 DEF Exchange
    <3>3. lo + len <= mid /\ mid + len <= hi /\ len <= mid - lo BY <1>0, <1>1, <2>2, <3>1
    <3>4. QED BY <1>1, <3>1, <3>2, <3>3
  <2>3. QED BY <2>1, <2>2
<1>3. /\ argv' \in Seq(Word) /\ Len(argv') = Len(args)
      /\ \A c \in optind .. Len(args) : argv'[c] = argv[c]
      /\ \A f \in 1 .. Len(args) : argv'[Moved(lo, mid, hi, f)'] = argv[Moved(lo, mid, hi, f)]
  <2>1. \A f : Moved(lo, mid, hi, f)' = Moved(bottom', mid, top', f) BY <1>0
  <2>2. 1 <= lo /\ lo < mid /\ mid < hi /\ hi <= Len(argv) + 1 BY <1>0, <1>1
  <2>3. /\ argv' \in Seq(Word) /\ Len(argv') = Len(argv)
        /\ \A c \in hi .. Len(argv) : argv'[c] = argv[c]
    BY <1>1, <1>2, <2>2, SwappedBefore
  <2>4. \A c \in optind .. Len(args) : argv'[c] = argv[c]
    <3>1. \A c \in optind .. Len(args) : c \in hi .. Len(argv) BY <1>1
    <3>2. QED BY <2>3, <3>1
  <2>5. ASSUME NEW f \in 1 .. Len(args)
        PROVE  argv'[Moved(bottom', mid, top', f)] = argv[Moved(lo, mid, hi, f)]
    <3>1. f \in 1 .. Len(argv) BY <1>1
    <3>2. CASE len = mid - lo /\ far = hi - len /\ len < hi - mid /\ bottom' = lo /\ top' = far
      <4>0. mid = lo + len /\ hi = far + len BY <1>1, <2>2, <3>2
      <4>1. /\ argv \in Seq(Word) /\ lo \in Nat /\ f \in 1 .. Len(argv) /\ 1 <= lo
            /\ 1 <= len /\ lo + len < far /\ far + len <= Len(argv) + 1
        BY <1>1, <2>2, <3>1, <3>2
      <4>2. Swapped(argv, lo, far, len)[Moved(lo, lo + len, far, f)]
                = argv[Moved(lo, lo + len, far + len, f)]
        BY <4>1, MovedLonger
      <4>3. QED BY <1>2, <3>2, <4>0, <4>2, Zenon
    <3>3. CASE len = hi - mid /\ far = mid /\ len <= mid - lo
               /\ bottom' = lo + len /\ top' = hi
      <4>0. hi = mid + len BY <1>1, <2>2, <3>3
      <4>1. /\ argv \in Seq(Word) /\ lo \in Nat /\ mid \in Nat /\ f \in 1 .. Len(argv)
            /\ 1 <= lo /\ 1 <= len /\ lo + len <= mid /\ mid + len <= Len(argv) + 1
        BY <1>1, <2>2, <3>1, <3>3
      <4>2. Swapped(argv, lo, mid, len)[Moved(lo + len, mid, mid + len, f)]
                = argv[Moved(lo, mid, mid + len, f)]
        BY <4>1, MovedShorter
      <4>3. QED BY <1>2, <3>3, <4>0, <4>2, Zenon
    <3>4. QED BY <1>2, <3>2, <3>3
  <2>6. QED BY <1>1, <2>1, <2>3, <2>4, <2>5
<1>4. bottom' \in Nat /\ top' \in Nat /\ firstNonopt <= bottom' /\ bottom' <= mid
      /\ mid <= top' /\ top' <= optind
  BY <1>0, <1>1, <1>2
<1>5. OptTypes' BY <1>0, <1>1, <1>3, <1>4 DEF OptTypes
<1>6. Pointers' BY <1>0, <1>4 DEF OptInv, Pointers
<1>7. Unread' BY <1>0, <1>3 DEF OptInv, Unread
<1>8. ~Inside /\ ~Inside' BY <1>0 DEF Inside
<1>9. InElement' BY <1>0, <1>8 DEF OptInv, InElement
<1>10. Left' = Left BY <1>0 DEF Left, AfterDashes
<1>11. OptionsSoFar' BY <1>0, <1>8, <1>10, QuietOptions DEF Given
<1>12. OthersSoFar'
  <2>1. Upto = mid /\ Upto' = mid BY <1>0 DEF Upto
  <2>2. /\ EndsWith(Meaning.others, mid - firstNonopt, Left.others)
        /\ \A c \in firstNonopt .. mid - 1 :
               argv[Place(c)] = Meaning.others[c - firstNonopt + 1]
    BY <1>0, <2>1 DEF OptInv, OthersSoFar
  <2>3. ASSUME NEW c \in firstNonopt .. mid - 1 PROVE argv'[Place(c)'] = argv[Place(c)]
    <3>1. c + (optind - mid) \in 1 .. Len(args) BY <1>0, <1>1
    <3>2. PICK f \in 1 .. Len(args) : f = c + (optind - mid) BY <3>1
    <3>3. Place(c) = Moved(lo, mid, hi, f) /\ Place(c)' = Moved(lo, mid, hi, f)'
      BY <1>0, <3>2 DEF Place
    <3>4. QED BY <1>3, <3>3
  <2>4. Meaning' = Meaning BY <1>0 DEF Meaning
  <2>5. QED BY <1>0, <1>10, <2>1, <2>2, <2>3, <2>4 DEF OthersSoFar, EndsWith
<1>13. OptionsInOrder' BY <1>0 DEF OptionsInOrder
<1>14. QED BY <1>5, <1>6, <1>7, <1>9, <1>11, <1>12, <1>13 DEF OptInv

LEMMA ExchangeEndKeeps ==
    ASSUME OptInv, ExchangeEnd
    PROVE  OptInv'
<1>0. /\ UNCHANGED <<args, ordering, argv, optind, nextchar, returned>>
      /\ optPc = "exchange" /\ ~(top > lastNonopt /\ lastNonopt > bottom)
      /\ firstNonopt' = firstNonopt + optind - lastNonopt /\ lastNonopt' = optind
      /\ optPc' = after /\ bottom' = 0 /\ top' = 0
  BY DEF ExchangeEnd
<1>1. /\ OptTypes /\ argc = Len(args) + 1 /\ argc' = argc /\ Len(args) \in Nat
      /\ firstNonopt \in Nat /\ bottom \in Nat /\ lastNonopt \in Nat /\ top \in Nat
      /\ optind \in Nat /\ 1 <= firstNonopt /\ firstNonopt <= bottom /\ bottom <= lastNonopt
      /\ lastNonopt <= top /\ top <= optind /\ optind <= argc
      /\ after \in {"skip", "rest"} /\ (after = "skip" => ordering = "PERMUTE")
  <2>1. OptTypes BY DEF OptInv
  <2>2. QED BY <1>0, <2>1, OptNumbers DEF OptInv, Pointers, argc, OptTypes
<1>2. firstNonopt' \in 1 .. argc /\ firstNonopt' <= optind BY <1>0, <1>1
<1>3. OptTypes' BY <1>0, <1>1, <1>2 DEF OptTypes
<1>4. Pointers' BY <1>0, <1>1, <1>2 DEF Pointers
<1>5. Unread' BY <1>0 DEF OptInv, Unread
<1>6. ~Inside /\ ~Inside' BY <1>0, <1>1 DEF Inside
<1>7. InElement' BY <1>0, <1>6 DEF OptInv, InElement
<1>8. Left' = Left BY <1>0, <1>1 DEF Left, AfterDashes
<1>9. OptionsSoFar' BY <1>0, <1>6, <1>8, QuietOptions DEF Given
<1>10. OthersSoFar'
  <2>1. Upto = lastNonopt /\ Upto' = optind BY <1>0, <1>1 DEF Upto
  <2>2. /\ EndsWith(Meaning.others, lastNonopt - firstNonopt, Left.others)
        /\ \A c \in firstNonopt .. lastNonopt - 1 :
               argv[Place(c)] = Meaning.others[c - firstNonopt + 1]
    BY <1>0, <2>1 DEF OptInv, OthersSoFar
  <2>3. Upto' - firstNonopt' = lastNonopt - firstNonopt BY <1>0, <1>1, <2>1
  <2>4. ASSUME NEW c \in firstNonopt' .. Upto' - 1
        PROVE  argv'[Place(c)'] = Meaning.others[c - firstNonopt' + 1]
    <3>1. Place(c)' = c BY <1>0, <1>1 DEF Place
    <3>2. PICK d \in firstNonopt .. lastNonopt - 1 :
              c = d + (optind - lastNonopt) /\ d - firstNonopt + 1 = c - firstNonopt' + 1
      <4>1. /\ c - (optind - lastNonopt) \in firstNonopt .. lastNonopt - 1
            /\ c = (c - (optind - lastNonopt)) + (optind - lastNonopt)
            /\ (c - (optind - lastNonopt)) - firstNonopt + 1 = c - firstNonopt' + 1
        BY <1>0, <1>1, <1>2, <2>1
      <4>2. QED BY <4>1
    <3>3. Place(d) = Moved(bottom, lastNonopt, top, c) BY <1>0, <3>2 DEF Place
    <3>4. c \in Int BY <1>2, <2>1, <1>1
    <3>5. Place(d) = c BY <1>0, <1>1, <3>3, <3>4, MovedTo
    <3>6. QED BY <1>0, <2>2, <3>1, <3>2, <3>5
  <2>5. Meaning' = Meaning BY <1>0 DEF Meaning
  <2>6. QED BY <1>0, <1>8, <2>2, <2>3, <2>4, <2>5 DEF OthersSoFar, EndsWith
<1>11. OptionsInOrder' BY <1>0, <1>1 DEF OptionsInOrder
<1>12. QED BY <1>3, <1>4, <1>5, <1>7, <1>9, <1>10, <1>11 DEF OptInv

LEMMA SkipKeeps ==
    ASSUME OptInv, Skip
    PROVE  OptInv'
<1>0. /\ UNCHANGED <<args, ordering, argv, nextchar, firstNonopt, lastNonopt, bottom, top,
                     returned, optPc>>
      /\ optPc = "skip" /\ optind < argc /\ IsNonoption(argv[optind])
      /\ optind' = optind + 1
  BY DEF Skip
<1>1. /\ OptTypes /\ argc = Len(args) + 1 /\ argc' = argc /\ Len(args) \in Nat
      /\ firstNonopt \in Nat /\ optind \in Nat /\ 1 <= firstNonopt /\ firstNonopt <= optind
      /\ 1 <= optind /\ ordering = "PERMUTE"
  <2>1. OptTypes BY DEF OptInv
  <2>2. QED BY <1>0, <2>1, OptNumbers DEF OptInv, Pointers, argc, OptTypes
<1>2. optind \in 1 .. Len(args) /\ optind' \in 1 .. argc BY <1>0, <1>1
<1>3. argv[optind] = args[optind] /\ args[optind] \in Word
  <2>1. optind \in optind .. Len(args) BY <1>2, <1>1
  <2>2. QED BY <1>0, <1>1, <1>2, <2>1, OptNumbers DEF OptInv, Unread
<1>4. OptTypes' BY <1>0, <1>1, <1>2 DEF OptTypes
<1>5. Pointers' BY <1>0, <1>1 DEF Pointers
<1>6. Unread'
  <2>1. \A c \in optind + 1 .. Len(args) : c \in optind .. Len(args) BY <1>1
  <2>2. QED BY <1>0, <2>1 DEF OptInv, Unread
<1>7. ~Inside /\ ~Inside' BY <1>0 DEF Inside
<1>8. InElement' BY <1>0, <1>7 DEF OptInv, InElement
<1> DEFINE later == MeaningFrom(args, ordering)[optind + 1]
<1>9. /\ later \in Reading /\ Left' = later
      /\ Left = [options |-> later.options, others |-> <<args[optind]>> \o later.others]
  <2>1. ~AfterDashes /\ ~AfterDashes' BY <1>0 DEF AfterDashes
  <2>2. optind \in 1 .. argc /\ optind # argc /\ IsNonoption(args[optind])
    BY <1>0, <1>1, <1>2, <1>3
  <2>3. /\ later \in Reading
        /\ MeaningFrom(args, ordering)[optind]
               = [options |-> later.options, others |-> <<args[optind]>> \o later.others]
    BY <1>1, <2>2, Reads, Zenon
  <2>4. QED BY <1>0, <2>1, <2>3 DEF Left
<1> HIDE DEF later
<1>10. Left'.options = Left.options BY <1>9
<1>11. OptionsSoFar' BY <1>0, <1>7, <1>10, QuietOptions DEF Given
<1>12. OthersSoFar'
  <2>1. Upto = optind /\ Upto' = optind + 1 BY <1>0 DEF Upto
  <2>2. \A c : Place(c) = c /\ Place(c)' = c BY <1>0 DEF Place
  <2>3. /\ EndsWith(Meaning.others, optind - firstNonopt, <<args[optind]>> \o later.others)
        /\ \A c \in firstNonopt .. optind - 1 : argv[c] = Meaning.others[c - firstNonopt + 1]
    BY <1>0, <1>9, <2>1, <2>2 DEF OptInv, OthersSoFar
  <2>4. later.others \in Seq(Word) /\ Meaning.others \in Seq(Word) /\ <<args[optind]>> \in Seq(Word)
        /\ Len(<<args[optind]>>) = 1 /\ <<args[optind]>>[1] = args[optind]
    BY <1>1, <1>3, <1>9, OptNumbers DEF Reading
  <2>5. optind - firstNonopt \in Int BY <1>1
  <2>6. /\ EndsWith(Meaning.others, (optind - firstNonopt) + 1, later.others)
        /\ Meaning.others[(optind - firstNonopt) + 1] = args[optind]
    <3> DEFINE now == <<args[optind]>>
    <3>1. 1 \in 1 .. Len(now) BY <2>4
    <3> HIDE DEF now
    <3>2. /\ EndsWith(Meaning.others, (optind - firstNonopt) + Len(now), later.others)
          /\ \A d \in 1 .. Len(now) : Meaning.others[(optind - firstNonopt) + d] = now[d]
      BY <2>3, <2>4, <2>5, EndsLater DEF now
    <3>3. QED BY <2>4, <3>1, <3>2 DEF now
  <2>7. ASSUME NEW c \in firstNonopt .. optind PROVE argv[c] = Meaning.others[c - firstNonopt + 1]
    <3>1. CASE c = optind BY <1>1, <1>3, <2>6, <3>1
    <3>2. CASE c # optind
      <4>1. c \in firstNonopt .. optind - 1 BY <1>1, <3>2
      <4>2. QED BY <2>3, <4>1
    <3>3. QED BY <3>1, <3>2
  <2>8. (optind + 1) - firstNonopt = (optind - firstNonopt) + 1 /\ (optind + 1) - 1 = optind
    BY <1>1
  <2>9. Meaning' = Meaning BY <1>0 DEF Meaning
  <2>10. EndsWith(Meaning.others, Upto - firstNonopt, Left.others)'
    BY <1>0, <1>9, <2>1, <2>6, <2>8, <2>9 DEF EndsWith
  <2>11. \A c \in firstNonopt' .. Upto' - 1 :
             argv'[Place(c)'] = Meaning.others'[c - firstNonopt' + 1]
    BY <1>0, <2>1, <2>2, <2>7, <2>8, <2>9
  <2>12. QED BY <2>10, <2>11 DEF OthersSoFar
<1>13. OptionsInOrder' BY <1>0 DEF OptionsInOrder
<1>14. QED BY <1>4, <1>5, <1>6, <1>8, <1>11, <1>12, <1>13 DEF OptInv

LEMMA SkipEndKeeps ==
    ASSUME OptInv, SkipEnd
    PROVE  OptInv'
<1>0. /\ UNCHANGED <<args, ordering, argv, optind, nextchar, firstNonopt, bottom, top, returned>>
      /\ optPc = "skip" /\ ~(optind < argc /\ IsNonoption(argv[optind]))
      /\ lastNonopt' = optind /\ optPc' = "dashes"
  BY DEF SkipEnd
<1>1. /\ OptTypes /\ argc = Len(args) + 1 /\ argc' = argc /\ Len(args) \in Nat
      /\ firstNonopt \in Nat /\ optind \in 1 .. argc /\ firstNonopt <= optind
      /\ ordering = "PERMUTE"
  <2>1. OptTypes BY DEF OptInv
  <2>2. QED BY <1>0, <2>1, OptNumbers DEF OptInv, Pointers, argc, OptTypes
<1>2. optind # argc => ~IsNonoption(args[optind])
  <2>1. SUFFICES ASSUME optind # argc PROVE ~IsNonoption(args[optind]) OBVIOUS
  <2>2. optind < argc /\ optind \in optind .. Len(args) BY <1>1, <2>1
  <2>3. argv[optind] = args[optind] BY <1>0, <2>2 DEF OptInv, Unread
  <2>4. QED BY <1>0, <2>2, <2>3
<1>3. OptTypes' BY <1>0, <1>1 DEF OptTypes
<1>4. Pointers' BY <1>0, <1>1, <1>2 DEF Pointers
<1>5. Unread' BY <1>0 DEF OptInv, Unread
<1>6. ~Inside /\ ~Inside' BY <1>0 DEF Inside
<1>7. InElement' BY <1>0, <1>6 DEF OptInv, InElement
<1>8. Left' = Left BY <1>0 DEF Left, AfterDashes
<1>9. OptionsSoFar' BY <1>0, <1>6, <1>8, QuietOptions DEF Given
<1>10. OthersSoFar'
  <2>1. Upto = optind /\ Upto' = optind BY <1>0 DEF Upto
  <2>2. \A c : Place(c) = c /\ Place(c)' = c BY <1>0 DEF Place
  <2>3. Meaning' = Meaning BY <1>0 DEF Meaning
  <2>4. OthersSoFar BY DEF OptInv
  <2>5. QED BY <1>0, <1>8, <2>1, <2>2, <2>3, <2>4 DEF OthersSoFar, EndsWith
<1>11. OptionsInOrder' BY <1>0 DEF OptionsInOrder
<1>12. QED BY <1>3, <1>4, <1>5, <1>7, <1>9, <1>10, <1>11 DEF OptInv

LEMMA DashesKeeps ==
    ASSUME OptInv, Dashes
    PROVE  OptInv'
<1>0. /\ UNCHANGED <<args, ordering, argv, nextchar, lastNonopt, returned>>
      /\ optPc = "dashes" /\ optind # argc /\ argv[optind] = <<"-", "-">>
      /\ optind' = optind + 1 /\ optPc' \in {"exchange", "rest"}
  BY DEF Dashes, EnterExchange
<1>1. /\ OptTypes /\ argc = Len(args) + 1 /\ argc' = argc /\ Len(args) \in Nat
      /\ firstNonopt \in Nat /\ lastNonopt \in Nat /\ bottom \in Nat /\ top \in Nat
      /\ optind \in 1 .. argc /\ 1 <= firstNonopt /\ firstNonopt <= lastNonopt
      /\ lastNonopt <= optind
  <2>1. OptTypes BY DEF OptInv
  <2>2. QED BY <1>0, <2>1, OptNumbers DEF OptInv, Pointers, argc, OptTypes
<1>2. optind \in 1 .. Len(args) /\ optind' \in 1 .. argc BY <1>0, <1>1
<1>3. args[optind] = <<"-", "-">>
  <2>1. optind \in optind .. Len(args) BY <1>1, <1>2
  <2>2. QED BY <1>0, <2>1 DEF OptInv, Unread
<1>4. \/ /\ optPc' = "exchange" /\ after' = "rest" /\ firstNonopt' = firstNonopt
         /\ bottom' = firstNonopt /\ top' = optind + 1
      \/ /\ optPc' = "rest" /\ firstNonopt = lastNonopt /\ firstNonopt' = optind + 1
         /\ UNCHANGED <<bottom, top, after>>
  <2>1. lastNonopt # optind + 1 BY <1>1
  <2>2. QED BY <2>1 DEF Dashes, EnterExchange
<1>5. firstNonopt' \in 1 .. argc /\ bottom' \in Nat /\ top' \in Nat
  <2>1. firstNonopt \in 1 .. argc BY <1>1 DEF OptTypes
  <2>2. QED BY <1>0, <1>1, <1>2, <1>4, <2>1
<1>6. OptTypes' BY <1>0, <1>1, <1>2, <1>5 DEF OptTypes
<1>7. Pointers'
  <2>1. CASE optPc' = "exchange" BY <1>0, <1>1, <1>4, <2>1 DEF Pointers
  <2>2. CASE optPc' = "rest" BY <1>0, <1>1, <1>4, <2>2 DEF Pointers
  <2>3. QED BY <1>0, <2>1, <2>2
<1>8. Unread'
  <2>1. \A c \in optind + 1 .. Len(args) : c \in optind .. Len(args) BY <1>1
  <2>2. QED BY <1>0, <2>1 DEF OptInv, Unread
<1>9. ~Inside /\ ~Inside' BY <1>0 DEF Inside
<1>10. InElement' BY <1>0, <1>9 DEF OptInv, InElement
<1>11. Left' = Left
  <2>1. ~AfterDashes /\ AfterDashes' BY <1>0, <1>4 DEF AfterDashes
  <2>2. Left' = [options |-> <<>>, others |-> SubSeq(args, optind + 1, Len(args))]
    BY <1>0, <2>1 DEF Left
  <2>3. MeaningFrom(args, ordering)[optind]
            = [options |-> <<>>, others |-> SubSeq(args, optind + 1, Len(args))]
    BY <1>0, <1>1, <1>3, Reads
  <2>4. QED BY <2>1, <2>2, <2>3 DEF Left
<1>12. OptionsSoFar' BY <1>0, <1>9, <1>11, QuietOptions DEF Given
<1>13. OthersSoFar'
  <2>1. /\ EndsWith(Meaning.others, lastNonopt - firstNonopt, Left.others)
        /\ \A c \in firstNonopt .. lastNonopt - 1 : argv[c] = Meaning.others[c - firstNonopt + 1]
    BY <1>0 DEF OptInv, OthersSoFar, Upto, Place
  <2>2. Meaning' = Meaning BY <1>0 DEF Meaning
  <2>3. CASE optPc' = "exchange"
    <3>1. Upto' = lastNonopt /\ firstNonopt' = firstNonopt BY <1>0, <1>4, <2>3 DEF Upto
    <3>2. \A c \in firstNonopt .. lastNonopt - 1 : Place(c)' = c
      <4>1. lastNonopt <= optind' /\ optind' \in Nat BY <1>0, <1>1
      <4>2. QED BY <1>0, <1>1, <1>4, <2>3, <4>1, ExchangeBegins
    <3>3. QED BY <1>0, <1>11, <2>1, <2>2, <3>1, <3>2 DEF OthersSoFar, EndsWith
  <2>4. CASE optPc' = "rest"
    <3>1. Upto' = optind + 1 /\ firstNonopt' = optind + 1 BY <1>0, <1>4, <2>4 DEF Upto
    <3>2. Upto' - firstNonopt' = lastNonopt - firstNonopt BY <1>1, <1>4, <2>4, <3>1
    <3>3. \A c \in firstNonopt' .. Upto' - 1 : FALSE BY <1>1, <3>1
    <3>4. QED BY <1>0, <1>11, <2>1, <2>2, <3>2, <3>3 DEF OthersSoFar, EndsWith
  <2>5. QED BY <1>0, <2>3, <2>4
<1>14. OptionsInOrder' BY <1>0 DEF OptionsInOrder
<1>15. QED BY <1>6, <1>7, <1>8, <1>10, <1>12, <1>13, <1>14 DEF OptInv

LEMMA NoDashesKeeps ==
    ASSUME OptInv, NoDashes
    PROVE  OptInv'
<1>0. /\ UNCHANGED <<args, ordering, argv, optind, nextchar, firstNonopt, lastNonopt,
                     bottom, top, after, returned>>
      /\ optPc = "dashes" /\ optPc' = "stop"
      /\ ~(optind # argc /\ argv[optind] = <<"-", "-">>)
  BY DEF NoDashes
<1>1. /\ OptTypes /\ argc = Len(args) + 1 /\ argc' = argc /\ Len(args) \in Nat
      /\ optind \in 1 .. argc /\ Pointers
  <2>1. OptTypes BY DEF OptInv
  <2>2. QED BY <1>0, <2>1, OptNumbers DEF OptInv, argc, OptTypes
<1>2. optind # argc => args[optind] # <<"-", "-">>
  <2>1. SUFFICES ASSUME optind # argc PROVE args[optind] # <<"-", "-">> OBVIOUS
  <2>2. optind \in optind .. Len(args) BY <1>1, <2>1
  <2>3. QED BY <1>0, <2>1, <2>2 DEF OptInv, Unread
<1>3. OptTypes' BY <1>0, <1>1 DEF OptTypes
<1>4. Pointers' BY <1>0, <1>1, <1>2 DEF Pointers
<1>5. Unread' BY <1>0 DEF OptInv, Unread
<1>6. ~Inside /\ ~Inside' BY <1>0 DEF Inside
<1>7. InElement' BY <1>0, <1>6 DEF OptInv, InElement
<1>8. Left' = Left BY <1>0 DEF Left, AfterDashes
<1>9. OptionsSoFar' BY <1>0, <1>6, <1>8, QuietOptions DEF Given
<1>10. OthersSoFar'
  <2>1. Upto = lastNonopt /\ Upto' = lastNonopt BY <1>0 DEF Upto
  <2>2. \A c : Place(c) = c /\ Place(c)' = c BY <1>0 DEF Place
  <2>3. Meaning' = Meaning BY <1>0 DEF Meaning
  <2>4. OthersSoFar BY DEF OptInv
  <2>5. QED BY <1>0, <1>8, <2>1, <2>2, <2>3, <2>4 DEF OthersSoFar, EndsWith
<1>11. OptionsInOrder' BY <1>0 DEF OptionsInOrder
<1>12. QED BY <1>3, <1>4, <1>5, <1>7, <1>9, <1>10, <1>11 DEF OptInv

LEMMA RestKeeps ==
    ASSUME OptInv, Rest
    PROVE  OptInv'
<1>0. /\ UNCHANGED <<args, ordering, argv, nextchar, firstNonopt, bottom, top, after, returned>>
      /\ optPc = "rest" /\ optPc' = "stop" /\ lastNonopt' = argc /\ optind' = argc
  BY DEF Rest
<1>1. /\ OptTypes /\ argc = Len(args) + 1 /\ argc' = argc /\ Len(args) \in Nat /\ args \in Seq(Word)
      /\ firstNonopt \in 1 .. argc /\ optind \in 1 .. argc /\ firstNonopt <= optind
  <2>1. OptTypes BY DEF OptInv
  <2>2. QED BY <1>0, <2>1, OptNumbers DEF OptInv, Pointers, argc, OptTypes
<1>2. argc \in 1 .. argc BY <1>1
<1>3. OptTypes' BY <1>0, <1>1, <1>2 DEF OptTypes
<1>4. Pointers' BY <1>0, <1>1 DEF Pointers
<1>5. Unread'
  <2>1. \A c \in argc .. Len(args) : FALSE BY <1>1
  <2>2. QED BY <1>0, <2>1 DEF Unread
<1>6. ~Inside /\ ~Inside' BY <1>0 DEF Inside
<1>7. InElement' BY <1>0, <1>6 DEF OptInv, InElement
<1> DEFINE rest == SubSeq(args, optind, Len(args))
<1>8. Left = [options |-> <<>>, others |-> rest] /\ Left' = [options |-> <<>>, others |-> <<>>]
  <2>1. AfterDashes /\ ~AfterDashes' BY <1>0 DEF AfterDashes
  <2>2. MeaningFrom(args, ordering)[argc] = [options |-> <<>>, others |-> <<>>]
    BY <1>1, <1>2, Reads
  <2>3. QED BY <1>0, <2>1, <2>2 DEF Left
<1>9. /\ rest \in Seq(Word) /\ Len(rest) = argc - optind
      /\ \A d \in 1 .. argc - optind : rest[d] = args[optind + d - 1]
  BY <1>1, PartOf
<1> HIDE DEF rest
<1>10. OptionsSoFar' BY <1>0, <1>6, <1>8, QuietOptions DEF Given
<1>11. OthersSoFar'
  <2>1. Upto = optind /\ Upto' = argc BY <1>0 DEF Upto
  <2>2. \A c : Place(c) = c /\ Place(c)' = c BY <1>0 DEF Place
  <2>3. /\ Len(Meaning.others) = (optind - firstNonopt) + Len(rest)
        /\ \A d \in 1 .. Len(rest) : Meaning.others[(optind - firstNonopt) + d] = rest[d]
        /\ \A c \in firstNonopt .. optind - 1 : argv[c] = Meaning.others[c - firstNonopt + 1]
    BY <1>0, <1>8, <2>1, <2>2 DEF OptInv, OthersSoFar, EndsWith
  <2>4. Len(Meaning.others) = argc - firstNonopt BY <1>1, <1>9, <2>3
  <2>5. ASSUME NEW c \in firstNonopt .. argc - 1 PROVE argv[c] = Meaning.others[c - firstNonopt + 1]
    <3>1. CASE c < optind
      <4>1. c \in firstNonopt .. optind - 1 BY <1>1, <3>1
      <4>2. QED BY <2>3, <4>1
    <3>2. CASE c >= optind
      <4>1. PICK d \in 1 .. Len(rest) : c = optind + d - 1
        <5>1. c - optind + 1 \in 1 .. Len(rest) /\ c = optind + (c - optind + 1) - 1
          BY <1>1, <1>9, <3>2
        <5>2. QED BY <5>1
      <4>2. c \in optind .. Len(args) BY <1>1, <3>2
      <4>3. argv[c] = args[c] BY <1>0, <4>2 DEF OptInv, Unread
      <4>4. (optind - firstNonopt) + d = c - firstNonopt + 1 BY <1>1, <4>1
      <4>5. QED BY <1>9, <2>3, <4>1, <4>3, <4>4
    <3>3. QED BY <1>1, <3>1, <3>2
  <2>6. Meaning' = Meaning BY <1>0 DEF Meaning
  <2>7. EndsWith(Meaning.others, Upto - firstNonopt, Left.others)'
    <3>1. Len(<<>>) = 0 /\ \A d \in 1 .. 0 : FALSE OBVIOUS
    <3>2. (argc - firstNonopt) + 0 = argc - firstNonopt BY <1>1
    <3>3. QED BY <1>0, <1>8, <2>1, <2>4, <2>6, <3>1, <3>2 DEF EndsWith
  <2>8. QED BY <1>0, <1>1, <2>1, <2>2, <2>5, <2>6, <2>7 DEF OthersSoFar
<1>12. OptionsInOrder' BY <1>0 DEF OptionsInOrder
<1>13. QED BY <1>3, <1>4, <1>5, <1>7, <1>10, <1>11, <1>12 DEF OptInv

\* Two sequences with the same elements.
LEMMA SameElements ==
    ASSUME NEW S, NEW s \in Seq(S), NEW u \in Seq(S), Len(s) = Len(u),
           \A d \in 1 .. Len(s) : s[d] = u[d]
    PROVE  s = u
<1>1. s = [d \in 1 .. Len(s) |-> s[d]] /\ u = [d \in 1 .. Len(u) |-> u[d]] OBVIOUS
<1>2. [d \in 1 .. Len(s) |-> s[d]] = [d \in 1 .. Len(u) |-> u[d]] OBVIOUS
<1>3. QED BY <1>1, <1>2

\* The options are at their end: what has been returned and what is left in
\* argv is what the arguments mean.
LEMMA StopKeeps ==
    ASSUME OptInv, Stop
    PROVE  OptInv'
<1>0. /\ UNCHANGED <<args, ordering, argv, nextchar, firstNonopt, lastNonopt, bottom, top,
                     after, returned>>
      /\ optPc = "stop" /\ optPc' = "done" /\ (optind # argc => IsNonoption(argv[optind]))
      /\ optind' = IF optind = argc /\ firstNonopt # lastNonopt THEN firstNonopt ELSE optind
  BY DEF Stop
<1>1. /\ OptTypes /\ argc = Len(args) + 1 /\ argc' = argc /\ Len(args) \in Nat /\ args \in Seq(Word)
      /\ firstNonopt \in 1 .. argc /\ lastNonopt \in 1 .. argc /\ optind \in 1 .. argc
      /\ firstNonopt <= lastNonopt /\ lastNonopt <= optind
      /\ firstNonopt = lastNonopt \/ lastNonopt = optind
      /\ ordering = "PERMUTE" /\ optind # argc => ~IsNonoption(args[optind])
      /\ optind # argc => args[optind] # <<"-", "-">>
      /\ ordering # "PERMUTE" /\ optind # argc => firstNonopt = lastNonopt
      /\ argv \in Seq(Word) /\ Len(argv) = Len(args)
      /\ returned \in Seq(Answer) /\ Len(returned) \in Nat
      /\ Meaning.options \in Seq(Answer) /\ Meaning.others \in Seq(Word)
  <2>1. OptTypes BY DEF OptInv
  <2>2. QED BY <1>0, <2>1, OptNumbers DEF OptInv, Pointers, argc, OptTypes
<1>2. OptTypes' /\ Pointers' /\ Unread' /\ InElement' /\ OptionsSoFar' /\ OthersSoFar'
  <2>1. OptTypes' BY <1>0, <1>1 DEF OptTypes
  <2>2. Pointers' BY <1>0 DEF Pointers
  <2>3. Unread' BY <1>0 DEF Unread
  <2>4. InElement' BY <1>0 DEF InElement, Inside
  <2>5. OptionsSoFar' /\ OthersSoFar' BY <1>0 DEF OptionsSoFar, OthersSoFar
  <2>6. QED BY <2>1, <2>2, <2>3, <2>4, <2>5
<1>3. Given = 0 /\ ~AfterDashes /\ Upto = lastNonopt /\ \A c : Place(c) = c
  BY <1>0 DEF Given, Inside, AfterDashes, Upto, Place
<1>4. /\ \A d \in 1 .. Len(returned) : returned[d] = Meaning.options[d]
      /\ Len(Meaning.options) = Len(returned) - 0 + Len(Left.options)
      /\ Len(Meaning.others) = (lastNonopt - firstNonopt) + Len(Left.others)
      /\ \A d \in 1 .. Len(Left.others) : Meaning.others[(lastNonopt - firstNonopt) + d] = Left.others[d]
      /\ \A c \in firstNonopt .. lastNonopt - 1 : argv[c] = Meaning.others[c - firstNonopt + 1]
  BY <1>0, <1>3 DEF OptInv, OptionsSoFar, OthersSoFar, EndsWith
<1>5. Left = [options |-> <<>>,
              others |-> IF optind = argc THEN <<>> ELSE SubSeq(args, optind, Len(args))]
      /\ (optind # argc => firstNonopt = lastNonopt)
  <2>1. Left = MeaningFrom(args, ordering)[optind] BY <1>3 DEF Left
  <2>2. CASE optind = argc BY <1>1, <2>1, <2>2, Reads
  <2>3. CASE optind # argc
    <3>1. optind \in optind .. Len(args) BY <1>1, <2>3
    <3>2. argv[optind] = args[optind] BY <1>0, <3>1 DEF OptInv, Unread
    <3>3. IsNonoption(args[optind]) /\ ordering # "PERMUTE" BY <1>0, <1>1, <2>3, <3>2
    <3>4. QED BY <1>1, <2>1, <2>3, <3>3, Reads
  <2>4. QED BY <2>2, <2>3
<1>6. returned = Meaning.options
  <2>1. Len(Meaning.options) = Len(returned) BY <1>1, <1>4, <1>5
  <2>2. QED BY <1>1, <1>4, <2>1, SameElements
<1>7. SubSeq(argv, optind', Len(argv)) = Meaning.others
  <2> DEFINE rest == SubSeq(argv, optind', Len(argv))
  <2>1. CASE optind = argc
    <3>1. \/ optind' = firstNonopt /\ lastNonopt = optind
          \/ optind' = argc /\ firstNonopt = lastNonopt
      <4>1. CASE firstNonopt = lastNonopt BY <1>0, <2>1, <4>1
      <4>2. CASE firstNonopt # lastNonopt
        <5>1. lastNonopt = optind BY <1>1, <4>2, Zenon
        <5>2. optind' = firstNonopt BY <1>0, <2>1, <4>2
        <5>3. QED BY <5>1, <5>2
      <4>3. QED BY <4>1, <4>2
    <3>2. Len(Meaning.others) = lastNonopt - firstNonopt BY <1>1, <1>4, <1>5, <2>1
    <3>3. optind' \in 1 .. Len(argv) + 1 BY <1>1, <2>1, <3>1
    <3>4. /\ rest \in Seq(Word) /\ Len(rest) = Len(argv) - optind' + 1
          /\ \A d \in 1 .. Len(argv) - optind' + 1 : rest[d] = argv[optind' + d - 1]
      BY <1>1, <3>3, PartOf
    <3> HIDE DEF rest
    <3>5. Len(rest) = Len(Meaning.others) BY <1>1, <2>1, <3>1, <3>2, <3>4
    <3>6. ASSUME NEW d \in 1 .. Len(rest) PROVE rest[d] = Meaning.others[d]
      <4>1. optind' = firstNonopt /\ lastNonopt = argc BY <1>1, <2>1, <3>1, <3>4, <3>6
      <4>2. PICK c \in firstNonopt .. lastNonopt - 1 : c = optind' + d - 1 /\ c - firstNonopt + 1 = d
        <5>1. /\ optind' + d - 1 \in firstNonopt .. lastNonopt - 1
              /\ (optind' + d - 1) - firstNonopt + 1 = d
          BY <1>1, <3>4, <4>1
        <5>2. QED BY <5>1
      <4>3. d \in 1 .. Len(argv) - optind' + 1 BY <3>4
      <4>4. QED BY <1>4, <3>4, <4>2, <4>3
    <3>7. rest = Meaning.others BY <1>1, <3>4, <3>5, <3>6, SameElements
    <3>8. QED BY <3>7 DEF rest
  <2>2. CASE optind # argc
    <3>1. optind' = optind /\ firstNonopt = lastNonopt BY <1>0, <1>5, <2>2
    <3>2. optind \in 1 .. Len(argv) + 1 /\ optind \in 1 .. Len(args) + 1 BY <1>1
    <3> DEFINE left == SubSeq(args, optind, Len(args))
    <3>3. /\ rest \in Seq(Word) /\ Len(rest) = Len(argv) - optind + 1
          /\ \A d \in 1 .. Len(argv) - optind + 1 : rest[d] = argv[optind + d - 1]
      BY <1>1, <3>1, <3>2, PartOf
    <3>4. /\ left \in Seq(Word) /\ Len(left) = Len(args) - optind + 1
          /\ \A d \in 1 .. Len(args) - optind + 1 : left[d] = args[optind + d - 1]
      BY <1>1, <3>2, PartOf
    <3>5. Left.others = left BY <1>5, <2>2
    <3> HIDE DEF rest, left
    <3>6. /\ Len(Meaning.others) = Len(left)
          /\ \A d \in 1 .. Len(left) : Meaning.others[d] = left[d]
      BY <1>1, <1>4, <3>1, <3>4, <3>5
    <3>7. ASSUME NEW d \in 1 .. Len(rest) PROVE rest[d] = Meaning.others[d]
      <4>1. /\ d \in 1 .. Len(argv) - optind + 1 /\ d \in 1 .. Len(args) - optind + 1
            /\ d \in 1 .. Len(left) /\ optind + d - 1 \in optind .. Len(args)
        BY <1>1, <3>3, <3>4
      <4>2. argv[optind + d - 1] = args[optind + d - 1] BY <1>0, <4>1 DEF OptInv, Unread
      <4>3. QED BY <3>3, <3>4, <3>6, <4>1, <4>2
    <3>8. Len(rest) = Len(Meaning.others) BY <1>1, <3>3, <3>4, <3>6
    <3>9. rest = Meaning.others BY <1>1, <3>3, <3>7, <3>8, SameElements
    <3>10. QED BY <3>9 DEF rest
  <2>3. QED BY <2>1, <2>2
<1>8. OptionsInOrder' BY <1>0, <1>6, <1>7 DEF OptionsInOrder, Meaning
<1>9. QED BY <1>2, <1>8 DEF OptInv

LEMMA ElementKeeps ==
    ASSUME OptInv, Element
    PROVE  OptInv'
<1>0. /\ UNCHANGED <<args, ordering, argv, optind, firstNonopt, lastNonopt, bottom, top,
                     after, returned>>
      /\ optPc = "stop" /\ optPc' = "decode" /\ optind # argc /\ ~IsNonoption(argv[optind])
      /\ nextchar' = SubSeq(argv[optind], IF argv[optind][2] = "-" THEN 3 ELSE 2, Len(argv[optind]))
  BY DEF Element
<1>1. /\ OptTypes /\ argc = Len(args) + 1 /\ argc' = argc /\ Len(args) \in Nat
      /\ optind \in 1 .. argc /\ Pointers
  <2>1. OptTypes BY DEF OptInv
  <2>2. QED BY <1>0, <2>1, OptNumbers DEF OptInv, argc, OptTypes
<1> DEFINE word == args[optind]
           first == IF word[2] = "-" THEN 3 ELSE 2
<1>2. optind \in 1 .. Len(args) /\ argv[optind] = word
  <2>1. optind \in 1 .. Len(args) /\ optind \in optind .. Len(args) BY <1>0, <1>1
  <2>2. QED BY <1>0, <2>1 DEF OptInv, Unread
<1>3. IsElement(args, optind) BY <1>0, <1>1, <1>2 DEF IsElement, Pointers
<1>4. word \in Word /\ Len(word) \in Nat /\ Len(word) > 1 /\ word[1] = "-" /\ word # <<"-", "-">>
  <2>1. word \in Word /\ Len(word) \in Nat BY <1>1, <1>2, OptNumbers
  <2>2. QED BY <1>3, <2>1 DEF IsElement, IsNonoption
<1>5. first \in 2 .. Len(word)
  <2>1. CASE word[2] = "-"
    <3> HIDE DEF word
    <3>1. word \in Seq(STRING) BY <1>4 DEF Word
    <3>2. Len(word) # 2 BY <1>4, <2>1, <3>1
    <3>3. first = 3 BY <2>1
    <3> HIDE DEF first
    <3>4. QED BY <1>4, <3>2, <3>3
  <2>2. CASE word[2] # "-" BY <1>4, <2>2
  <2>3. QED BY <2>1, <2>2
<1>6. nextchar' = SubSeq(word, first, Len(word)) BY <1>0, <1>2
<1>7. nextchar' \in Word /\ Len(nextchar') = Len(word) - first + 1
  <2> HIDE DEF first, word
  <2>1. word \in Seq(STRING) /\ first \in 1 .. Len(word) + 1 BY <1>4, <1>5 DEF Word
  <2>2. QED BY <1>6, <2>1, PartOf DEF Word
<1>8. Cursor' = first
  <2>1. Cursor' = Len(word) - Len(nextchar') + 1 BY <1>0 DEF Cursor
  <2> HIDE DEF first, word
  <2>2. QED BY <1>4, <1>5, <1>7, <2>1
<1>9. OptTypes' BY <1>0, <1>1, <1>7 DEF OptTypes
<1>10. Pointers' BY <1>0, <1>1 DEF Pointers
<1>11. Unread' BY <1>0 DEF OptInv, Unread
<1>12. ~Inside /\ Inside' BY <1>0 DEF Inside
<1>13. InElement'
  <2>1. args[optind]' = word /\ IsElement(args, optind)' BY <1>0, <1>3 DEF IsElement
  <2>2. word[2] = "-" => first = 3 OBVIOUS
  <2>3. word[2] # "-" => \A d \in 2 .. first - 1 : ~Taker(word, d)
    <3>1. first = 2 => \A d \in 2 .. first - 1 : FALSE
      <4> HIDE DEF first
      <4>1. QED OBVIOUS
    <3>2. QED BY <3>1
  <2> HIDE DEF first, word
  <2>4. QED BY <1>0, <1>5, <1>6, <1>8, <1>12, <2>1, <2>2, <2>3 DEF InElement
<1>14. Left' = Left BY <1>0 DEF Left, AfterDashes
<1>15. Given = 0 /\ Given' = 0
  <2>1. Given = 0 BY <1>12 DEF Given
  <2>2. Given' = IF word[2] # "-" THEN Cursor' - 2 ELSE 0 BY <1>0, <1>12 DEF Given
  <2>3. QED BY <1>8, <2>1, <2>2
<1>16. OptionsSoFar' BY <1>0, <1>14, <1>15, QuietOptions
<1>17. OthersSoFar'
  <2>1. Upto = lastNonopt /\ Upto' = lastNonopt BY <1>0 DEF Upto
  <2>2. \A c : Place(c) = c /\ Place(c)' = c BY <1>0 DEF Place
  <2>3. Meaning' = Meaning BY <1>0 DEF Meaning
  <2>4. OthersSoFar BY DEF OptInv
  <2>5. QED BY <1>0, <1>14, <2>1, <2>2, <2>3, <2>4 DEF OthersSoFar, EndsWith
<1>18. OptionsInOrder' BY <1>0 DEF OptionsInOrder
<1>19. QED BY <1>9, <1>10, <1>11, <1>13, <1>16, <1>17, <1>18 DEF OptInv

\* The last option of an element is returned, with the argument it takes.
LEMMA ReturnKeeps ==
    ASSUME OptInv, optPc = "decode", NEW answers \in Seq(Answer), NEW takes \in {0, 1},
           ElementMeaning(args, optind) = [options |-> answers, takes |-> takes],
           optind + 1 + takes <= argc, Len(answers) = Given + 1, NEW val, NEW optarg,
           answers[Given + 1] = Option(val, optarg), Return(val, optarg, optind + 1 + takes, <<>>)
    PROVE  OptInv'
<1>0. /\ UNCHANGED <<args, ordering, argv, firstNonopt, lastNonopt, bottom, top, after>>
      /\ returned' = Append(returned, Option(val, optarg))
      /\ optind' = optind + 1 + takes /\ nextchar' = <<>> /\ optPc' = "call"
  BY DEF Return
<1>1. /\ OptTypes /\ argc = Len(args) + 1 /\ argc' = argc /\ Len(args) \in Nat
      /\ optind \in 1 .. argc /\ Pointers /\ InElement /\ Inside
      /\ firstNonopt \in Nat /\ lastNonopt \in Nat
      /\ returned \in Seq(Answer) /\ Len(returned) \in Nat
      /\ Meaning.options \in Seq(Answer) /\ Meaning.others \in Seq(Word)
  <2>1. OptTypes BY DEF OptInv
  <2>2. QED BY <1>0, <2>1, OptNumbers DEF OptInv, argc, OptTypes, Inside
<1>2. IsElement(args, optind) BY <1>1 DEF InElement
<1>3. Given \in Nat /\ Len(answers) \in Nat
  <2>1. Len(answers) \in Nat OBVIOUS
  <2>2. Given = 0 \/ (Given = Cursor - 2 /\ Cursor \in 2 .. Len(args[optind]))
    BY <1>1 DEF Given, InElement
  <2>3. QED BY <2>1, <2>2
<1>4. Option(val, optarg) \in Answer
  <2>1. Given + 1 \in 1 .. Len(answers) BY <1>3
  <2>2. QED BY <2>1
<1> DEFINE given == Given
           later == MeaningFrom(args, ordering)[optind + 1 + takes]
           a1 == Option(val, optarg)
<1>5. /\ later \in Reading /\ Left' = later
      /\ Left = [options |-> answers \o later.options, others |-> later.others]
  <2>1. ~AfterDashes /\ ~AfterDashes' BY <1>0 DEF AfterDashes
  <2>2. /\ later \in Reading
        /\ MeaningFrom(args, ordering)[optind]
               = [options |-> answers \o later.options, others |-> later.others]
    BY <1>1, <1>2, ReadsElement, Zenon
  <2>3. QED BY <1>0, <2>1, <2>2 DEF Left
<1>6. later.options \in Seq(Answer) /\ later.others \in Seq(Word) BY <1>5 DEF Reading
<1> HIDE DEF later, given
<1>7. /\ returned' \in Seq(Answer) /\ Len(returned') = Len(returned) + 1
      /\ \A d \in 1 .. Len(returned) : returned'[d] = returned[d]
      /\ returned'[Len(returned) + 1] = a1
  <2> HIDE DEF a1
  <2>1. returned' = Append(returned, a1) /\ a1 \in Answer BY <1>0, <1>4 DEF a1
  <2>2. QED BY <1>1, <2>1
<1>8. OptTypes'
  <2>1. optind' \in 1 .. argc BY <1>0, <1>1
  <2>2. <<>> \in Word BY DEF Word
  <2>3. QED BY <1>0, <1>1, <1>7, <2>1, <2>2 DEF OptTypes
<1>9. Pointers'
  <2>1. /\ firstNonopt <= lastNonopt /\ lastNonopt <= optind
        /\ ordering # "PERMUTE" => firstNonopt = lastNonopt
    BY <1>1 DEF Pointers
  <2>2. lastNonopt <= optind' BY <1>0, <1>1, <2>1
  <2>3. QED BY <1>0, <2>1, <2>2 DEF Pointers
<1>10. Unread'
  <2>1. \A c \in optind' .. Len(args) : c \in optind .. Len(args) BY <1>0, <1>1
  <2>2. \A c \in optind .. Len(args) : argv[c] = args[c] BY DEF OptInv, Unread
  <2>3. QED BY <1>0, <2>1, <2>2 DEF Unread
<1>11. ~Inside' BY <1>0 DEF Inside
<1>12. InElement' BY <1>0, <1>11 DEF InElement
<1>13. OptionsSoFar'
  <2>1. /\ \A d \in 1 .. Len(returned) : returned[d] = Meaning.options[d]
        /\ EndsWith(Meaning.options, Len(returned) - given, answers \o later.options)
    BY <1>5 DEF OptInv, OptionsSoFar, given
  <2>2. given \in Nat /\ Len(answers) = given + 1 /\ answers[given + 1] = a1
    BY <1>3 DEF given
  <2>3. Len(returned) - given \in Int BY <1>1, <2>2
  <2>4. /\ EndsWith(Meaning.options, (Len(returned) - given) + Len(answers), later.options)
        /\ \A d \in 1 .. Len(answers) : Meaning.options[(Len(returned) - given) + d] = answers[d]
    BY <1>1, <1>6, <2>1, <2>3, EndsLater
  <2>5. (Len(returned) - given) + Len(answers) = Len(returned) + 1 BY <1>1, <2>2
  <2>6. Meaning.options[Len(returned) + 1] = a1
    <3>1. given + 1 \in 1 .. Len(answers)
          /\ (Len(returned) - given) + (given + 1) = Len(returned) + 1
      BY <1>1, <2>2
    <3>2. Meaning.options[(Len(returned) - given) + (given + 1)] = answers[given + 1]
      BY <2>4, <3>1
    <3>3. QED BY <2>2, <3>1, <3>2
  <2>7. \A d \in 1 .. Len(returned) + 1 : returned'[d] = Meaning.options[d]
    <3>1. \A d \in 1 .. Len(returned) + 1 : d \in 1 .. Len(returned) \/ d = Len(returned) + 1
      BY <1>1
    <3>2. QED BY <1>7, <2>1, <2>6, <3>1
  <2>8. Meaning' = Meaning BY <1>0 DEF Meaning
  <2>9. Given' = 0 BY <1>11 DEF Given
  <2>10. Len(returned') - 0 = Len(returned) + 1 BY <1>1, <1>7
  <2>11. EndsWith(Meaning.options, Len(returned) - Given, Left.options)'
    BY <1>5, <2>4, <2>5, <2>8, <2>9, <2>10 DEF EndsWith
  <2>12. QED BY <1>7, <2>7, <2>8, <2>11 DEF OptionsSoFar
<1>14. OthersSoFar'
  <2>1. Upto = lastNonopt /\ Upto' = lastNonopt BY <1>0 DEF Upto
  <2>2. \A c : Place(c) = c /\ Place(c)' = c BY <1>0 DEF Place
  <2>3. Meaning' = Meaning BY <1>0 DEF Meaning
  <2>4. OthersSoFar BY DEF OptInv
  <2>5. Left'.others = Left.others BY <1>5
  <2>6. QED BY <1>0, <2>1, <2>2, <2>3, <2>4, <2>5 DEF OthersSoFar, EndsWith
<1>15. OptionsInOrder' BY <1>0 DEF OptionsInOrder
<1>16. QED BY <1>8, <1>9, <1>10, <1>12, <1>13, <1>14, <1>15 DEF OptInv

LEMMA LongOptionKeeps ==
    ASSUME OptInv, LongOption
    PROVE  OptInv'
<1>1. /\ OptTypes /\ argc = Len(args) + 1 /\ Len(args) \in Nat /\ args \in CommandLines
      /\ optind \in 1 .. argc /\ InElement /\ optPc = "decode" /\ Inside
  <2>1. OptTypes BY DEF OptInv
  <2>2. QED BY <2>1, OptNumbers DEF OptInv, argc, OptTypes, Inside, LongOption
<1>2. IsElement(args, optind) /\ optind \in 1 .. Len(args)
  BY <1>1 DEF InElement, IsElement
<1>3. argv[optind] = args[optind]
  <2>1. optind \in optind .. Len(args) BY <1>2, <1>1
  <2>2. QED BY <1>1, <2>1 DEF OptInv, Unread
<1>4. args[optind][2] = "-" BY <1>3 DEF LongOption
<1>5. /\ args[optind] \in Word /\ Len(args[optind]) \in Nat /\ Len(args[optind]) >= 2
  <2>1. args[optind] \in Word /\ Len(args[optind]) \in Nat BY <1>1, <1>2, OptNumbers
  <2>2. QED BY <1>2, <2>1 DEF IsElement, IsNonoption
<1>6. nextchar = LongChars(args, optind) /\ Given = 0
  <2>1. Cursor = 3 /\ nextchar = SubSeq(args[optind], Cursor, Len(args[optind]))
    BY <1>1, <1>4 DEF InElement
  <2>2. QED BY <1>4, <2>1 DEF LongChars, Given
<1> DEFINE chars == LongChars(args, optind)
           nameend == NameOf(chars)
           found == Matched(LongName(args, optind))
<1>7. /\ found \subseteq LongOptions
      /\ \A o \in found : o.has_arg \in {"no", "required", "optional"} /\ o.val \in STRING
  BY MatchedIsMeant, OptionsAssumption
<1>8. ElementMeaning(args, optind) = LongMeaning(args, optind)
  BY <1>4 DEF ElementMeaning
<1>9. /\ found = {} => LongMeaning(args, optind) = Meant(Option("?", NoArg), 0)
      /\ \A o \in found : LongMeaning(args, optind) = LongAnswer(args, optind, o)
  BY <1>1, <1>2, LongMeans
<1>10. \/ found = {} /\ Return("?", NoArg, optind + 1, <<>>)
       \/ \E o \in found :
              CASE nameend # 0 ->
                       IF o.has_arg # "no"
                       THEN Return(o.val, SubSeq(chars, nameend + 1, Len(chars)),
                                   optind + 1, <<>>)
                       ELSE Return("?", NoArg, optind + 1, <<>>)
                [] nameend = 0 /\ o.has_arg = "required" ->
                       IF optind + 1 < argc
                       THEN Return(o.val, argv[optind + 1], optind + 2, <<>>)
                       ELSE Return("?", NoArg, optind + 1, <<>>)
                [] OTHER -> Return(o.val, NoArg, optind + 1, <<>>)
  BY <1>6, Zenon DEF LongOption, LongName
\* Which answer is returned.
<1>11. ASSUME NEW val, NEW optarg, NEW takes \in {0, 1}, Option(val, optarg) \in Answer,
              LongMeaning(args, optind) = Meant(Option(val, optarg), takes),
              optind + 1 + takes <= argc, Return(val, optarg, optind + 1 + takes, <<>>)
       PROVE  OptInv'
  <2> DEFINE a1 == Option(val, optarg)
             answers == <<a1>>
  <2>1. /\ answers \in Seq(Answer) /\ Len(answers) = 0 + 1 /\ answers[0 + 1] = a1
    <3>1. a1 \in Answer BY <1>11
    <3> HIDE DEF a1
    <3>2. QED BY <3>1
  <2>2. ElementMeaning(args, optind) = [options |-> answers, takes |-> takes]
    BY <1>8, <1>11 DEF Meant
  <2> HIDE DEF answers
  <2>3. Len(answers) = Given + 1 /\ answers[Given + 1] = Option(val, optarg)
    BY <1>6, <2>1
  <2>4. answers \in Seq(Answer) BY <2>1
  <2>5. QED BY <1>1, <1>11, <2>2, <2>3, <2>4, ReturnKeeps
<1>12. optind + 1 + 0 = optind + 1 /\ optind + 1 + 0 <= argc BY <1>1, <1>2
<1>13. Option("?", NoArg) \in Answer BY OptionTypes
<1> HIDE DEF found, nameend, chars
<1>14. CASE found = {} /\ Return("?", NoArg, optind + 1, <<>>)
  BY <1>9, <1>11, <1>12, <1>13, <1>14
<1>15. ASSUME NEW o \in found, nameend # 0, o.has_arg # "no",
              Return(o.val, SubSeq(chars, nameend + 1, Len(chars)), optind + 1, <<>>)
       PROVE  OptInv'
  <2>1. SubSeq(chars, nameend + 1, Len(chars)) \in Word
    BY <1>1, <1>2, <1>5, <1>15, LongTypes DEF nameend, chars
  <2>2. Option(o.val, SubSeq(chars, nameend + 1, Len(chars))) \in Answer
    BY <1>7, <2>1, OptionTypes
  <2>3. LongMeaning(args, optind) = Meant(Option(o.val, SubSeq(chars, nameend + 1, Len(chars))), 0)
    BY <1>9, <1>15 DEF LongAnswer, nameend, chars
  <2>4. QED BY <1>11, <1>12, <1>15, <2>2, <2>3
<1>16. ASSUME NEW o \in found, nameend # 0, o.has_arg = "no", Return("?", NoArg, optind + 1, <<>>)
       PROVE  OptInv'
  <2>1. LongMeaning(args, optind) = Meant(Option("?", NoArg), 0)
    BY <1>9, <1>16 DEF LongAnswer, nameend, chars
  <2>2. QED BY <1>11, <1>12, <1>13, <1>16, <2>1
<1>17. ASSUME NEW o \in found, nameend = 0, o.has_arg = "required", optind + 1 < argc,
              Return(o.val, argv[optind + 1], optind + 2, <<>>)
       PROVE  OptInv'
  <2>1. /\ optind + 1 \in 1 .. Len(args) /\ optind + 1 \in optind .. Len(args) /\ optind < Len(args)
        /\ optind + 1 + 1 = optind + 2 /\ optind + 1 + 1 <= argc
    BY <1>1, <1>2, <1>17
  <2>2. argv[optind + 1] = args[optind + 1] BY <1>1, <2>1 DEF OptInv, Unread
  <2>3. args[optind + 1] \in Word BY <1>1, <2>1, OptNumbers
  <2>4. Option(o.val, args[optind + 1]) \in Answer BY <1>7, <2>3, OptionTypes
  <2>5. LongMeaning(args, optind) = Meant(Option(o.val, args[optind + 1]), 1)
    BY <1>9, <1>17, <2>1 DEF LongAnswer, nameend, chars
  <2>6. QED BY <1>11, <1>17, <2>1, <2>2, <2>4, <2>5
<1>18. ASSUME NEW o \in found, nameend = 0, o.has_arg = "required", ~(optind + 1 < argc),
              Return("?", NoArg, optind + 1, <<>>)
       PROVE  OptInv'
  <2>1. ~(optind < Len(args)) BY <1>1, <1>2, <1>18
  <2>2. LongMeaning(args, optind) = Meant(Option("?", NoArg), 0)
    BY <1>9, <1>18, <2>1 DEF LongAnswer, nameend, chars
  <2>3. QED BY <1>11, <1>12, <1>13, <1>18, <2>2
<1>19. ASSUME NEW o \in found, nameend = 0, o.has_arg # "required",
              Return(o.val, NoArg, optind + 1, <<>>)
       PROVE  OptInv'
  <2>1. Option(o.val, NoArg) \in Answer BY <1>7, OptionTypes
  <2>2. LongMeaning(args, optind) = Meant(Option(o.val, NoArg), 0)
    BY <1>9, <1>19 DEF LongAnswer, nameend, chars
  <2>3. QED BY <1>11, <1>12, <1>19, <2>1, <2>2
<1>20. CASE \E o \in found : TRUE /\ ~(found = {} /\ Return("?", NoArg, optind + 1, <<>>))
  <2>1. PICK o \in found :
            CASE nameend # 0 ->
                     IF o.has_arg # "no"
                     THEN Return(o.val, SubSeq(chars, nameend + 1, Len(chars)),
                                 optind + 1, <<>>)
                     ELSE Return("?", NoArg, optind + 1, <<>>)
              [] nameend = 0 /\ o.has_arg = "required" ->
                     IF optind + 1 < argc
                     THEN Return(o.val, argv[optind + 1], optind + 2, <<>>)
                     ELSE Return("?", NoArg, optind + 1, <<>>)
              [] OTHER -> Return(o.val, NoArg, optind + 1, <<>>)
    BY <1>10, <1>20, Zenon DEF found, nameend, chars
  <2>2. CASE nameend # 0
    <3>1. IF o.has_arg # "no"
          THEN Return(o.val, SubSeq(chars, nameend + 1, Len(chars)), optind + 1, <<>>)
          ELSE Return("?", NoArg, optind + 1, <<>>)
      BY <2>1, <2>2, Zenon
    <3>2. QED BY <1>15, <1>16, <2>2, <3>1, Zenon
  <2>3. CASE nameend = 0 /\ o.has_arg = "required"
    <3>1. IF optind + 1 < argc
          THEN Return(o.val, argv[optind + 1], optind + 2, <<>>)
          ELSE Return("?", NoArg, optind + 1, <<>>)
      BY <2>1, <2>3, Zenon
    <3>2. QED BY <1>17, <1>18, <2>3, <3>1, Zenon
  <2>4. CASE nameend = 0 /\ o.has_arg # "required"
    <3>1. Return(o.val, NoArg, optind + 1, <<>>) BY <2>1, <2>4, Zenon
    <3>2. QED BY <1>19, <2>4, <3>1, Zenon
  <2>5. QED BY <2>2, <2>3, <2>4, Zenon
<1>21. QED BY <1>10, <1>14, <1>20, Zenon DEF found, nameend, chars

\* A short option without an argument is returned, and others follow it.
LEMMA ReturnWithinKeeps ==
    ASSUME OptInv, optPc = "decode", args[optind][2] # "-", Cursor < Len(args[optind]),
           ~Taker(args[optind], Cursor), NEW answers \in Seq(Answer), NEW takes \in {0, 1},
           ElementMeaning(args, optind) = [options |-> answers, takes |-> takes],
           optind + 1 + takes <= argc, Given + 1 <= Len(answers), NEW val, NEW optarg,
           answers[Given + 1] = Option(val, optarg),
           Return(val, optarg, optind, SubSeq(args[optind], Cursor + 1, Len(args[optind])))
    PROVE  OptInv'
<1> DEFINE word == args[optind]
           cursor == Cursor
           chars == SubSeq(word, cursor + 1, Len(word))
           given == cursor - 2
           a1 == Option(val, optarg)
<1>0. /\ UNCHANGED <<args, ordering, argv, optind, firstNonopt, lastNonopt, bottom, top, after>>
      /\ returned' = Append(returned, Option(val, optarg))
      /\ nextchar' = chars /\ optPc' = "call"
  BY DEF Return
<1>1. /\ OptTypes /\ argc = Len(args) + 1 /\ argc' = argc /\ Len(args) \in Nat
      /\ optind \in 1 .. argc /\ Pointers /\ InElement /\ Inside
      /\ returned \in Seq(Answer) /\ Len(returned) \in Nat
      /\ Meaning.options \in Seq(Answer)
  <2>1. OptTypes BY DEF OptInv
  <2>2. QED BY <1>0, <2>1, OptNumbers DEF OptInv, argc, OptTypes, Inside
<1>2. IsElement(args, optind) /\ optind \in 1 .. Len(args)
  BY <1>1 DEF InElement, IsElement
<1>3. /\ word \in Word /\ Len(word) \in Nat /\ cursor \in 2 .. Len(word) - 1
      /\ \A d \in 2 .. cursor - 1 : ~Taker(word, d)
  <2>1. word \in Word /\ Len(word) \in Nat BY <1>1, <1>2, OptNumbers
  <2>2. Cursor \in 2 .. Len(args[optind]) /\ \A d \in 2 .. Cursor - 1 : ~Taker(args[optind], d)
    BY <1>1 DEF InElement
  <2> DEFINE size == Len(word)
  <2>3. cursor \in 2 .. size /\ cursor < size /\ size \in Nat BY <2>1, <2>2
  <2> HIDE DEF cursor, size
  <2>4. cursor \in 2 .. size - 1 BY <2>3
  <2>5. QED BY <2>1, <2>2, <2>4 DEF cursor, size
<1>4. Given = given /\ given \in Nat /\ Len(answers) \in Nat
  <2>1. Given = given BY <1>1 DEF Given
  <2>2. given \in Nat
    <3> HIDE DEF cursor
    <3>1. QED BY <1>3
  <2>3. QED BY <2>1, <2>2
<1>5. chars \in Word /\ Len(chars) = Len(word) - cursor
  <2> HIDE DEF word, cursor
  <2>1. word \in Seq(STRING) /\ cursor + 1 \in 1 .. Len(word) + 1 BY <1>3 DEF Word
  <2>2. chars \in Seq(STRING) /\ Len(chars) = Len(word) - (cursor + 1) + 1
    BY <2>1, PartOf
  <2>3. Len(word) - (cursor + 1) + 1 = Len(word) - cursor BY <1>3
  <2>4. QED BY <2>2, <2>3 DEF Word
<1>6. Inside'
  <2> HIDE DEF word, cursor, chars
  <2>1. Len(chars) # 0 BY <1>3, <1>5
  <2>2. chars # <<>> BY <2>1
  <2>3. QED BY <1>0, <2>2 DEF Inside
<1>7. Cursor' = cursor + 1
  <2>1. Cursor' = Len(word) - Len(nextchar') + 1 BY <1>0 DEF Cursor
  <2>2. Len(nextchar') = Len(word) - cursor BY <1>0, <1>5
  <2> HIDE DEF word, cursor, chars
  <2>3. QED BY <1>3, <2>1, <2>2
<1>8. Given' = given + 1
  <2>1. Given' = Cursor' - 2 BY <1>0, <1>6 DEF Given
  <2> HIDE DEF word, cursor, chars
  <2>2. QED BY <1>3, <1>7, <2>1
<1>9. Option(val, optarg) \in Answer
  <2>1. given + 1 \in 1 .. Len(answers) /\ answers[given + 1] = Option(val, optarg)
    <3>1. given + 1 <= Len(answers) /\ answers[given + 1] = Option(val, optarg) BY <1>4
    <3> HIDE DEF given
    <3>2. QED BY <1>4, <3>1
  <2> HIDE DEF given
  <2>2. QED BY <2>1
<1>10. /\ returned' \in Seq(Answer) /\ Len(returned') = Len(returned) + 1
       /\ \A d \in 1 .. Len(returned) : returned'[d] = returned[d]
       /\ returned'[Len(returned) + 1] = a1
  <2> HIDE DEF a1
  <2>1. returned' = Append(returned, a1) /\ a1 \in Answer BY <1>0, <1>9 DEF a1
  <2>2. QED BY <1>1, <2>1
<1>11. OptTypes' BY <1>0, <1>1, <1>5, <1>10 DEF OptTypes
<1>12. Pointers' BY <1>0, <1>1 DEF Pointers
<1>13. Unread' BY <1>0 DEF OptInv, Unread
<1>14. InElement'
  <2>1. args[optind]' = word /\ IsElement(args, optind)' BY <1>0, <1>2 DEF IsElement
  <2>2. word[2] # "-" /\ ~Taker(word, cursor) OBVIOUS
  <2> HIDE DEF word, cursor
  <2>3. cursor + 1 \in 2 .. Len(word) BY <1>3
  <2>4. \A d \in 2 .. (cursor + 1) - 1 : ~Taker(word, d)
    <3>1. \A d \in 2 .. (cursor + 1) - 1 : d \in 2 .. cursor - 1 \/ d = cursor BY <1>3
    <3>2. QED BY <1>3, <2>2, <3>1
  <2>5. QED BY <1>0, <1>6, <1>7, <2>1, <2>2, <2>3, <2>4 DEF InElement
<1> DEFINE later == MeaningFrom(args, ordering)[optind + 1 + takes]
<1>15. /\ later \in Reading
       /\ Left = [options |-> answers \o later.options, others |-> later.others]
       /\ Left' = Left
  <2>1. ~AfterDashes /\ ~AfterDashes' BY <1>0 DEF AfterDashes
  <2>2. /\ later \in Reading
        /\ MeaningFrom(args, ordering)[optind]
               = [options |-> answers \o later.options, others |-> later.others]
    BY <1>1, <1>2, ReadsElement, Zenon
  <2>3. QED BY <1>0, <2>1, <2>2 DEF Left
<1>16. later.options \in Seq(Answer) BY <1>15 DEF Reading
<1> HIDE DEF later
<1>17. OptionsSoFar'
  <2>1. /\ \A d \in 1 .. Len(returned) : returned[d] = Meaning.options[d]
        /\ EndsWith(Meaning.options, Len(returned) - given, Left.options)
    BY <1>4 DEF OptInv, OptionsSoFar
  <2>2. given + 1 <= Len(answers) /\ answers[given + 1] = a1 BY <1>4
  <2> HIDE DEF given, a1
  <2>3. Len(returned) - given \in Int BY <1>1, <1>4
  <2>4. \A d \in 1 .. Len(answers) : Meaning.options[(Len(returned) - given) + d] = answers[d]
    BY <1>1, <1>15, <1>16, <2>1, <2>3, EndsLater
  <2>5. Meaning.options[Len(returned) + 1] = a1
    <3>0. (Len(returned) - given) + (given + 1) = Len(returned) + 1
      <4>1. Len(returned) \in Nat /\ given \in Nat BY <1>1, <1>4
      <4>2. QED BY <4>1
    <3>1. given + 1 \in 1 .. Len(answers)
      <4>1. Len(answers) \in Nat /\ given \in Nat /\ given + 1 <= Len(answers)
        BY <1>4, <2>2
      <4>2. QED BY <4>1
    <3>2. Meaning.options[(Len(returned) - given) + (given + 1)] = answers[given + 1]
      BY <2>4, <3>1
    <3>3. QED BY <2>2, <3>0, <3>2
  <2>6. \A d \in 1 .. Len(returned) + 1 : returned'[d] = Meaning.options[d]
    <3>1. \A d \in 1 .. Len(returned) + 1 : d \in 1 .. Len(returned) \/ d = Len(returned) + 1
      BY <1>1
    <3>2. QED BY <1>10, <2>1, <2>5, <3>1
  <2>7. Meaning' = Meaning BY <1>0 DEF Meaning
  <2>8. Len(returned') - (given + 1) = Len(returned) - given BY <1>1, <1>4, <1>10
  <2>9. EndsWith(Meaning.options, Len(returned) - Given, Left.options)'
    BY <1>8, <1>15, <2>1, <2>7, <2>8 DEF EndsWith
  <2>10. QED BY <1>10, <2>6, <2>7, <2>9 DEF OptionsSoFar
<1>18. OthersSoFar'
  <2>1. Upto = lastNonopt /\ Upto' = lastNonopt BY <1>0 DEF Upto
  <2>2. \A c : Place(c) = c /\ Place(c)' = c BY <1>0 DEF Place
  <2>3. Meaning' = Meaning BY <1>0 DEF Meaning
  <2>4. OthersSoFar BY DEF OptInv
  <2>5. Left'.others = Left.others BY <1>15
  <2>6. QED BY <1>0, <2>1, <2>2, <2>3, <2>4, <2>5 DEF OthersSoFar, EndsWith
<1>19. OptionsInOrder' BY <1>0 DEF OptionsInOrder
<1>20. QED BY <1>11, <1>12, <1>13, <1>14, <1>17, <1>18, <1>19 DEF OptInv

LEMMA ShortOptionKeeps ==
    ASSUME OptInv, ShortOption
    PROVE  OptInv'
<1> DEFINE word == args[optind]
           cursor == Cursor
           given == cursor - 2
           size == Len(word)
<1>1. /\ OptTypes /\ argc = Len(args) + 1 /\ Len(args) \in Nat /\ args \in CommandLines
      /\ optind \in 1 .. argc /\ InElement /\ optPc = "decode" /\ Inside
  <2>1. OptTypes BY DEF OptInv
  <2>2. QED BY <2>1, OptNumbers DEF OptInv, argc, OptTypes, Inside, ShortOption
<1>2. IsElement(args, optind) /\ optind \in 1 .. Len(args)
  BY <1>1 DEF InElement, IsElement
<1>3. argv[optind] = word
  <2>1. optind \in optind .. Len(args) BY <1>2, <1>1
  <2>2. QED BY <1>1, <2>1 DEF OptInv, Unread
<1>4. word[2] # "-" BY <1>3 DEF ShortOption
<1>5. /\ word \in Word /\ size \in Nat /\ size >= 2
  <2>1. word \in Word /\ Len(word) \in Nat BY <1>1, <1>2, OptNumbers
  <2>2. QED BY <1>2, <2>1 DEF IsElement, IsNonoption
<1>6. /\ cursor \in 2 .. size /\ nextchar = SubSeq(word, cursor, size)
      /\ \A d \in 2 .. cursor - 1 : ~Taker(word, d) /\ Given = given
  BY <1>1, <1>4 DEF InElement, Given
<1>7. Given = given /\ given \in Nat
  <2>1. Given = given BY <1>1, <1>4 DEF Given
  <2> HIDE DEF cursor, size
  <2>2. QED BY <1>6, <2>1
<1> DEFINE c1 == word[cursor]
           rest == SubSeq(word, cursor + 1, size)
           next == IF rest = <<>> THEN optind + 1 ELSE optind
<1>8. /\ Head(nextchar) = c1 /\ Tail(nextchar) = rest
      /\ (rest = <<>> <=> cursor = size) /\ rest \in Word /\ c1 \in STRING
  <2> HIDE DEF word, cursor, rest
  <2>1. word \in Seq(STRING) /\ cursor \in 2 .. Len(word) /\ Len(word) \in Nat
    BY <1>5, <1>6 DEF Word
  <2>2. cursor \in 1 .. Len(word) + 1 /\ cursor + 1 \in 1 .. Len(word) + 1 BY <2>1
  <2>3. rest \in Seq(STRING) /\ Len(rest) = Len(word) - (cursor + 1) + 1
        /\ \A d \in 1 .. Len(word) - (cursor + 1) + 1 : rest[d] = word[(cursor + 1) + d - 1]
    BY <2>1, <2>2, PartOf DEF rest
  <2>4. nextchar \in Seq(STRING) /\ Len(nextchar) = Len(word) - cursor + 1
        /\ \A d \in 1 .. Len(word) - cursor + 1 : nextchar[d] = word[cursor + d - 1]
    BY <1>6, <2>1, <2>2, PartOf
  <2>5. Len(nextchar) >= 1 BY <2>1, <2>4
  <2>6. Head(nextchar) = word[cursor]
    <3>1. 1 \in 1 .. Len(word) - cursor + 1 /\ cursor + 1 - 1 = cursor BY <2>1
    <3>2. Head(nextchar) = nextchar[1] BY <2>4, <2>5
    <3>3. QED BY <2>4, <3>1, <3>2
  <2>7. Tail(nextchar) = rest
    <3>1. Tail(nextchar) \in Seq(STRING) /\ Len(Tail(nextchar)) = Len(nextchar) - 1
          /\ \A d \in 1 .. Len(nextchar) - 1 : Tail(nextchar)[d] = nextchar[d + 1]
      <4>1. nextchar # <<>> BY <2>4, <2>5
      <4>2. QED BY <2>4, <2>5, <4>1
    <3>2. Len(Tail(nextchar)) = Len(rest)
      <4>1. /\ Len(Tail(nextchar)) = (Len(word) - cursor + 1) - 1
            /\ Len(rest) = Len(word) - (cursor + 1) + 1
        BY <2>3, <2>4, <3>1, Zenon
      <4>2. (Len(word) - cursor + 1) - 1 = Len(word) - (cursor + 1) + 1 BY <2>1
      <4>3. QED BY <4>1, <4>2
    <3>3. \A d \in 1 .. Len(Tail(nextchar)) : Tail(nextchar)[d] = rest[d]
      <4>1. TAKE d \in 1 .. Len(Tail(nextchar))
      <4>2. /\ d \in 1 .. Len(nextchar) - 1 /\ d + 1 \in 1 .. Len(word) - cursor + 1
            /\ d \in 1 .. Len(word) - (cursor + 1) + 1
            /\ cursor + (d + 1) - 1 = (cursor + 1) + d - 1
        BY <2>1, <2>4, <3>1
      <4>3. QED BY <2>3, <2>4, <3>1, <4>2
    <3>4. QED BY <2>3, <3>1, <3>2, <3>3, SameElements
  <2>8. rest = <<>> <=> cursor = Len(word)
    <3>1. rest = <<>> <=> Len(rest) = 0 BY <2>3
    <3>2. QED BY <2>1, <2>3, <3>1
  <2>9. word[cursor] \in STRING BY <2>1
  <2>10. QED BY <2>3, <2>6, <2>7, <2>8, <2>9 DEF Word
<1> DEFINE option == {o \in ShortOptions : o.val = c1}
<1>9. \/ option = {} /\ Return("?", NoArg, next, rest)
      \/ \E o \in option : IF o.has_arg = "no" THEN Return(c1, NoArg, next, rest)
                           ELSE ShortArgument(c1, o.has_arg, rest, next)
  BY <1>8, Zenon DEF ShortOption
<1>10. PICK e1 : EndsAt(word, e1) BY <1>5, LastExists
<1> DEFINE answer(d) == ShortAnswer(args, optind, e1, d)
           answers == [d \in 1 .. e1 - 1 |-> answer(d + 1)]
           takes == ShortTakes(args, optind, e1)
<1>11. /\ ElementMeaning(args, optind) = [options |-> answers, takes |-> takes]
       /\ takes \in {0, 1} /\ optind + 1 + takes <= argc
       /\ answers \in Seq(Answer) /\ Len(answers) = e1 - 1
       /\ cursor <= e1 => answers[given + 1] = answer(cursor) /\ answer(cursor) \in Answer
  <2>1. ElementMeaning(args, optind) = [options |-> answers, takes |-> takes]
    BY <1>1, <1>2, <1>4, <1>10, ShortMeans DEF ElementMeaning
  <2>2. /\ \A d \in 2 .. e1 : answer(d) \in Answer
        /\ takes \in {0, 1} /\ optind + 1 + takes <= Len(args) + 1
    BY <1>1, <1>2, <1>10, ShortTypes
  <2> HIDE DEF answer, takes, cursor, word, size
  <2>3. e1 \in Nat /\ e1 >= 2 BY <1>5, <1>10 DEF EndsAt, size
  <2>4. \A d \in 1 .. e1 - 1 : d + 1 \in 2 .. e1 BY <2>3
  <2>5. answers \in [1 .. e1 - 1 -> Answer] BY <2>2, <2>4
  <2>6. e1 - 1 \in Nat BY <2>3
  <2>7. cursor <= e1 => /\ given + 1 \in 1 .. e1 - 1 /\ (given + 1) + 1 = cursor
                        /\ cursor \in 2 .. e1
    BY <1>6, <1>5, <2>3
  <2>8. cursor <= e1 => answers[given + 1] = answer(cursor) /\ answer(cursor) \in Answer
    BY <2>2, <2>7
  <2> HIDE DEF answers
  <2>9. answers \in Seq(Answer) /\ Len(answers) = e1 - 1 BY <2>5, <2>6
  <2>10. QED BY <1>1, <2>1, <2>2, <2>8, <2>9
<1> HIDE DEF answers, takes
<1>12. /\ cursor <= e1 /\ e1 <= size /\ e1 \in Nat
       /\ cursor < e1 => ~Taker(word, cursor) /\ cursor < size
       /\ cursor = e1 => cursor = size \/ Taker(word, cursor)
  <2> HIDE DEF cursor, word, size
  <2>1. /\ e1 \in 2 .. size /\ (e1 = size \/ Taker(word, e1))
        /\ \A d \in 2 .. e1 - 1 : ~Taker(word, d)
    BY <1>10 DEF EndsAt, size
  <2>2. cursor <= e1
    <3>1. SUFFICES ASSUME e1 < cursor PROVE FALSE BY <1>5, <1>6, <2>1
    <3>2. e1 \in 2 .. cursor - 1 /\ e1 # size BY <1>5, <1>6, <2>1, <3>1
    <3>3. QED BY <1>6, <2>1, <3>2
  <2>3. cursor < e1 => cursor \in 2 .. e1 - 1 /\ cursor < size BY <1>5, <1>6, <2>1
  <2>4. QED BY <1>5, <2>1, <2>2, <2>3
<1>13. answers[given + 1] = answer(cursor) /\ given + 1 <= Len(answers)
       /\ (cursor = e1 => Len(answers) = given + 1)
  <2> HIDE DEF cursor, word, size, answer
  <2>1. QED BY <1>6, <1>5, <1>11, <1>12
\* The value the answer has.
<1>14. answer(cursor) =
           CASE HasArg(c1) = "?" -> Option("?", NoArg)
             [] HasArg(c1) = "no" -> Option(c1, NoArg)
             [] HasArg(c1) = "optional" \/ (HasArg(c1) = "required" /\ e1 < size) ->
                    Option(c1, SubSeq(word, e1 + 1, size))
             [] HasArg(c1) = "required" /\ e1 = size ->
                    IF optind < Len(args) THEN Option(c1, args[optind + 1]) ELSE Option("?", NoArg)
  BY Zenon DEF ShortAnswer
<1>15. takes = IF HasArg(word[e1]) = "required" /\ e1 = size /\ optind < Len(args) THEN 1 ELSE 0
  BY Zenon DEF ShortTakes, takes
<1>16. /\ option = {} => HasArg(c1) = "?"
       /\ \A o \in option : HasArg(c1) = o.has_arg /\ o.has_arg \in {"no", "required", "optional"}
  BY HasArgs
\* The two ways to return.
<1>17. ASSUME NEW val, NEW optarg, cursor < size, ~Taker(word, cursor),
              answer(cursor) = Option(val, optarg), Return(val, optarg, optind, rest)
       PROVE  OptInv'
  <2>1. /\ args[optind][2] # "-" /\ Cursor < Len(args[optind]) /\ ~Taker(args[optind], Cursor)
        /\ Return(val, optarg, optind, SubSeq(args[optind], Cursor + 1, Len(args[optind])))
    BY <1>4, <1>17
  <2>2. Given + 1 <= Len(answers) /\ answers[Given + 1] = Option(val, optarg)
    BY <1>7, <1>13, <1>17
  <2> HIDE DEF word, cursor, rest, answer, given, size, c1
  <2>3. QED BY <1>1, <1>11, <2>1, <2>2, ReturnWithinKeeps
<1>18. ASSUME NEW val, NEW optarg, cursor = e1,
              answer(cursor) = Option(val, optarg), Return(val, optarg, optind + 1 + takes, <<>>)
       PROVE  OptInv'
  <2>1. Len(answers) = Given + 1 /\ answers[Given + 1] = Option(val, optarg)
    BY <1>7, <1>13, <1>18
  <2> HIDE DEF word, cursor, rest, answer, given, size, c1
  <2>2. QED BY <1>1, <1>11, <1>18, <2>1, ReturnKeeps
<1> HIDE DEF answer
<1>19. next = IF cursor = size THEN optind + 1 ELSE optind BY <1>8
<1>20. Taker(word, cursor) <=> HasArg(c1) \in {"required", "optional"} BY DEF Taker
<1>21. optind + 1 + 0 = optind + 1 /\ optind + 1 + 1 = optind + 2 BY <1>1
<1> HIDE DEF word, cursor, rest, c1, size, option, next
\* An option without an argument.
<1>22. ASSUME NEW val, HasArg(c1) \notin {"required", "optional"},
              answer(cursor) = Option(val, NoArg), Return(val, NoArg, next, rest)
       PROVE  OptInv'
  <2>1. CASE cursor = size
    <3>1. cursor = e1 BY <1>5, <1>12, <2>1
    <3>2. takes = 0
      <4>1. HasArg(word[e1]) # "required" BY <1>22, <3>1 DEF c1
      <4>2. QED BY <1>15, <4>1
    <3>3. next = optind + 1 + takes /\ rest = <<>> BY <1>8, <1>19, <1>21, <2>1, <3>2
    <3>4. QED BY <1>18, <1>22, <3>1, <3>3
  <2>2. CASE cursor # size
    <3>1. cursor < size /\ next = optind BY <1>5, <1>6, <1>19, <2>2
    <3>2. QED BY <1>17, <1>20, <1>22, <3>1
  <2>3. QED BY <2>1, <2>2
<1>23. CASE option = {} /\ Return("?", NoArg, next, rest)
  <2>1. HasArg(c1) = "?" BY <1>16, <1>23
  <2>2. answer(cursor) = Option("?", NoArg) BY <1>14, <2>1
  <2>3. QED BY <1>22, <1>23, <2>1, <2>2
<1>24. ASSUME NEW o \in option, o.has_arg = "no", Return(c1, NoArg, next, rest)
       PROVE  OptInv'
  <2>1. HasArg(c1) = "no" BY <1>16, <1>24
  <2>2. answer(cursor) = Option(c1, NoArg) BY <1>14, <2>1
  <2>3. QED BY <1>22, <1>24, <2>1, <2>2
<1>25. ASSUME NEW o \in option, o.has_arg # "no", ShortArgument(c1, o.has_arg, rest, next)
       PROVE  OptInv'
  <2>1. HasArg(c1) = o.has_arg /\ o.has_arg \in {"required", "optional"} BY <1>16, <1>25
  <2>2. cursor = e1
    <3>1. Taker(word, cursor) BY <1>20, <2>1
    <3>2. QED BY <1>5, <1>6, <1>12, <3>1
  <2>3. HasArg(word[e1]) = o.has_arg BY <2>1, <2>2 DEF c1
  <2>4. SubSeq(word, e1 + 1, size) = rest BY <2>2 DEF rest
  <2>5. CASE o.has_arg = "optional"
    <3>1. takes = 0 BY <1>15, <2>3, <2>5
    <3>2. answer(cursor) = Option(c1, rest) BY <1>14, <2>1, <2>4, <2>5
    <3>3. Return(c1, rest, IF rest # <<>> THEN next + 1 ELSE next, <<>>)
      BY <1>25, <2>5, Zenon DEF ShortArgument
    <3>4. (IF rest # <<>> THEN next + 1 ELSE next) = optind + 1 + takes
      BY <1>8, <1>19, <1>21, <3>1
    <3>5. QED BY <1>18, <2>2, <3>2, <3>3, <3>4
  <2>6. CASE o.has_arg = "required" /\ rest # <<>>
    <3>1. e1 # size /\ e1 < size /\ next = optind
      BY <1>5, <1>6, <1>8, <1>12, <1>19, <2>2, <2>6
    <3>2. takes = 0 BY <1>15, <3>1
    <3>3. answer(cursor) = Option(c1, rest) BY <1>14, <2>1, <2>4, <2>6, <3>1
    <3>4. Return(c1, rest, next + 1, <<>>) BY <1>25, <2>6, Zenon DEF ShortArgument
    <3>5. QED BY <1>18, <1>21, <2>2, <3>1, <3>2, <3>3, <3>4
  <2>7. CASE o.has_arg = "required" /\ rest = <<>>
    <3>1. e1 = size /\ ~(e1 < size) /\ next = optind + 1
      BY <1>5, <1>8, <1>19, <2>2, <2>7
    <3>2. answer(cursor) = IF optind < Len(args) THEN Option(c1, args[optind + 1])
                                                ELSE Option("?", NoArg)
      BY <1>14, <2>1, <2>7, <3>1
    <3>3. IF next = argc THEN Return("?", NoArg, next, <<>>) ELSE Return(c1, argv[next], next + 1, <<>>)
      BY <1>25, <2>7, Zenon DEF ShortArgument
    <3>4. CASE next = argc
      <4>1. ~(optind < Len(args)) BY <1>1, <3>1, <3>4
      <4>2. takes = 0 /\ answer(cursor) = Option("?", NoArg) BY <1>15, <3>2, <4>1
      <4>3. QED BY <1>18, <1>21, <2>2, <3>1, <3>3, <3>4, <4>2
    <3>5. CASE next # argc
      <4>1. optind < Len(args) /\ optind + 1 \in optind .. Len(args)
        BY <1>1, <1>2, <3>1, <3>5
      <4>2. argv[next] = args[optind + 1] BY <1>1, <3>1, <4>1 DEF OptInv, Unread
      <4>3. takes = 1 BY <1>15, <2>3, <2>7, <3>1, <4>1
      <4>4. answer(cursor) = Option(c1, args[optind + 1]) BY <3>2, <4>1
      <4>5. next + 1 = optind + 1 + takes BY <1>21, <3>1, <4>3
      <4>6. Return(c1, args[optind + 1], optind + 1 + takes, <<>>)
        BY <3>3, <3>5, <4>2, <4>5
      <4>7. QED BY <1>18, <2>2, <4>4, <4>6
    <3>6. QED BY <3>4, <3>5
  <2>8. QED BY <2>1, <2>5, <2>6, <2>7
<1>26. QED
  <2>1. CASE option = {} /\ Return("?", NoArg, next, rest) BY <1>23, <2>1
  <2>2. CASE ~(option = {} /\ Return("?", NoArg, next, rest))
    <3>1. PICK o \in option : IF o.has_arg = "no" THEN Return(c1, NoArg, next, rest)
                              ELSE ShortArgument(c1, o.has_arg, rest, next)
      BY <1>9, <2>2, Zenon DEF option, next, rest, c1, word, cursor, size
    <3>2. CASE o.has_arg = "no" BY <1>24, <3>1, <3>2
    <3>3. CASE o.has_arg # "no" BY <1>25, <3>1, <3>3
    <3>4. QED BY <3>2, <3>3
  <2>3. QED BY <2>1, <2>2

LEMMA OptStep == OptInv /\ [OptNext]_optVars => OptInv'
<1> SUFFICES ASSUME OptInv, [OptNext]_optVars PROVE OptInv' OBVIOUS
<1>1. CASE UNCHANGED optVars
  <2>0. UNCHANGED <<args, ordering, argv, optind, nextchar, firstNonopt, lastNonopt,
                    bottom, top, after, returned, optPc>>
    BY <1>1 DEF optVars
  <2>1. OptTypes' BY <2>0 DEF OptInv, OptTypes, argc
  <2>2. Pointers' BY <2>0 DEF OptInv, Pointers, argc
  <2>3. Unread' BY <2>0 DEF OptInv, Unread
  <2>4. (Inside' <=> Inside) /\ Cursor' = Cursor BY <2>0 DEF Inside, Cursor
  <2>5. InElement' BY <2>0, <2>4 DEF OptInv, InElement, IsElement
  <2>6. Given' = Given /\ Left' = Left /\ Meaning' = Meaning /\ Upto' = Upto
    BY <2>0, <2>4 DEF Given, Left, AfterDashes, Meaning, Upto
  <2>7. OptionsSoFar' BY <2>0, <2>6 DEF OptInv, OptionsSoFar, EndsWith
  <2>8. \A c : Place(c)' = Place(c) BY <2>0 DEF Place
  <2>9. OthersSoFar' BY <2>0, <2>6, <2>8 DEF OptInv, OthersSoFar, EndsWith
  <2>10. OptionsInOrder' BY <2>0, <2>6 DEF OptInv, OptionsInOrder
  <2>11. QED BY <2>1, <2>2, <2>3, <2>5, <2>7, <2>9, <2>10 DEF OptInv
<1>2. CASE OptNext
  BY <1>2, ResumeKeeps, AdvanceKeeps, ExchangeKeeps, ExchangeEndKeeps, SkipKeeps,
     SkipEndKeeps,
     DashesKeeps, NoDashesKeeps, RestKeeps, StopKeeps, ElementKeeps, LongOptionKeeps,
     ShortOptionKeeps
     DEF OptNext
<1>3. QED BY <1>1, <1>2

\* getopt.c: the inductive invariant of a command line being read.
THEOREM OptInvHolds == OptSpec => []OptInv
<1>1. QED BY InitOptions, OptStep, PTL DEF OptSpec

\* getopt.c:474-475: whatever the table of options and the arguments are, the
\* program gets the options it was given, in their order and each with its own
\* argument, and finds all other arguments in argv behind them, in their order.
THEOREM OptionsKeepOrder == OptSpec => []OptionsInOrder
<1>1. OptInv => OptionsInOrder BY DEF OptInv
<1>2. QED BY <1>1, OptInvHolds, PTL
=============================================================================
