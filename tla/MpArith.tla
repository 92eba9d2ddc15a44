------------------------------ MODULE MpArith ------------------------------
(***************************************************************************)
(* The numbers of libbench/mp.c: a sign, an exponent and Len0 digits in    *)
(* base Radix, digit 0 being the lowest; the value is                      *)
(* sign * (sum of d[i] Radix^i) * Radix^(expt - Len0).  In the code there  *)
(* are ten digits of 16 bits.                                              *)
(***************************************************************************)
EXTENDS Integers

CONSTANTS Len0, Shift,   \* LEN, SHFT
          RealBits,      \* BITS_IN_REAL
          Operands,      \* pairs of numbers that are added, subtracted, multiplied
          Inverted,      \* numbers that inv() is called with, never zero
          QuotientDigits,   \* digits of a quotient before it is rounded
          MaxNewton      \* bound on the iterations of inv()

VARIABLES a, b,           \* the operands
          arithPc,
          sum, difference, product, real,   \* add, sub, mul, toreal
          xinv, rounds    \* x of inv(a, x), and its iterations so far

arithVars == <<a, b, arithPc, sum, difference, product, real, xinv, rounds>>

Radix == 2 ^ Shift
ZeroExp == -32768
Positions == 0 .. Len0 - 1
zero == [sign |-> 1, expt |-> ZeroExp, d |-> [i \in Positions |-> 0]]
Number(s, e, d) == [sign |-> s, expt |-> e, d |-> d]
fromshort(m) == Number(IF m < 0 THEN -1 ELSE 1, 1,
                       [i \in Positions |-> IF i < Len0 - 1 THEN 0 ELSE IF m < 0 THEN -m ELSE m])

\* ACC is unsigned, and wide enough for two digits: unsigned long has 32 bits
\* on the smallest machines.
AccSize == Radix * Radix
LO(r) == r % Radix
HI(r) == r \div Radix
HI_SIGNED(r) == (HI((r + (Radix \div 2) * Radix) % AccSize) - Radix \div 2) % AccSize

-----------------------------------------------------------------------------
\* The l digits d, of which the highest has exponent e, without their leading
\* zeros; digits below the lowest position are dropped.
pack(d, e, s, l) ==
    IF \A i \in 0 .. l - 1 : d[i] = 0 THEN zero
    ELSE LET top == CHOOSE i \in 0 .. l - 1 : d[i] # 0 /\ \A h \in i + 1 .. l - 1 : d[h] = 0
         IN Number(s, e - (l - 1 - top), [j \in Positions |-> LET i == top - (Len0 - 1 - j)
                                                              IN IF i >= 0 THEN d[i] ELSE 0])

\* Whether |u| > |v|, and eq().
AbsGreater(u, v) ==
    \/ u.expt > v.expt
    \/ /\ u.expt = v.expt
       /\ \E i \in Positions : u.d[i] > v.d[i] /\ \A h \in Positions : h > i => u.d[h] = v.d[h]
eq(u, v) == u = v

\* The value of the highest h digits of u but for its first g, in units of
\* the lowest digit.
Digits(u, g, h) ==
    LET S[i \in 0 .. Len0] == IF i = 0 THEN 0
                              ELSE S[i - 1] + (IF i - 1 \in Len0 - h .. Len0 - g - 1
                                               THEN u.d[i - 1] * Radix ^ (i - 1) ELSE 0)
    IN S[Len0]

\* The digits of u with those of v added or subtracted at their place, and
\* what is carried from the last of them.
Aligned(u, v, i) == LET ib == i + u.expt - v.expt IN IF ib < Len0 THEN v.d[ib] ELSE 0
Accumulate(u, v, op(_, _), hi(_)) ==
    LET r[i \in Positions] ==
            (op(u.d[i], Aligned(u, v, i)) + (IF i = 0 THEN 0 ELSE hi(r[i - 1]))) % AccSize
    IN [i \in 0 .. Len0 |-> IF i < Len0 THEN LO(r[i]) ELSE LO(hi(r[Len0 - 1]))]

\* For |u| >= |v|.
addmag0(s, u, v) ==
    pack(Accumulate(u, v, LAMBDA y, z : y + z, HI), u.expt + 1, s * u.sign, Len0 + 1)
submag0(s, u, v) ==
    pack(Accumulate(u, v, LAMBDA y, z : y - z, HI_SIGNED), u.expt, s * u.sign, Len0)

addmag(s, u, v) == IF AbsGreater(u, v) THEN addmag0(1, u, v) ELSE addmag0(s, v, u)
submag(s, u, v) == IF AbsGreater(u, v) THEN submag0(1, u, v) ELSE submag0(s, v, u)
add(u, v) == IF u.sign = v.sign THEN addmag(1, u, v) ELSE submag(1, u, v)
sub(u, v) == IF u.sign = v.sign THEN submag(-1, u, v) ELSE addmag(-1, u, v)

\* The digits of the product, which the code finds row by row; what a row adds
\* up, (Radix - 1)^2 + 2 * (Radix - 1) at most, is below AccSize.
mul(u, v) ==
    LET m == Digits(u, 0, Len0) * Digits(v, 0, Len0)
    IN pack([k \in 0 .. 2 * Len0 - 1 |-> LO(m \div Radix ^ k)],
            u.expt + v.expt, u.sign * v.sign, 2 * Len0)

-----------------------------------------------------------------------------
\* A floating-point number is an integer multiple of the lowest digit; sums
\* are rounded to RealBits bits, to even where there are two nearest.
BitLength(m) == CHOOSE l \in 0 .. 30 : m < 2 ^ l /\ (l = 0 \/ m >= 2 ^ (l - 1))
Nearest(m) ==
    LET lost == IF BitLength(m) > RealBits THEN BitLength(m) - RealBits ELSE 0
        q == m \div 2 ^ lost
        rest == 2 * (m % 2 ^ lost)
    IN 2 ^ lost * (IF rest > 2 ^ lost \/ (rest = 2 ^ lost /\ q % 2 = 1) THEN q + 1 ELSE q)

\* Mutant: no sticky bit.
MagnitudeNotSticky(u) ==
    LET first == 1 + (RealBits - BitLength(u.d[Len0 - 1])) \div Shift
        guard == first + (RealBits - 1) \div Shift
    IN Nearest(2 * Digits(u, 0, first) + 2 * Digits(u, first, guard))

\* toreal(): the digits that a REAL holds and the guard digits are added up
\* separately; if there is anything below, half a unit of the last guard
\* digit is added to these.  In units of half of the lowest digit.
Magnitude(u) ==
    LET first == 1 + (RealBits - BitLength(u.d[Len0 - 1])) \div Shift
        guard == first + (RealBits - 1) \div Shift
        sticky == IF Digits(u, guard, Len0) # 0 THEN Radix ^ (Len0 - guard) ELSE 0
    IN Nearest(2 * Digits(u, 0, first) + (2 * Digits(u, first, guard) + sticky))
toreal(u) == IF u.expt = ZeroExp THEN 0 ELSE u.sign * Magnitude(u)

\* fromreal() of 1.0 / toreal(u): a quotient of RealBits bits, which has
\* QuotientDigits digits before it is rounded.
Reciprocal(u) ==
    LET q == Radix ^ QuotientDigits \div Magnitude(u)
        inexact == Radix ^ QuotientDigits % Magnitude(u) # 0
        m == Nearest(2 * q + IF inexact THEN 1 ELSE 0)
    IN pack([i \in 0 .. QuotientDigits |-> LO(m \div Radix ^ i)],
            Len0 - u.expt + 1, u.sign, QuotientDigits + 1)

-----------------------------------------------------------------------------
ArithInit == /\ sum = zero /\ difference = zero /\ product = zero /\ real = 0
             /\ rounds = 0
             /\ \/ /\ arithPc = "operations"
                   /\ \E pair \in Operands : a = pair[1] /\ b = pair[2]
                   /\ xinv = zero
                \/ /\ arithPc = "newton"
                   /\ a \in Inverted /\ b = zero
                   /\ xinv = Reciprocal(a)

Operations == /\ arithPc = "operations"
              /\ sum' = add(a, b) /\ difference' = sub(a, b)
              /\ product' = mul(a, b) /\ real' = toreal(a)
              /\ arithPc' = "operated"
              /\ UNCHANGED <<a, b, xinv, rounds>>

\* One iteration of inv().
Newton == /\ arithPc = "newton"
          /\ LET z == sub(fromshort(2), mul(a, xinv))
             IN IF eq(fromshort(1), z) THEN arithPc' = "inverted" /\ UNCHANGED <<xinv, rounds>>
                ELSE /\ xinv' = mul(xinv, z)
                     /\ rounds' = rounds + 1
                     /\ UNCHANGED arithPc
          /\ UNCHANGED <<a, b, sum, difference, product, real>>

ArithNext == Operations \/ Newton

-----------------------------------------------------------------------------
Abs(m) == IF m < 0 THEN -m ELSE m
Larger(m, l) == IF m > l THEN m ELSE l
Normal(u) == u = zero \/ (u.d[Len0 - 1] # 0 /\ \A i \in Positions : u.d[i] \in 0 .. Radix - 1)

\* u in units of Radix ^ unit, of which its digits are multiples.
Value(u, unit) ==
    LET S[i \in 0 .. Len0] ==
            IF i = 0 THEN 0
            ELSE S[i - 1] + IF u.d[i - 1] = 0 THEN 0
                            ELSE u.d[i - 1] * Radix ^ (u.expt - Len0 + i - 1 - unit)
    IN u.sign * S[Len0]

\* c is u + v but for less than a unit in the lowest place of the larger
\* operand or of the result; nothing is lost of numbers with the same exponent
\* unless the result has a digit more.
IsSum(c, u, v) ==
    LET high == IF AbsGreater(u, v) THEN u.expt ELSE v.expt
        low == IF u = zero \/ v = zero THEN high
               ELSE IF AbsGreater(u, v) THEN v.expt ELSE u.expt
        unit == (IF low < high THEN low ELSE high) - Len0
        error == Value(c, unit) - Value(u, unit) - Value(v, unit)
    IN /\ Normal(c)
       /\ Abs(error) < Radix ^ (Larger(high, c.expt) - Len0 - unit)
       /\ low = high /\ c.expt <= high => error = 0

\* fromshort(0) makes a zero that looks larger than most numbers; add and sub
\* drop digits of what it is added to, or take the borrow for a number.  What
\* cexp_builtin(0) gives is multiplied, or meets a zero in the first butterfly
\* of the chirp, whose middle element is zero.
IsZero(u) == \A i \in Positions : u.d[i] = 0
Addable(u, v) == fromshort(0) \in {u, v} => IsZero(u) /\ IsZero(v)

Negation(u) == IF u = zero THEN zero ELSE [u EXCEPT !.sign = -@]

IsProduct(c, u, v) ==
    LET unit == u.expt + v.expt - 2 * Len0
        exact == Value(u, u.expt - Len0) * Value(v, v.expt - Len0)
    IN /\ Normal(c)
       /\ c = zero <=> IsZero(u) \/ IsZero(v)
       /\ c # zero => /\ Abs(Value(c, unit)) <= Abs(exact)
                      /\ Abs(exact - Value(c, unit)) < Radix ^ (c.expt - Len0 - unit)

\* u * x differs from one by less than two units of the lowest place of one.
IsInverse(x, u) ==
    LET exact == Value(u, u.expt - Len0) * Value(x, x.expt - Len0)
        one == Radix ^ (2 * Len0 - u.expt - x.expt)
    IN Normal(x) /\ Abs(exact - one) * Radix ^ (Len0 - 1) < 2 * one

\* What fftaccuracy relies on, for every pair of numbers: sums and products
\* are right to the last digit or nearly so (sums with the zero of fromshort(0)
\* are excepted, unless they are of zeros), a result that is zero is the number
\* zero, a number becomes the nearest floating-point number although it is added
\* up in two parts, and Newton's iteration, which goes on until two numbers are
\* equal in all digits, comes to an end with the inverse.
ArithIsRounded ==
    /\ arithPc = "operated" =>
           /\ Addable(a, b) => IsSum(sum, a, b) /\ IsSum(difference, a, Negation(b))
           /\ IsProduct(product, a, b)
           /\ real = a.sign * Nearest(2 * Digits(a, 0, Len0))
    /\ arithPc = "newton" => rounds < MaxNewton
    /\ arithPc = "inverted" => IsInverse(xinv, a)
=============================================================================
