------------------------------- MODULE MpFft -------------------------------
(***************************************************************************)
(* The transform of libbench/mp.c that the answers of the benchmarked      *)
(* codes are measured against by --accuracy: radix 2 with a table of roots *)
(* for powers of two, Bluestein's convolution for other sizes.  Table and  *)
(* vectors are cached in static variables from one transform to the next.  *)
(* The arithmetic is exact here; that of mp.c is MpArith.                  *)
(*                                                                         *)
(* A step is one call of cexp_builtin with what is done with its result,   *)
(* or a loop without such a call.                                          *)
(***************************************************************************)
EXTENDS CyclicRing

CONSTANTS Calls,   \* sequences of calls of fftaccuracy: n, sign, a, ffta
          MaxBit   \* the last entry of the table of roots, 63 in the code

VARIABLES calls,               \* those to come, the present one first
          direction,           \* "forward" or "backward" error
          mpPc,
          a,                   \* the array of fft1
          x, span, j,          \* the array of fft0, its i and j
          return,              \* where fft0 goes on
          cachedN, w,          \* static variables of cexp_builtin
          blueN, blueW, blueY, \* cached_bluestein_n, _w, _y
          k, ksq,              \* variables of bluestein_sequence
          errors               \* where the two compare() saw a difference

cexpVars == <<cachedN, w>>
blueVars == <<blueN, blueW, blueY>>
fft0Vars == <<x, span, j, return>>
callVars == <<calls, direction, errors>>
mpVars == <<callVars, mpPc, a, fft0Vars, cexpVars, blueVars, k, ksq>>

Call == Head(calls)
n == Call.n
Sign == IF direction = "forward" THEN Call.sign ELSE -Call.sign
IsPower(h) == \E e \in 0 .. MaxBit : h = 2 ^ e
pow2_atleast(h) == CHOOSE g \in h .. 2 * h : IsPower(g)
nb == pow2_atleast(2 * n)

-----------------------------------------------------------------------------
\* The angle 2 pi m / q is brought into the first eighth of the circle, where
\* the series of mcos and msin give the cosine and the sine of m / q.
RECURSIVE Cos2pi(_, _), Sin2pi(_, _)
Cos2pi(m, q) == CASE m < 0 -> Cos2pi(-m, q)
                  [] 2 * m > q -> Cos2pi(q - m, q)
                  [] 4 * m > q -> Negative(Sin2pi(m - q \div 4, q))
                  [] 8 * m > q -> Sin2pi(q \div 4 - m, q)
                  [] OTHER -> Cosine(m, q)
Sin2pi(m, q) == CASE m < 0 -> Negative(Sin2pi(-m, q))
                  [] 2 * m > q -> Negative(Sin2pi(q - m, q))
                  [] 4 * m > q -> Cos2pi(m - q \div 4, q)
                  [] 8 * m > q -> Cos2pi(q \div 4 - m, q)
                  [] OTHER -> Sine(m, q)

\* Both are asked in quarters, so that q / 4 is a whole number.
Root(m, q) == Plus(Cos2pi(4 * m, 4 * q), Times(I, Sin2pi(4 * m, 4 * q)))

\* Mutant: the table is made once for all n.
TableMadeOnce(q) ==
    [e \in DOMAIN w |-> IF cachedN < 0 /\ 2 ^ e < q THEN Root(2 ^ e, q) ELSE w[e]]

\* The table of cexp_builtin when it is called for q: the entries that are of
\* no use for q stay.
Table(q) ==
    [e \in DOMAIN w |-> IF cachedN # q /\ 2 ^ e < q THEN Root(2 ^ e, q) ELSE w[e]]

Bits(m) == {e \in 0 .. MaxBit : (m \div 2 ^ e) % 2 = 1}

\* The product of the entries for the bits of m, or of their conjugates.
cexp_builtin(m, q) ==
    LET entry(e) == IF m > 0 THEN Table(q)[e] ELSE Conjugate(Table(q)[e])
        bits == Bits(IF m > 0 THEN m ELSE -m)
        R[e \in 0 .. MaxBit + 1] == IF e = 0 THEN One
                            ELSE IF e - 1 \in bits THEN Times(entry(e - 1), R[e - 1])
                            ELSE R[e - 1]
    IN R[MaxBit + 1]

Remember(q) == cachedN' = q /\ w' = Table(q)

-----------------------------------------------------------------------------
Indices(size) == 0 .. size - 1

\* The counter of bitrev() adds one at the high end and carries downwards: it
\* sets the highest bit that is clear and clears those above.
Reversed(size) ==
    LET clear(c) == {m \in Indices(size) : IsPower(m) /\ (c \div m) % 2 = 0}
        top(c) == CHOOSE m \in clear(c) : \A l \in clear(c) : l <= m
        next(c) == c + 3 * top(c) - size
        r[c \in Indices(size)] == IF c = 0 THEN 0 ELSE next(r[c - 1])
    IN r

\* Elements are exchanged in the iteration of the smaller index; the last
\* index, which is its own reverse, is left out.
bitrev(size, y) ==
    LET r == Reversed(size)
        swap(z, c) == IF c < r[c] THEN [z EXCEPT ![c] = z[r[c]], ![r[c]] = z[c]] ELSE z
        S[c \in Indices(size)] == IF c = 0 THEN y ELSE swap(S[c - 1], c - 1)
    IN S[size - 1]

\* fft0(size, y, ...), after which the transform goes on at label.
Fft0(y, size, label) ==
    /\ x' = bitrev(size, y)
    /\ span' = 1 /\ j' = 0 /\ return' = label
    /\ mpPc' = IF size = 1 THEN label ELSE "fft0"

Fft0Sign == IF return = "convolved" THEN 1 ELSE IF return = "done" THEN Sign ELSE -1
Length == IF return = "done" THEN n ELSE nb

\* The butterflies with one twiddle factor, the elements being in pairs that
\* are span apart.
Butterflies ==
    LET root == cexp_builtin(Fft0Sign * j, 2 * span)
        pairs(c) == c % (2 * span)
    IN [c \in Indices(Length) |->
            CASE pairs(c) = j -> Plus(x[c], Times(root, x[c + span]))
              [] pairs(c) = j + span -> Minus2(x[c - span], Times(root, x[c]))
              [] OTHER -> x[c]]

Fft0Step == /\ mpPc = "fft0"
            /\ x' = Butterflies
            /\ Remember(2 * span)
            /\ IF j + 1 < span THEN j' = j + 1 /\ UNCHANGED <<span, mpPc>>
               ELSE /\ j' = 0 /\ span' = 2 * span
                    /\ mpPc' = IF 2 * span < Length THEN mpPc ELSE return
            /\ UNCHANGED <<callVars, a, return, blueVars, k, ksq>>

-----------------------------------------------------------------------------
swapri(y) == [c \in DOMAIN y |-> Times(I, Conjugate(y[c]))]
Turned(y) == IF Sign = 1 THEN swapri(y) ELSE y

\* fft1().
Fft1 == /\ mpPc = "fft1"
        /\ IF IsPower(n) THEN Fft0(a, n, "done") /\ UNCHANGED <<a, k, ksq>>
           ELSE /\ a' = Turned(a)
                /\ k' = 0 /\ ksq' = 1
                /\ mpPc' = IF blueN = n THEN "premultiply" ELSE "sequence"
                /\ UNCHANGED fft0Vars
        /\ UNCHANGED <<callVars, cexpVars, blueVars>>

\* while (ksq > n2) ksq -= n2;
Reduced(s) == IF s > 2 * n THEN 1 + ((s - 1) % (2 * n)) ELSE s

\* One iteration of bluestein_sequence(); the new vector is complete before
\* cached_bluestein_w is changed, but nobody looks at it in between.
Sequence == /\ mpPc = "sequence"
            /\ ksq' = Reduced(ksq + 2 * k - 1)
            /\ blueW' = [c \in Indices(n) |-> IF c = k THEN cexp_builtin(ksq', 2 * n)
                                              ELSE IF c < k THEN blueW[c] ELSE Zero]
            /\ Remember(2 * n)
            /\ k' = k + 1
            /\ IF k' < n THEN UNCHANGED <<fft0Vars, mpPc>>
               ELSE Fft0([c \in Indices(nb) |-> CASE c < n -> blueW'[c]
                                                  [] nb - c < n -> blueW'[nb - c]
                                                  [] OTHER -> Zero], nb, "kernel")
            /\ UNCHANGED <<callVars, a, blueN, blueY>>

\* y is transformed and cached.
Kernel == /\ mpPc = "kernel"
          /\ blueY' = x /\ blueN' = n
          /\ mpPc' = "premultiply"
          /\ UNCHANGED <<callVars, a, fft0Vars, cexpVars, blueW, k, ksq>>

Premultiply ==
    /\ mpPc = "premultiply"
    /\ Fft0([c \in Indices(nb) |-> IF c < n THEN Times(Conjugate(blueW[c]), a[c]) ELSE Zero],
            nb, "transformed")
    /\ UNCHANGED <<callVars, a, cexpVars, blueVars, k, ksq>>

Convolve == /\ mpPc = "transformed"
            /\ Fft0([c \in Indices(nb) |-> Times(x[c], blueY[c])], nb, "convolved")
            /\ UNCHANGED <<callVars, a, cexpVars, blueVars, k, ksq>>

Postmultiply ==
    /\ mpPc = "convolved"
    /\ a' = Turned([c \in Indices(n) |->
                        Times(Inverse1(nb), Times(Conjugate(blueW[c]), x[c]))])
    /\ mpPc' = "compare"
    /\ UNCHANGED <<callVars, fft0Vars, cexpVars, blueVars, k, ksq>>

\* The return from fft0 to fft1.
Fft0Done == /\ mpPc = "done"
            /\ a' = x /\ mpPc' = "compare"
            /\ UNCHANGED <<callVars, fft0Vars, cexpVars, blueVars, k, ksq>>

-----------------------------------------------------------------------------
Differences(y, z) == {c \in DOMAIN y : y[c] # z[c]}

\* The backward error is that of the transform of ffta / n.
Compare == /\ mpPc = "compare"
           /\ LET expected == IF direction = "forward" THEN Call.ffta ELSE Call.a
              IN errors' = [errors EXCEPT ![direction] = Differences(a, expected)]
           /\ IF direction = "forward"
              THEN /\ direction' = "backward"
                   /\ a' = [c \in Indices(n) |-> Times(Call.ffta[c], Inverse1(n))]
                   /\ mpPc' = "fft1"
              ELSE mpPc' = "return" /\ UNCHANGED <<a, direction>>
           /\ UNCHANGED <<calls, fft0Vars, cexpVars, blueVars, k, ksq>>

\* The next call of fftaccuracy.
NextCall == /\ mpPc = "return" /\ Len(calls) > 1
            /\ calls' = Tail(calls) /\ direction' = "forward"
            /\ a' = Head(Tail(calls)).a
            /\ mpPc' = "fft1"
            /\ UNCHANGED <<errors, fft0Vars, cexpVars, blueVars, k, ksq>>

MpInit == /\ calls \in Calls
          /\ direction = "forward" /\ mpPc = "fft1"
          /\ a = Call.a
          /\ x = <<>> /\ span = 1 /\ j = 0 /\ return = "done"
          /\ cachedN = -1 /\ w = [e \in 0 .. MaxBit |-> Zero]
          /\ blueN = -1 /\ blueW = <<>> /\ blueY = <<>>
          /\ k = 0 /\ ksq = 1
          /\ errors = [forward |-> {}, backward |-> {}]

MpNext == \/ Fft1 \/ Fft0Step \/ Sequence \/ Kernel \/ Premultiply \/ Convolve
          \/ Postmultiply \/ Fft0Done \/ Compare \/ NextCall

-----------------------------------------------------------------------------
DftOf(y, sign) ==
    [c \in DOMAIN y |->
        SumOf([d \in DOMAIN y |-> Times(y[d], Exp(sign * c * d, n))], n)]

\* Whatever was transformed before, with tables and vectors for another size
\* or another sign: the forward error is zero exactly at the elements where
\* ffta is the transform of a, and the backward error is zero exactly if a is
\* the inverse transform of ffta.
ReferenceIsDft ==
    mpPc = "return" =>
        /\ errors.forward = Differences(Call.ffta, DftOf(Call.a, Call.sign))
        /\ errors.backward =
               Differences(Call.a, [c \in Indices(n) |->
                   Times(Inverse1(n), DftOf(Call.ffta, -Call.sign)[c])])
=============================================================================
