---------------------------- MODULE HermFormats ----------------------------
(***************************************************************************)
(* The copy-c2h and copy-h2c functions of libbench: a hermitian array, of  *)
(* which half is redundant, is written into the real array of a doit       *)
(* program in one of five layouts, and such a real array is read back.     *)
(* The verifier trusts every transform of real data through this pair.     *)
(*                                                                         *)
(* A step is one iteration of a loop, or the statements before or after    *)
(* it.  Both cursors of the fftpack functions are where the indices of the *)
(* iteration put them.  Only the unpacked layout has more than one         *)
(* dimension; up to three are modelled, p.planes and p.rows of them, which *)
(* are one where the problem has fewer.                                    *)
(***************************************************************************)
EXTENDS Integers

CONSTANTS Problems,   \* what is copied: layout, size, sign and elements
          Junk        \* what is in the arrays before

Formats == {"fftpack", "halfcomplex", "packed", "unpacked_ri", "unpacked"}

Conj(c) == [re |-> c.re, im |-> -c.im]

Rows(q) == q.planes * q.rows
Elements(q) == 0 .. Rows(q) * q.n - 1

\* An element has its conjugate where all its indices are negated.
Mirror(m, j) == IF j = 0 THEN 0 ELSE m - j
MirrorRow(q, a) == Mirror(q.planes, a \div q.rows) * q.rows + Mirror(q.rows, a % q.rows)
Hermitian(q) ==
    \A a \in 0 .. Rows(q) - 1, j \in 0 .. q.n - 1 :
        q.z[q.n * MirrorRow(q, a) + Mirror(q.n, j)] = Conj(q.z[q.n * a + j])

ASSUME ProblemsAssumption ==
    \A q \in Problems :
        /\ q.fmt \in Formats /\ q.sign \in {-1, 1}
        /\ q.planes \in Nat \ {0} /\ q.rows \in Nat \ {0} /\ q.n \in Nat \ {0}
        /\ q.fmt # "unpacked" => Rows(q) = 1
        /\ q.z \in [Elements(q) -> [re : Int, im : Int]]
        /\ Hermitian(q)

VARIABLES p,        \* the problem, and with it the array to be written
          hermPc,
          b, k,     \* row and loop variable
          reals,    \* p->in as c2h leaves it, which h2c finds in p->out
          out       \* the complex array that h2c fills

hermVars == <<p, hermPc, b, k, reals, out>>

Half == p.n \div 2
IsEven == 2 * Half = p.n

\* What problem_alloc allocates for a real problem, at least: two more than the
\* size in each dimension.
Allocated == (p.n + 2) * (IF p.rows = 1 THEN 1 ELSE p.rows + 2)
                       * (IF p.planes = 1 THEN 1 ELSE p.planes + 2)
Cells == 0 .. Allocated - 1

\* Where a layout keeps the two parts of element j of row a, for the elements
\* that the loops store in pairs.
ReCell(a, j) == [fftpack |-> 2 * j - 1, halfcomplex |-> j, packed |-> 2 * j,
                 unpacked_ri |-> j, unpacked |-> 2 * ((Half + 1) * a + j)][p.fmt]
ImCell(a, j) == [fftpack |-> 2 * j, halfcomplex |-> p.n - j, packed |-> 2 * j + 1,
                 unpacked_ri |-> Half + 1 + j,
                 unpacked |-> 2 * ((Half + 1) * a + j) + 1][p.fmt]

\* The iterations are those with First <= k < Limit.
Centred == p.fmt \in {"fftpack", "halfcomplex"}
First == IF Centred THEN 1 ELSE 0
Limit == IF Centred THEN (p.n + 1) \div 2
         ELSE IF p.fmt = "packed" THEN Half ELSE Half + 1

In(a, j) == p.z[p.n * a + j]
Turn(x) == -p.sign * x

-----------------------------------------------------------------------------
HermInit == /\ p \in Problems
        /\ hermPc = "c2h_head" /\ b = 0 /\ k = 0
        /\ reals = [c \in Cells |-> Junk]
        /\ out = [e \in Elements(p) |-> [re |-> Junk, im |-> Junk]]

\* BENCH_ASSERT((n & 1) == 0) of the packed layout, and the element without
\* imaginary part that two of the layouts store before their loop.
C2HHead == /\ hermPc = "c2h_head"
           /\ hermPc' = IF p.fmt = "packed" /\ ~IsEven THEN "assertion" ELSE "c2h"
           /\ k' = First
           /\ reals' = IF First = 1 THEN [reals EXCEPT ![0] = In(b, 0).re]
                                    ELSE reals
           /\ UNCHANGED <<p, b, out>>

C2HLoop == /\ hermPc = "c2h" /\ k < Limit
           /\ reals' = [reals EXCEPT ![ReCell(b, k)] = In(b, k).re,
                                     ![ImCell(b, k)] = Turn(In(b, k).im)]
           /\ k' = k + 1
           /\ UNCHANGED <<p, hermPc, b, out>>

\* Mutant: the middle element is taken for one of the redundant half.
C2HMiddleForgotten == UNCHANGED reals

\* The middle element of an even number, which again has no imaginary part.
C2HMiddle ==
    reals' = IF Centred /\ 2 * k = p.n THEN [reals EXCEPT ![ReCell(b, k)] = In(b, k).re]
             ELSE IF p.fmt = "packed" /\ k > 0 THEN [reals EXCEPT ![1] = In(b, k).re]
             ELSE reals

\* After the loop: the middle element, or the next row.
C2HTail == /\ hermPc = "c2h" /\ k >= Limit
           /\ C2HMiddle
           /\ IF p.fmt = "unpacked" /\ b + 1 < Rows(p)
              THEN b' = b + 1 /\ k' = 0 /\ UNCHANGED hermPc
              ELSE b' = 0 /\ k' = 0 /\ hermPc' = "h2c_head"
           /\ UNCHANGED <<p, out>>

-----------------------------------------------------------------------------
Read(a, j) == [re |-> reals[ReCell(a, j)], im |-> Turn(reals[ImCell(a, j)])]

\* The elements stored before the loop of a copy-h2c function.
H2CHead ==
    /\ hermPc = "h2c_head"
    /\ \/ /\ Centred
          /\ out' = [out EXCEPT ![0] = [re |-> reals[0], im |-> 0]]
       \/ /\ p.fmt = "packed"
          /\ out' = [out EXCEPT ![0] = [re |-> reals[0], im |-> 0],
                                ![Half] = [re |-> reals[1], im |-> 0]]
       \/ p.fmt = "unpacked_ri" /\ out' = [out EXCEPT ![0] = Read(b, 0)]
       \/ p.fmt = "unpacked" /\ UNCHANGED out
    /\ k' = IF p.fmt = "unpacked" THEN 0 ELSE 1
    /\ hermPc' = "h2c"
    /\ UNCHANGED <<p, b, reals>>

\* The loops of the one-dimensional layouts store an element and its mirror.
H2CLoop == /\ hermPc = "h2c" /\ p.fmt # "unpacked" /\ k < Limit
           /\ out' = [out EXCEPT ![k] = Read(b, k), ![p.n - k] = Conj(Read(b, k))]
           /\ k' = k + 1
           /\ UNCHANGED <<p, hermPc, b, reals>>

\* Mutant: the conjugate is looked for in the same row.
CpSameRow == /\ hermPc = "h2c" /\ p.fmt = "unpacked" /\ k < p.n
             /\ out' = [out EXCEPT ![p.n * b + k] =
                            IF 2 * k <= p.n THEN Read(b, k)
                            ELSE Conj(Read(b, p.n - k))]
             /\ k' = k + 1
             /\ UNCHANGED <<p, hermPc, b, reals>>

\* cp() of copy-h2c-unpacked.c goes through all elements of a row and takes
\* those that are not stored from the mirrored row, nb and mnb in the code.
Cp == /\ hermPc = "h2c" /\ p.fmt = "unpacked" /\ k < p.n
      /\ out' = [out EXCEPT ![p.n * b + k] =
                     IF 2 * k <= p.n THEN Read(b, k)
                     ELSE Conj(Read(MirrorRow(p, b), p.n - k))]
      /\ k' = k + 1
      /\ UNCHANGED <<p, hermPc, b, reals>>

\* The next row of the unpacked layout.
CpRow == /\ hermPc = "h2c" /\ p.fmt = "unpacked" /\ k = p.n /\ b + 1 < Rows(p)
         /\ b' = b + 1 /\ k' = 0
         /\ UNCHANGED <<p, hermPc, reals, out>>

\* After the loops: the middle element of fftpack and halfcomplex.
H2CTail ==
    /\ hermPc = "h2c"
    /\ IF p.fmt = "unpacked" THEN k = p.n /\ b + 1 = Rows(p) ELSE k >= Limit
    /\ out' = IF Centred /\ 2 * k = p.n
              THEN [out EXCEPT ![k] = [re |-> reals[ReCell(b, k)], im |-> 0]]
              ELSE out
    /\ hermPc' = "done"
    /\ UNCHANGED <<p, b, k, reals>>

HermNext == \/ C2HHead \/ C2HLoop \/ C2HTail
        \/ H2CHead \/ H2CLoop \/ Cp \/ CpRow \/ H2CTail
HermSpec == HermInit /\ [][HermNext]_hermVars

-----------------------------------------------------------------------------
\* The parts of element j that are independent of those of its mirror.
Re(j) == p.z[j].re
Im(j) == Turn(p.z[j].im)

\* The layouts are those of the comments, which the authors of doit programs
\* go by: copy-c2h-1d-fftpack.c:5, copy-c2h-1d-halfcomplex.c:5,
\* copy-c2h-1d-packed.c:7-9 and copy-h2c-1d-unpacked-ri.c:5-6.
LayoutAsDocumented ==
    hermPc = "h2c_head" =>
        /\ p.fmt = "fftpack" =>
               /\ reals[0] = Re(0)
               /\ \A j \in 1 .. p.n : 2 * j < p.n => /\ reals[2 * j - 1] = Re(j)
                                                     /\ reals[2 * j] = Im(j)
               /\ IsEven => reals[p.n - 1] = Re(Half)
        /\ p.fmt = "halfcomplex" =>
               /\ \A j \in 0 .. Half : reals[j] = Re(j)
               /\ \A j \in 1 .. p.n : 2 * j < p.n => reals[p.n - j] = Im(j)
        /\ p.fmt = "packed" =>
               /\ \A j \in 0 .. Half - 1 : reals[2 * j] = Re(j)
               /\ \A j \in 1 .. Half - 1 : reals[2 * j + 1] = Im(j)
               /\ reals[1] = Re(Half)
        /\ p.fmt = "unpacked_ri" =>
               \A j \in 0 .. Half : reals[j] = Re(j) /\ reals[Half + 1 + j] = Im(j)

\* Reading what was written gives the array back, for every layout, size and
\* sign convention: the two functions of a pair agree about every element,
\* the redundant ones, the first and the middle one included.
RoundTrip == hermPc = "done" => out = p.z
=============================================================================
