----------------------------- MODULE OwnFormats -----------------------------
(***************************************************************************)
(* The layouts of single benchmarked libraries.  Where a doit program of   *)
(* benchees cannot use the functions of HermFormats, it has a copy_c2h and *)
(* a copy_h2c (or copy_c2r and copy_r2c) of its own, written after the     *)
(* manual of its library, mostly index by index; the verifier trusts these *)
(* pairs as it does the others.                                            *)
(*                                                                         *)
(* The loops of such a function are a set of assignments, since no two of  *)
(* them differ about a place: if two did, the place would hold Junk and    *)
(* the round trip fail.  A function that moves numbers about in place      *)
(* depends on the order and has steps.                                     *)
(***************************************************************************)
EXTENDS Integers, Sequences, FiniteSets, Functions

CONSTANTS Problems,   \* what is copied: layout, dimensions and elements
          Junk        \* what is in the arrays before

VARIABLES p,        \* the problem, and with it the array to be written
          pc,
          row, column,  \* loop variables of the layout that is expanded in place
          reals,    \* the cells c2h has written, which h2c finds in p->out
          out       \* the complex array that h2c fills

ownVars == <<p, pc, row, column, reals, out>>

Conj(z) == [re |-> z.re, im |-> -z.im]
C(i, n) == (n - i) % n

\* The address of the second array of the layouts that have two.
Second == 10000

-----------------------------------------------------------------------------
\* Assignments to a cell, of a part of element e of the complex array.
Re(cell, e) == {[cell |-> cell, e |-> e, part |-> "re", sign |-> 1]}
Im(cell, e, sign) == {[cell |-> cell, e |-> e, part |-> "im", sign |-> sign]}

\* Assignments to an element: of two cells, to a pair of elements that are
\* conjugates, and of one cell to an element without imaginary part.
To(e, re, im, sign) == {[e |-> e, re |-> re, im |-> im, sign |-> sign]}
Both(e, m, re, im, sign) == To(e, re, im, sign) \cup To(m, re, im, -sign)
NoImag(e, re) == To(e, re, re, 0)

-----------------------------------------------------------------------------
\* ooura/doit2d.c: the rows a[k1] have n2 cells.
Ooura2dC2H(n1, n2) ==
    LET idx(i, j) == i * n2 + j
        a(i, j) == i * n2 + j
    IN UNION {Re(a(k1, 2 * k2), idx(k1, k2))
                  \cup Im(a(k1, 2 * k2 + 1), idx(C(k1, n1), n2 - k2), 1) :
              k1 \in 0 .. n1 - 1, k2 \in 1 .. n2 \div 2 - 1}
       \cup UNION {Re(a(k1, 0), idx(k1, 0)) \cup Im(a(k1, 1), idx(n1 - k1, 0), 1)
                       \cup Re(a(n1 - k1, 1), idx(k1, n2 \div 2))
                       \cup Im(a(n1 - k1, 0), idx(k1, n2 \div 2), 1) :
                   k1 \in 1 .. n1 \div 2 - 1}
       \cup UNION {Re(a(k1, 0), idx(k1, 0)) \cup Re(a(k1, 1), idx(k1, n2 \div 2)) :
                   k1 \in {0, n1 \div 2}}

Ooura2dH2C(n1, n2) ==
    LET idx(i, j) == i * n2 + j
        a(i, j) == i * n2 + j
    IN UNION {Both(idx(k1, k2), idx(C(k1, n1), n2 - k2), a(k1, 2 * k2), a(k1, 2 * k2 + 1), -1) :
              k1 \in 0 .. n1 - 1, k2 \in 1 .. n2 \div 2 - 1}
       \cup UNION {Both(idx(k1, 0), idx(n1 - k1, 0), a(k1, 0), a(k1, 1), -1)
                       \cup Both(idx(k1, n2 \div 2), idx(n1 - k1, n2 \div 2),
                                 a(n1 - k1, 1), a(n1 - k1, 0), 1) :
                   k1 \in 1 .. n1 \div 2 - 1}
       \cup UNION {NoImag(idx(k1, 0), a(k1, 0)) \cup NoImag(idx(k1, n2 \div 2), a(k1, 1)) :
                   k1 \in {0, n1 \div 2}}

\* ooura/doit3d.c, "This is ridiculous."
Ooura3dC2H(n1, n2, n3) ==
    LET idx(i, j, k) == (i * n2 + j) * n3 + k
        a(i, j, k) == (i * n2 + j) * n3 + k
        middles == {0, n2 \div 2}
    IN UNION {Re(a(k1, k2, 2 * k3), idx(k1, k2, k3))
                  \cup Im(a(k1, k2, 2 * k3 + 1), idx(C(k1, n1), C(k2, n2), n3 - k3), 1) :
              k1 \in 0 .. n1 - 1, k2 \in 0 .. n2 - 1, k3 \in 1 .. n3 \div 2 - 1}
       \cup UNION {Re(a(k1, k2, 0), idx(k1, k2, 0))
                       \cup Im(a(k1, k2, 1), idx(C(k1, n1), n2 - k2, 0), 1)
                       \cup Re(a(k1, n2 - k2, 1), idx(C(k1, n1), k2, n3 \div 2))
                       \cup Im(a(k1, n2 - k2, 0), idx(C(k1, n1), k2, n3 \div 2), 1) :
                   k1 \in 0 .. n1 - 1, k2 \in 1 .. n2 \div 2 - 1}
       \cup UNION {Re(a(k1, k2, 0), idx(k1, k2, 0))
                       \cup Im(a(k1, k2, 1), idx(n1 - k1, k2, 0), 1)
                       \cup Re(a(n1 - k1, k2, 1), idx(k1, k2, n3 \div 2))
                       \cup Im(a(n1 - k1, k2, 0), idx(k1, k2, n3 \div 2), 1) :
                   k1 \in 1 .. n1 \div 2 - 1, k2 \in middles}
       \cup UNION {Re(a(k1, k2, 0), idx(k1, k2, 0))
                       \cup Re(a(k1, k2, 1), idx(k1, k2, n3 \div 2)) :
                   k1 \in {0, n1 \div 2}, k2 \in middles}

Ooura3dH2C(n1, n2, n3) ==
    LET idx(i, j, k) == (i * n2 + j) * n3 + k
        a(i, j, k) == (i * n2 + j) * n3 + k
        middles == {0, n2 \div 2}
    IN UNION {Both(idx(k1, k2, k3), idx(C(k1, n1), C(k2, n2), n3 - k3),
                   a(k1, k2, 2 * k3), a(k1, k2, 2 * k3 + 1), -1) :
              k1 \in 0 .. n1 - 1, k2 \in 0 .. n2 - 1, k3 \in 1 .. n3 \div 2 - 1}
       \cup UNION {Both(idx(k1, k2, 0), idx(C(k1, n1), n2 - k2, 0),
                        a(k1, k2, 0), a(k1, k2, 1), -1)
                       \cup Both(idx(C(k1, n1), k2, n3 \div 2), idx(k1, n2 - k2, n3 \div 2),
                                 a(k1, n2 - k2, 1), a(k1, n2 - k2, 0), 1) :
                   k1 \in 0 .. n1 - 1, k2 \in 1 .. n2 \div 2 - 1}
       \cup UNION {Both(idx(k1, k2, 0), idx(n1 - k1, k2, 0), a(k1, k2, 0), a(k1, k2, 1), -1)
                       \cup Both(idx(k1, k2, n3 \div 2), idx(n1 - k1, k2, n3 \div 2),
                                 a(n1 - k1, k2, 1), a(n1 - k1, k2, 0), 1) :
                   k1 \in 1 .. n1 \div 2 - 1, k2 \in middles}
       \cup UNION {NoImag(idx(k1, k2, 0), a(k1, k2, 0))
                       \cup NoImag(idx(k1, k2, n3 \div 2), a(k1, k2, 1)) :
                   k1 \in {0, n1 \div 2}, k2 \in middles}

-----------------------------------------------------------------------------
\* intel-mkl/doit.c: real and imaginary parts in halves of the rows, those of
\* the first and of the middle column in halves of the column.
MklC2H(m, n) ==
    LET n2 == n + 2
        ends == (IF m > 1 THEN {0, m \div 2} ELSE {0}) \X (IF n > 1 THEN {0, n \div 2} ELSE {0})
    IN UNION {Re(t[1] * n2 + t[2], t[1] * n + t[2]) : t \in ends}
       \cup UNION {Re(i * n2 + nn, i * n + nn) \cup Im((m \div 2 + i + 1) * n2 + nn, i * n + nn, 1) :
                   i \in 1 .. m \div 2 - 1, nn \in IF n > 1 THEN {0, n \div 2} ELSE {0}}
       \cup UNION {Re(i * n2 + j, i * n + j) \cup Im(i * n2 + n \div 2 + j + 1, i * n + j, 1) :
                   i \in 0 .. m - 1, j \in 1 .. n \div 2 - 1}

MklH2C(m, n) ==
    LET n2 == n + 2
        ends == (IF m > 1 THEN {0, m \div 2} ELSE {0}) \X (IF n > 1 THEN {0, n \div 2} ELSE {0})
    IN UNION {NoImag(t[1] * n + t[2], t[1] * n2 + t[2]) : t \in ends}
       \cup UNION {Both(i * n + nn, (m - i) * n + nn,
                        i * n2 + nn, (m \div 2 + i + 1) * n2 + nn, 1) :
                   i \in 1 .. m \div 2 - 1, nn \in IF n > 1 THEN {0, n \div 2} ELSE {0}}
       \cup UNION {Both(i * n + j, C(i, m) * n + n - j, i * n2 + j, i * n2 + n \div 2 + j + 1, 1) :
                   i \in 0 .. m - 1, j \in 1 .. n \div 2 - 1}

\* intel-mkl/doitf.c, which is called with m the length of the rows and n their
\* number: pairs of rows in the first and the middle column, pairs of cells in
\* the others, the middle ones behind the last.
MklfC2H(m, n) ==
    LET ra(r, c) == r * (m + 2) + c
        ca(j, i) == j * m + i
        columns == {<<0, 0>>} \cup IF m > 1 THEN {<<m \div 2, m>>} ELSE {}
        rows == {<<0, 0>>} \cup IF n > 1 THEN {<<n \div 2, n>>} ELSE {}
    IN UNION {Re(ra(r[2], c[2]), ca(r[1], c[1])) : r \in rows, c \in columns}
       \cup UNION {Re(ra(2 * j, c[2]), ca(j, c[1])) \cup Im(ra(2 * j + 1, c[2]), ca(j, c[1]), 1) :
                   j \in 1 .. n \div 2 - 1, c \in columns}
       \cup UNION {Re(ra(j, 2 * i), ca(j, i)) \cup Im(ra(j, 2 * i + 1), ca(j, i), 1) :
                   j \in 0 .. n - 1, i \in 1 .. m \div 2 - 1}

MklfH2C(m, n) ==
    LET ra(r, c) == r * (m + 2) + c
        ca(j, i) == j * m + i
        columns == {<<0, 0>>} \cup IF m > 1 THEN {<<m \div 2, m>>} ELSE {}
        rows == {<<0, 0>>} \cup IF n > 1 THEN {<<n \div 2, n>>} ELSE {}
    IN UNION {NoImag(ca(r[1], c[1]), ra(r[2], c[2])) : r \in rows, c \in columns}
       \cup UNION {Both(ca(j, c[1]), ca(n - j, c[1]), ra(2 * j, c[2]), ra(2 * j + 1, c[2]), 1) :
                   j \in 1 .. n \div 2 - 1, c \in columns}
       \cup UNION {Both(ca(j, i), ca(C(j, n), m - i), ra(j, 2 * i), ra(j, 2 * i + 1), 1) :
                   j \in 0 .. n - 1, i \in 1 .. m \div 2 - 1}

\* green-ffts-2.0/doit.c: the first half of the first column, and of the middle
\* one below it, in pairs of cells; the imaginary part of each upper end, which
\* is 0, gives its cell to the lower end (pin[1] in the code).
GreenC2H(n0, n1) ==
    LET columns == {<<0, 0>>, <<n0 \div 2, n1 \div 2>>}
    IN UNION {Re(c[1] * n1, c[2]) \cup Re(c[1] * n1 + 1, (n0 \div 2) * n1 + c[2]) : c \in columns}
       \cup UNION {Re((i + c[1]) * n1, i * n1 + c[2]) \cup Im((i + c[1]) * n1 + 1, i * n1 + c[2], 1) :
                   i \in 1 .. n0 \div 2 - 1, c \in columns}
       \cup UNION {Re(i * n1 + 2 * j, i * n1 + j) \cup Im(i * n1 + 2 * j + 1, i * n1 + j, 1) :
                   i \in 0 .. n0 - 1, j \in 1 .. n1 \div 2 - 1}

GreenH2C(n0, n1) ==
    LET columns == {<<0, 0>>, <<n0 \div 2, n1 \div 2>>}
    IN UNION {NoImag(c[2], c[1] * n1) \cup NoImag((n0 \div 2) * n1 + c[2], c[1] * n1 + 1) : c \in columns}
       \cup UNION {Both(i * n1 + c[2], (n0 - i) * n1 + c[2],
                        (i + c[1]) * n1, (i + c[1]) * n1 + 1, 1) :
                   i \in 1 .. n0 \div 2 - 1, c \in columns}
       \cup UNION {Both(i * n1 + j, C(i, n0) * n1 + n1 - j, i * n1 + 2 * j, i * n1 + 2 * j + 1, 1) :
                   i \in 0 .. n0 - 1, j \in 1 .. n1 \div 2 - 1}

\* vbigdsp/doit.c, "insane format": the first and the middle column of the array
\* side by side in the first two cells of the rows.
VbigdspC2H(H, W) ==
    LET columns == {<<0, 0>>, <<1, W \div 2>>}
    IN UNION {Re(c[1], c[2]) \cup Re(W + c[1], (H \div 2) * W + c[2]) : c \in columns}
       \cup UNION {Re(2 * i * W + c[1], i * W + c[2]) \cup Im((2 * i + 1) * W + c[1], i * W + c[2], 1) :
                   i \in 1 .. H \div 2 - 1, c \in columns}
       \cup UNION {Re(i * W + 2 * j, i * W + j) \cup Im(i * W + 2 * j + 1, i * W + j, 1) :
                   i \in 0 .. H - 1, j \in 1 .. W \div 2 - 1}

VbigdspH2C(H, W) ==
    LET columns == {<<0, 0>>, <<1, W \div 2>>}
    IN UNION {NoImag(c[2], c[1]) \cup NoImag((H \div 2) * W + c[2], W + c[1]) : c \in columns}
       \cup UNION {Both(i * W + c[2], (H - i) * W + c[2], 2 * i * W + c[1], (2 * i + 1) * W + c[1], 1) :
                   i \in 1 .. H \div 2 - 1, c \in columns}
       \cup UNION {Both(i * W + j, C(i, H) * W + W - j, i * W + 2 * j, i * W + 2 * j + 1, 1) :
                   i \in 0 .. H - 1, j \in 1 .. W \div 2 - 1}

\* vdsp/doit.c: real and imaginary parts in arrays of their own, without the
\* middle element or column, whose numbers are where imaginary parts are 0.
Vdsp1dC2H(n) ==
    Re(0, 0) \cup Re(Second, n \div 2)
    \cup UNION {Re(i, i) \cup Im(Second + i, i, 1) : i \in 1 .. n \div 2 - 1}

Vdsp1dH2C(n) ==
    NoImag(0, 0) \cup NoImag(n \div 2, Second)
    \cup UNION {Both(i, n - i, i, Second + i, 1) : i \in 1 .. n \div 2 - 1}

\* In two dimensions the first and the middle column are themselves packed.
Vdsp2dC2H(n0, n1) ==
    LET h == n1 \div 2
        columns == {<<0, 0>>, <<Second, h>>}
    IN UNION {Re(c[1], c[2]) \cup Re(c[1] + h, (n0 \div 2) * n1 + c[2]) : c \in columns}
       \cup UNION {Re(c[1] + 2 * i * h, i * n1 + c[2]) \cup Im(c[1] + (2 * i + 1) * h, i * n1 + c[2], 1) :
                   i \in 1 .. n0 \div 2 - 1, c \in columns}
       \cup UNION {Re(i * h + j, i * n1 + j) \cup Im(Second + i * h + j, i * n1 + j, 1) :
                   i \in 0 .. n0 - 1, j \in 1 .. h - 1}

Vdsp2dH2C(n0, n1) ==
    LET h == n1 \div 2
        columns == {<<0, 0>>, <<Second, h>>}
    IN UNION {NoImag(c[2], c[1]) \cup NoImag((n0 \div 2) * n1 + c[2], c[1] + h) : c \in columns}
       \cup UNION {Both(i * n1 + c[2], (n0 - i) * n1 + c[2],
                        c[1] + 2 * i * h, c[1] + (2 * i + 1) * h, 1) :
                   i \in 1 .. n0 \div 2 - 1, c \in columns}
       \cup UNION {Both(i * n1 + j, C(i, n0) * n1 + n1 - j, i * h + j, Second + i * h + j, 1) :
                   i \in 0 .. n0 - 1, j \in 1 .. h - 1}

\* Even and odd elements of a real array in different arrays.
VdspC2R(n) ==
    UNION {Re(i, 2 * i) \cup Re(Second + i, 2 * i + 1) : i \in 0 .. n \div 2 - 1}
    \cup IF n % 2 = 1 THEN Re(n \div 2, n - 1) ELSE {}

VdspR2C(n) ==
    UNION {NoImag(2 * i, i) \cup NoImag(2 * i + 1, Second + i) : i \in 0 .. n \div 2 - 1}
    \cup IF n % 2 = 1 THEN NoImag(n - 1, n \div 2) ELSE {}

\* fxt/doitr.cc, "crazy format"; the sign of c2h is that of the other direction.
FxtC2H(n) ==
    Re(0, 0) \cup Re(1, n \div 2)
    \cup UNION {Re(2 * i, i) \cup Im(n - 2 * i + 1, i, -1) : i \in 1 .. n \div 2 - 1}

FxtH2C(n) ==
    NoImag(0, 0) \cup NoImag(n \div 2, 1)
    \cup UNION {Both(i, n - i, 2 * i, n - 2 * i + 1, 1) : i \in 1 .. n \div 2 - 1}

\* fftreal/doit.cc: the imaginary parts follow the real ones.
FftrealC2H(n) ==
    UNION {Re(i, i) : i \in 0 .. n \div 2}
    \cup UNION {Im(n \div 2 + i, i, -1) : i \in 1 .. n \div 2 - 1}

FftrealH2C(n) ==
    NoImag(0, 0) \cup NoImag(n \div 2, n \div 2)
    \cup UNION {Both(i, n - i, i, n \div 2 + i, -1) : i \in 1 .. n \div 2 - 1}

\* statlib: halfcomplex with the second half in the opposite order, which the
\* code turns by exchanging cells from both ends towards the middle.
Turned(n, cell) == IF cell <= n \div 2 THEN cell ELSE n - (cell - n \div 2)

StatlibC2H(n) ==
    UNION {Re(i, i) : i \in 0 .. n \div 2}
    \cup UNION {Im(Turned(n, n - i), i, 1) : i \in 1 .. (n - 1) \div 2}

StatlibH2C(n) ==
    NoImag(0, 0) \cup (IF n % 2 = 0 THEN NoImag(n \div 2, n \div 2) ELSE {})
    \cup UNION {Both(i, n - i, i, Turned(n, n - i), 1) : i \in 1 .. (n - 1) \div 2}

-----------------------------------------------------------------------------
\* The common formats of real data and of complex data in two arrays.
C2RPacked(n) == UNION {Re(i, i) : i \in 0 .. n - 1}
R2CPacked(n) == UNION {NoImag(i, i) : i \in 0 .. n - 1}

C2RUnpacked(n0, n) ==
    LET ld == 2 * (1 + n \div 2)
    IN UNION {Re(k0 * ld + c, k0 * n + c) : k0 \in 0 .. n0 - 1, c \in 0 .. n - 1}
R2CUnpacked(n0, n) ==
    LET ld == 2 * (1 + n \div 2)
    IN UNION {NoImag(k0 * n + c, k0 * ld + c) : k0 \in 0 .. n0 - 1, c \in 0 .. n - 1}

C2RI(n) == UNION {Re(i, i) \cup Im(Second + i, i, 1) : i \in 0 .. n - 1}
RI2C(n) == UNION {To(i, i, Second + i, 1) : i \in 0 .. n - 1}

-----------------------------------------------------------------------------
\* nr/doit.c: rows of n2 cells and, in a second array, the middle column.  Rows
\* of rank 2 are those of a plane.
Plane(n) == IF Len(n) = 3 THEN n ELSE <<1>> \o n
NrRows(n) == Plane(n)[1] * Plane(n)[2]

NrC2H(n) ==
    LET n2 == Plane(n)[3]
    IN UNION {Re(r * n2 + 2 * c, r * n2 + c) \cup Im(r * n2 + 2 * c + 1, r * n2 + c, -1) :
              r \in 0 .. NrRows(n) - 1, c \in 0 .. n2 \div 2 - 1}
       \cup UNION {Re(Second + 2 * r, r * n2 + n2 \div 2) \cup Im(Second + 2 * r + 1, r * n2 + n2 \div 2, -1) :
                   r \in 0 .. NrRows(n) - 1}

\* What copy_h2c_unpacked(p, out, 1.0) then makes of the expanded rows.
NrH2C(n) ==
    LET q == Plane(n)
        h == q[3] \div 2
        mirror(r) == C(r \div q[2], q[1]) * q[2] + C(r % q[2], q[2])
    IN UNION {To(r * q[3] + c, 2 * (r * (h + 1) + c), 2 * (r * (h + 1) + c) + 1, -1) :
              r \in 0 .. NrRows(n) - 1, c \in 0 .. h}
       \cup UNION {To(r * q[3] + c, 2 * (mirror(r) * (h + 1) + q[3] - c),
                      2 * (mirror(r) * (h + 1) + q[3] - c) + 1, 1) :
                   r \in 0 .. NrRows(n) - 1, c \in h + 1 .. q[3] - 1}

-----------------------------------------------------------------------------
\* The assignments of problem q.
C2H(q) ==
    LET n == q.n
    IN CASE q.fmt = "ooura2d" -> Ooura2dC2H(n[1], n[2])
         [] q.fmt = "ooura3d" -> Ooura3dC2H(n[1], n[2], n[3])
         [] q.fmt = "mkl" -> MklC2H(n[1], n[2])
         [] q.fmt = "mklf" -> MklfC2H(n[2], n[1])
         [] q.fmt = "green" -> GreenC2H(n[1], n[2])
         [] q.fmt = "vbigdsp" -> VbigdspC2H(n[1], n[2])
         [] q.fmt = "vdsp" -> IF Len(n) = 1 THEN Vdsp1dC2H(n[1]) ELSE Vdsp2dC2H(n[1], n[2])
         [] q.fmt = "vdsp_real" -> VdspC2R(n[1])
         [] q.fmt = "fxt" -> FxtC2H(n[1])
         [] q.fmt = "fftreal" -> FftrealC2H(n[1])
         [] q.fmt = "statlib" -> StatlibC2H(n[1])
         [] q.fmt = "packed_real" -> C2RPacked(n[1])
         [] q.fmt = "unpacked_real" -> C2RUnpacked(n[1], n[2])
         [] q.fmt = "split" -> C2RI(n[1])
         [] q.fmt = "nr" -> NrC2H(n)

H2C(q) ==
    LET n == q.n
    IN CASE q.fmt = "ooura2d" -> Ooura2dH2C(n[1], n[2])
         [] q.fmt = "ooura3d" -> Ooura3dH2C(n[1], n[2], n[3])
         [] q.fmt = "mkl" -> MklH2C(n[1], n[2])
         [] q.fmt = "mklf" -> MklfH2C(n[2], n[1])
         [] q.fmt = "green" -> GreenH2C(n[1], n[2])
         [] q.fmt = "vbigdsp" -> VbigdspH2C(n[1], n[2])
         [] q.fmt = "vdsp" -> IF Len(n) = 1 THEN Vdsp1dH2C(n[1]) ELSE Vdsp2dH2C(n[1], n[2])
         [] q.fmt = "vdsp_real" -> VdspR2C(n[1])
         [] q.fmt = "fxt" -> FxtH2C(n[1])
         [] q.fmt = "fftreal" -> FftrealH2C(n[1])
         [] q.fmt = "statlib" -> StatlibH2C(n[1])
         [] q.fmt = "packed_real" -> R2CPacked(n[1])
         [] q.fmt = "unpacked_real" -> R2CUnpacked(n[1], n[2])
         [] q.fmt = "split" -> RI2C(n[1])
         [] q.fmt = "nr" -> NrH2C(n)

\* ooura doubles the cells of its input, ascale(p->in, p->size, 2.0); vdsp halves
\* its result.
Doubling(q, cell) ==
    IF q.fmt \in {"ooura2d", "ooura3d"} /\ cell < Cardinality(DOMAIN q.z) THEN 2 ELSE 1
Halving(q) == IF q.fmt = "vdsp" THEN 2 ELSE 1

\* What a place holds to which these values are assigned.
Settled(values) == IF Cardinality(values) = 1 THEN CHOOSE v \in values : TRUE ELSE Junk

Value(q, s) == s.sign * Doubling(q, s.cell) * (IF s.part = "re" THEN q.z[s.e].re ELSE q.z[s.e].im)
Load(cell) == IF cell \in DOMAIN reals THEN reals[cell] ELSE Junk

\* What problem_alloc allocates for a real problem.
Allocated(q) == FoldFunction(LAMBDA x, y : x * y, 1, [d \in DOMAIN q.n |-> q.n[d] + 2])

-----------------------------------------------------------------------------
OwnInit == /\ p \in Problems
           /\ pc = "c2h" /\ row = 0 /\ column = 0
           /\ reals = [c \in {} |-> Junk]
           /\ out = [e \in DOMAIN p.z |-> [re |-> Junk, im |-> Junk]]

\* The copy_c2h or copy_c2r of the doit program.
CopyC2H ==
    /\ pc = "c2h"
    /\ LET assignments == C2H(p)
       IN reals' = [c \in {s.cell : s \in assignments} |->
                       Settled({Value(p, s) : s \in {t \in assignments : t.cell = c}})]
    /\ IF p.fmt = "nr"
       THEN pc' = "expand" /\ row' = NrRows(p.n) - 1 /\ column' = p.n[Len(p.n)] \div 2 - 1
       ELSE pc' = "h2c" /\ UNCHANGED <<row, column>>
    /\ UNCHANGED <<p, out>>

\* nr makes room for the middle column in place, from the last row back to the
\* first and in each from the last element, which is that of the middle column
\* and is stored when the others have moved.
Expand ==
    /\ pc = "expand"
    /\ LET h == p.n[Len(p.n)] \div 2
           move(to, from) == [c \in DOMAIN reals \cup {2 * to, 2 * to + 1} |->
                                  CASE c = 2 * to -> Load(from)
                                    [] c = 2 * to + 1 -> Load(from + 1)
                                    [] OTHER -> reals[c]]
       IN IF column >= 0
          THEN /\ reals' = move(row * (h + 1) + column, 2 * (row * h + column))
               /\ column' = column - 1 /\ UNCHANGED <<row, pc>>
          ELSE /\ reals' = move(row * (h + 1) + h, Second + 2 * row)
               /\ IF row > 0 THEN row' = row - 1 /\ column' = h - 1 /\ UNCHANGED pc
                             ELSE row' = 0 /\ column' = 0 /\ pc' = "h2c"
    /\ UNCHANGED <<p, out>>

\* The copy_h2c or copy_r2c.
CopyH2C ==
    /\ pc = "h2c"
    /\ LET assignments == H2C(p)
           of(e) == {s \in assignments : s.e = e}
       IN out' = [e \in DOMAIN out |->
                     [re |-> Settled({Load(s.re) : s \in of(e)}) \div Halving(p),
                      im |-> Settled({s.sign * Load(s.im) : s \in of(e)}) \div Halving(p)]]
    /\ pc' = "done"
    /\ UNCHANGED <<p, row, column, reals>>

OwnNext == CopyC2H \/ Expand \/ CopyH2C

-----------------------------------------------------------------------------
\* The array comes back, times the factor that makes up for that of the
\* library, and for fxt, whose two directions have one sign, as its conjugate;
\* and nothing is written outside the array that problem_alloc allocates.  (A
\* mistake that both functions of a pair make alike is not seen by this.)
Expected(q, c) == CASE q.fmt \in {"ooura2d", "ooura3d"} -> [re |-> 2 * c.re, im |-> 2 * c.im]
                    [] q.fmt = "vdsp" -> [re |-> c.re \div 2, im |-> c.im \div 2]
                    [] q.fmt = "fxt" -> Conj(c)
                    [] OTHER -> c
RoundTrip == pc = "done" =>
    /\ out = [e \in DOMAIN p.z |-> Expected(p, p.z[e])]
    /\ \A c \in DOMAIN reals : c < Second => c < Allocated(p)
=============================================================================
