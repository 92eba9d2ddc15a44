-------------------------- MODULE TransformArrays --------------------------
(***************************************************************************)
(* The arrays that a problem is about, and its transform.  A problem q has *)
(* the list n of its dimensions and the sign of its exponent.              *)
(***************************************************************************)
EXTENDS CyclicRing

\* Arrays of size elements in row-major order, and the indices of one.
Product(n, from, to) == LET Q[d \in from .. to + 1] == IF d > to THEN 1 ELSE n[d] * Q[d + 1]
                        IN IF from > to THEN 1 ELSE Q[from]
Size(q) == Product(q.n, 1, Len(q.n))
Elements(q) == 0 .. Size(q) - 1
Before(q, d) == Product(q.n, 1, d - 1)
After(q, d) == Product(q.n, d + 1, Len(q.n))
Digit(q, d, e) == (e \div After(q, d)) % q.n[d]

Put(q, d, e, i) == e + (i - Digit(q, d, e)) * After(q, d)
MirrorDigits(q, e) ==
    LET M[d \in 0 .. Len(q.n)] ==
            IF d = 0 THEN e
            ELSE Put(q, d, M[d - 1], (q.n[d] - Digit(q, d, e)) % q.n[d])
    IN M[Len(q.n)]

Map(q, f(_)) == [e \in Elements(q) |-> f(e)]
-----------------------------------------------------------------------------
\* The transform of problem q.
Twiddle(q, e, f) ==
    LET W[d \in 0 .. Len(q.n)] ==
            IF d = 0 THEN One
            ELSE Times(W[d - 1], Exp(q.sign * Digit(q, d, e) * Digit(q, d, f), q.n[d]))
    IN W[Len(q.n)]

Matrix(q) == [e \in Elements(q) |-> [f \in Elements(q) |-> Twiddle(q, e, f)]]
Apply(q, m, A) == Map(q, LAMBDA e : SumOf([f \in Elements(q) |-> Times(m[e][f], A[f])], Size(q)))
=============================================================================
