----------------------------- MODULE CyclicRing -----------------------------
(***************************************************************************)
(* Exact arithmetic for the transforms: in place of a complex number        *)
(* x + iy stands the pair x + Jy, x - Jy of integers modulo 4801, where    *)
(* J * J = -1.  Sums and products are taken in each component, conjugation *)
(* exchanges them, and exp(2 pi i m/n) is a power of a root of unity and   *)
(* its inverse.  Whatever identity of the transforms follows from the laws *)
(* of arithmetic and of the roots of unity holds here as it does there,    *)
(* and without rounding.  There are n-th roots for the divisors n of 960.  *)
(***************************************************************************)
EXTENDS Integers, Sequences

P == 4801
G == 51     \* of order 960
J == 1403   \* G to the 240th: J * J = -1

Powers == LET square(z) == (z * z) % P
              pow[k \in 0 .. 959] == CASE k = 0 -> 1
                                       [] k % 2 = 1 -> (G * pow[k - 1]) % P
                                       [] OTHER -> square(pow[k \div 2])
          IN [k \in 0 .. 959 |-> pow[k]]

Plus(z, w)  == <<(z[1] + w[1]) % P, (z[2] + w[2]) % P>>
Minus2(z, w) == <<(z[1] - w[1]) % P, (z[2] - w[2]) % P>>
Times(z, w) == <<(z[1] * w[1]) % P, (z[2] * w[2]) % P>>
Conjugate(z) == <<z[2], z[1]>>

Number(x) == <<x % P, x % P>>
Negative(z) == Minus2(<<0, 0>>, z)
Zero == Number(0)
One  == Number(1)
I    == <<J, P - J>>

Half == (P + 1) \div 2
RealPart(z) == Number((z[1] + z[2]) * Half)

\* 1/n, exp(2 pi i m / n), and its two parts.
Inverse1(n) == Number(CHOOSE x \in 1 .. P - 1 : (x * n) % P = 1)
Exp(m, n) == <<Powers[(m * (960 \div n)) % 960], Powers[(-m * (960 \div n)) % 960]>>
Cosine(m, n) == RealPart(Exp(m, n))
Sine(m, n) == RealPart(Times(Conjugate(I), Exp(m, n)))

SumOf(f, n) == LET S[k \in 0 .. n] == IF k = 0 THEN Zero ELSE Plus(S[k - 1], f[k - 1])
               IN S[n]
=============================================================================
