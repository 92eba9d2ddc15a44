-------------------------- MODULE RoutineAdaptors --------------------------
(***************************************************************************)
(* The doit programs of single FFT routines, from books, journals and the  *)
(* net, for the most part of one dimension and powers of two.              *)
(***************************************************************************)
EXTENDS AdaptorBase

\* What most of them accept.
ComplexLine(q) == q.rank = 1 /\ IsComplex(q)
ComplexLine2(q) == ComplexLine(q) /\ problem_power_of_two(q, TRUE)

Arprec(q) == [Owns(OneArray(q), {"y"}) EXCEPT
    !.can = Double(q) /\ ComplexLine2(q) /\ q.n[1] >= 4]

\* Bloodworth's FFT, and its fast Hartley transform for real data.
Bloodworth(q, fht) == [OneArray(q) EXCEPT
    !.can = /\ q.rank = 1 /\ problem_power_of_two(q, TRUE)
            /\ fht => q.n[1] >= 8 /\ IsReal(q),
    !.herm = IF fht THEN "halfcomplex" ELSE "packed"]

Burrus(q) == [Split(OneArray(q)) EXCEPT !.can = Single(q) /\ ComplexLine2(q)]

Cross(q) == [Split(Libbench(q)) EXCEPT
                 !.can = ComplexLine(q) /\ problem_power_of_two(q, FALSE)]

\* CWPLIB: complex data in place in one or two dimensions, real data in one;
\* npfa and npfar of the library say for which sizes, here those of factors
\* among 2, 3, 4, 5, 7, 8, 9, 11, 13 and 16 that have no factor in common.
PrimeFactorSizes == {a * b * c * d * e * f : a \in {1, 2, 4, 8, 16},
                        b \in {1, 3, 9}, c \in {1, 5}, d \in {1, 7},
                        e \in {1, 11}, f \in {1, 13}}

Cwplib(q) == [(IF IsComplex(q) THEN OneArray(q) ELSE Libbench(q)) EXCEPT
    !.can = /\ Single(q)
            /\ IF IsComplex(q)
               THEN /\ q.rank <= 2 /\ q.inPlace
                    /\ \A i \in 1 .. q.rank : q.n[i] \in PrimeFactorSizes
               ELSE q.rank = 1 /\ q.n[1] \in {2 * x : x \in PrimeFactorSizes},
    !.herm = "unpacked"]

\* FFTPACK in single and, in dfftpack, in double precision.
FftpackIn(q, prec) == [Owns(OneArray(q), {"WSAVE"}) EXCEPT
                         !.can = q.prec = prec /\ q.rank = 1 /\ q.inPlace,
                         !.herm = "fftpack"]

Fftpack(q) == FftpackIn(q, "single")
Dfftpack(q) == FftpackIn(q, "double")

\* The programs of the DSP collection.  FOUREA, FAST and FFA, Singleton's
\* FFT, the Winograd transform and the radix 4 transform.
DspMax == 32768
Dsp11(q) == [OneArray(q) EXCEPT
                 !.can = Single(q) /\ ComplexLine2(q) /\ q.n[1] <= DspMax]
Dsp12(q) == [Split(Dsp11(q)) EXCEPT !.can = Dsp11(q).can]
Dsp12Real(q) == [OneArray(q) EXCEPT
    !.can = /\ Single(q) /\ q.rank = 1 /\ IsReal(q)
            /\ problem_power_of_two(q, TRUE) /\ q.n[1] <= DspMax,
    !.herm = "unpacked"]
Dsp12Fast(q) == Dsp12Real(q)
Dsp12Ffa(q) == Dsp12Real(q)
Dsp14(q) == [OneArray(q) EXCEPT
    !.can = /\ Single(q) /\ q.rank = 1 /\ (IsComplex(q) \/ IsEven(q.n[1]))
            /\ q.inPlace /\ q.n[1] # 1960 /\ q.n[1] < 12754584,
    !.herm = "unpacked"]

\* One of 2, 4, 8, 16, one of 3, 9, and 7 and 5, each at most once.
WinogradSizes == {a * b * c * d : a \in {1, 2, 4, 8, 16}, b \in {1, 3, 9},
                                  c \in {1, 7}, d \in {1, 5}}
Dsp17(q) == [Split(OneArray(q)) EXCEPT
    !.can = /\ Single(q) /\ ComplexLine(q) /\ q.inPlace
            /\ q.n[1] \in WinogradSizes]

\* fxt, complex: the C++ arrays x and md; x replaces p->in and p->out.
Fxt(q) == [Owns(Libbench(q), {"x", "md"}) EXCEPT
               !.can = Double(q) /\ ComplexLine2(q),
               !.src = "x", !.reads = "x", !.writes = "x", !.dst = "x"]

\* fxt with two arrays of reals, in one, two or several dimensions.
FxtSplit(q, ranks) == [Owns(Split(OneArray(q)), {"md"}) EXCEPT
    !.can = /\ Double(q) /\ IsComplex(q) /\ q.rank \in ranks
            /\ problem_power_of_two(q, TRUE),
    !.dst = "in"]

\* fxt, real; one of the routines has a crazy format that needs an even size.
FxtReal(q, packed) == [OneArray(q) EXCEPT
    !.can = /\ Double(q) /\ IsReal(q) /\ q.rank = 1 /\ q.n[1] > 1
            /\ problem_power_of_two(q, TRUE),
    !.stops = packed /\ ~IsEven(q.n[1]),
    !.herm = IF packed THEN "own crazy" ELSE "halfcomplex"]

Glassman(q) == [Owns(OneArray(q), {"work"}) EXCEPT
                    !.can = Single(q) /\ ComplexLine(q) /\ q.inPlace]

Goedecker(q) == [Libbench(q) EXCEPT
    !.can = /\ q.rank = 3 /\ Double(q) /\ IsComplex(q)
            /\ \A i \in 1 .. 3 : q.n[i] <= 2048
            /\ Factors(Size(q), 5) /\ ~q.inPlace]

Gpfa(q) == [Owns(OneArray(q), {"TRIGS"}) EXCEPT
    !.can = /\ Single(q) /\ ComplexLine(q) /\ q.inPlace
            /\ Factors(q.n[1], 5)]

\* Three dimensions of at most NMAX/2; a first call of doit makes the tables.
Gpfa3d(q) == [OneArray(q) EXCEPT
    !.can = /\ Single(q) /\ q.rank = 3 /\ IsComplex(q)
            /\ \A i \in 1 .. 3 : q.n[i] <= 256 \div 2
            /\ q.inPlace
            /\ \A i \in 1 .. 3 : Factors(q.n[i], 5)]

Harm(q) == [Owns(OneArray(q), {"inv", "s"}) EXCEPT
    !.can = /\ q.rank <= 3 /\ IsComplex(q) /\ power_of_two(Size(q))
            /\ q.inPlace
            /\ \A i \in 1 .. q.rank : 2 < q.n[i] /\ q.n[i] <= 2^17]

KrukarMax == 4096
Krukar(q) == [OneArray(q) EXCEPT
                  !.can = Single(q) /\ ComplexLine2(q) /\ q.n[1] <= KrukarMax]

\* Forward only, out of place, prime factors up to maxPrimeFactor.
Mixfft(q) == [Split(Libbench(q)) EXCEPT
    !.can = /\ Double(q) /\ ComplexLine(q) /\ Factors(q.n[1], 37)
            /\ ~q.inPlace /\ q.sign = -1]

Monnier(q) == [OneArray(q) EXCEPT !.can = ComplexLine(q) /\ q.inPlace]

-----------------------------------------------------------------------------
\* The routine works on its own common block, which problem_alloc hands out
\* as p->in and p->out.
PowerOf4(x) == IsEven(log_2(x))
MorrisMax == 1024

Morris(q) == [Split(OneArray(q)) EXCEPT
    !.can = /\ Single(q) /\ q.sign = -1 /\ ComplexLine2(q)
            /\ PowerOf4(q.n[1]) /\ 4 < q.n[1] /\ q.n[1] <= MorrisMax]

Dsp18(q) == [OneArray(q) EXCEPT
    !.can = /\ Single(q) /\ ComplexLine2(q) /\ PowerOf4(q.n[1])
            /\ 4 < q.n[1] /\ q.n[1] <= MorrisMax]

MpfunCan(q) == Double(q) /\ ComplexLine(q) /\ q.n[1] >= 4
                   /\ problem_power_of_two(q, TRUE)

\* MPFUN's FFT in Fortran 77 and 90, with the tables that mpinix makes.
Mpfun77(q) == [Owns(Split(OneArray(q)), {"y", "u"}) EXCEPT
                   !.can = MpfunCan(q), !.dst = "in"]
Mpfun90(q) == [Owns(OneArray(q), {"y"}) EXCEPT !.can = MpfunCan(q)]

Napack(q) == [Owns(OneArray(q), {"work"}) EXCEPT
    !.can = Single(q) /\ ComplexLine(q) /\ q.n[1] > 1 /\ q.inPlace]

Numutils(q) == [Owns(Libbench(q), {"SN", "CN"}) EXCEPT
                    !.can = Double(q) /\ ComplexLine(q) /\ ~q.inPlace]

\* The real transform is buggy, and not accepted.
Ransom(q) == [OneArray(q) EXCEPT
    !.can = Single(q) /\ ComplexLine2(q) /\ q.n[1] > 2, !.herm = "packed"]

Rmayer(q) == [Split(OneArray(q)) EXCEPT
    !.can = /\ Double(q) /\ q.rank = 1 /\ problem_power_of_two(q, TRUE)
            /\ q.n[1] > 2,
    !.herm = "halfcomplex"]

Sciport(q) == [Owns(Libbench(q), {"work"}) EXCEPT
    !.can = /\ q.rank = 1 /\ q.n[1] >= (IF IsComplex(q) THEN 4 ELSE 8)
            /\ power_of_two(q.n[1]),
    !.herm = "unpacked"]

\* Singleton's mixed radix; a real problem is a complex one of half its size.
Singleton(q) == [OneArray(q) EXCEPT
    !.can = /\ Single(q) /\ q.rank = 1 /\ (IsReal(q) => IsEven(q.n[1]))
            /\ Factors(q.n[1], 23) /\ q.inPlace,
    !.herm = "unpacked"]

Singleton3d(q) == [OneArray(q) EXCEPT
    !.can = /\ Single(q) /\ q.rank = 3 /\ IsComplex(q) /\ q.inPlace
            /\ \A i \in 1 .. 3 : Factors(q.n[i], 23)]

\* Mayer's radix 8 transforms of the net; setup calls doit once.
Emayer(q) == [OneArray(q) EXCEPT
    !.can = /\ Double(q) /\ q.rank = 1 /\ problem_power_of_two(q, TRUE)
            /\ IF IsComplex(q) THEN 8 <= q.n[1] /\ q.n[1] <= 2^18
                               ELSE 16 <= q.n[1] /\ q.n[1] <= 2^19,
    !.herm = "packed"]

Esrfft(q) == [Owns(Split(OneArray(q)), {"ibeta"}) EXCEPT
                  !.can = Double(q) /\ ComplexLine2(q)]

\* FFTE: out of place in one dimension, in place in two and three, which are
\* limited by the parameters NDA2 and NDA3 of the library.
NDA2 == 32768
NDA3 == 1024
Ffte(q) == [(IF q.rank = 1 THEN Libbench(q) ELSE OneArray(q)) EXCEPT
    !.can = /\ Double(q) /\ q.rank <= 3 /\ IsComplex(q)
            /\ Factors(Size(q), 5) /\ (q.inPlace <=> q.rank # 1)
            /\ q.rank = 2 => \A i \in 1 .. 2 : q.n[i] <= NDA2
            /\ q.rank = 3 => \A i \in 1 .. 3 : q.n[i] <= NDA3,
    !.stops = q.rank > 3]

Fftreal(q) == [Owns(Libbench(q), {"fft"}) EXCEPT
    !.can = problem_power_of_two(q, FALSE) /\ IsReal(q) /\ q.rank = 1,
    !.herm = "own fftreal"]

-----------------------------------------------------------------------------
\* Sorensen's split radix FFT with tables, which done does not free.
SorensenTables(q) == [Split(OneArray(q)) EXCEPT
    !.can = Single(q) /\ q.sign = -1 /\ ComplexLine2(q),
    !.alloc = {"CT1", "CT3", "ST1", "ST3", "ITAB"}]

\* The real transforms of the two directions cannot be linked together, and
\* become unstable for large N.
SorensenMax == 16384
SorensenReal(q, sign) == [OneArray(q) EXCEPT
    !.can = /\ Single(q) /\ q.rank = 1 /\ q.n[1] <= SorensenMax /\ q.sign = sign
            /\ IsReal(q) /\ problem_power_of_two(q, TRUE),
    !.herm = "halfcomplex"]

Sorensen(q) == [Split(OneArray(q)) EXCEPT
                    !.can = Single(q) /\ ComplexLine2(q)]

\* Statlib's chirp transform works on xre and its second half, xim; copy_h2c
\* brings the result to p->out to reorder it, copy_c2h comes from p->in.
Statlib117(q) == [Owns(Split(Libbench(q)), {"wre", "wim", "xre"}) EXCEPT
    !.can = /\ Single(q) /\ q.rank = 1
            /\ \/ IsComplex(q) /\ 3 <= q.n[1] /\ q.n[1] <= 2^19 - 1
               \/ /\ IsReal(q) /\ 6 <= q.n[1] /\ q.n[1] <= 2^20 - 2
                  /\ IsEven(q.n[1])
            /\ q.inPlace,
    !.src = "xre", !.reads = "xre", !.writes = "xre", !.dst = "xre",
    !.herm = "halfcomplex"]

Statlib83(q) == [Split(OneArray(q)) EXCEPT
    !.can = Single(q) /\ ComplexLine2(q) /\ 4 <= q.n[1] /\ q.n[1] <= 2^20]

Statlib97(q) == [OneArray(q) EXCEPT
    !.can = /\ Single(q) /\ q.rank = 1 /\ 8 <= q.n[1] /\ q.n[1] <= 2^21
            /\ IsReal(q) /\ problem_power_of_two(q, TRUE),
    !.herm = "halfcomplex"]

\* Even sizes only, and room for n + 2 numbers, of which two are cleared.
Temperton(q) == [Owns(OneArray(q), {"trigs", "work"}) EXCEPT
    !.can = /\ Single(q) /\ q.rank = 1 /\ IsReal(q) /\ Factors(q.n[1], 5)
            /\ IsEven(q.n[1]) /\ q.n[1] > 4 /\ q.inPlace,
    !.herm = "unpacked"]

\* The only program that looks at p->split; setup and doit know three ranks.
Teneyck(q) == [(IF q.split THEN Split(OneArray(q)) ELSE OneArray(q)) EXCEPT
    !.can = /\ Single(q) /\ q.rank <= 3 /\ IsComplex(q) /\ q.inPlace
            /\ \A i \in 1 .. q.rank :
                   check_prime_factors(q.n[i], 19) \in 1 .. 14,
    !.stops = q.rank > 3]

Valkenburg(q) == [Libbench(q) EXCEPT
                      !.can = Double(q) /\ ComplexLine(q) /\ ~q.inPlace]

\* Numerical Recipes in Fortran and in C: rlft3 keeps the last column of the
\* hermitian array in speq, and the version in C wants arrays of pointers.
NrTables(q, c) == IF IsComplex(q) \/ q.rank = 1 THEN {}
                  ELSE IF c THEN {"speq", "speq_p", "data_p", "data_p[i]"}
                            ELSE {"speq"}
Nr(q, c) == [Owns(OneArray(q), NrTables(q, c)) EXCEPT
    !.can = /\ Single(q)
            /\ IsComplex(q) \/ (IsEven(LastDim(q)) /\ q.rank <= 3)
            /\ problem_power_of_two(q, TRUE),
    !.herm = IF q.rank = 1 THEN "packed" ELSE "own rlft3"]

\* Ooura's transforms of one, two and three dimensions, some of the second
\* kind without the work array t; of the third kind done forgets the rows.
OouraCan(q, rank) ==
    /\ Double(q) /\ q.rank = rank
    /\ LastDim(q) >= 2 \/ IsComplex(q)
    /\ problem_power_of_two(q, TRUE)
Ooura(q) == [Owns(OneArray(q), {"w", "ip"}) EXCEPT
                 !.can = OouraCan(q, 1), !.herm = "packed"]
Ooura2d(q, tables) == [Owns(OneArray(q), tables) EXCEPT
                           !.can = OouraCan(q, 2), !.herm = "own ooura2d"]
Ooura3d(q) == [Owns(OneArray(q), {"a", "a[i]", "t", "w", "ip"}) EXCEPT
                   !.can = OouraCan(q, 3), !.herm = "own ooura3d",
                   !.frees = {"a", "t", "w", "ip"}]

\* The quick Fourier transform, of sizes from NN on.
Qft(q, NN) == [Owns(Split(Libbench(q)), {"tables"}) EXCEPT
    !.can = /\ Single(q) /\ q.rank = 1 /\ problem_power_of_two(q, FALSE)
            /\ q.n[1] >= NN,
    !.herm = "unpacked_ri"]
=============================================================================
