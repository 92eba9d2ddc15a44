-------------------------- MODULE LibraryAdaptors --------------------------
(***************************************************************************)
(* The doit programs of FFT libraries: those of the vendors, and those     *)
(* that plan a transform before they compute it.                           *)
(***************************************************************************)
EXTENDS AdaptorBase

\* FFTW 2, in one dimension and in several: a plan for every problem.
Fftw2(q) == [Owns(Libbench(q), {"plan"}) EXCEPT
                 !.can = q.rank = 1,
                 !.herm = "halfcomplex"]

PaddedInPlace(q) == IF q.inPlace THEN Padded(q) ELSE Packed(q)

Fftw2Nd(q) == [Owns(Libbench(q), {"plan"}) EXCEPT
                   !.real = PaddedInPlace(q), !.ld = PaddedInPlace(q),
                   !.herm = "unpacked"]

\* FFTW 3 can do everything, the way God intended; its real transforms of
\* one dimension have a program of their own.
Fftw3(q) == Fftw2Nd(q)
Fftw3Real(q) == [Fftw2(q) EXCEPT !.can = q.rank = 1 /\ IsReal(q)]

\* GSL: wave tables and a work space; done frees the work space for real
\* problems only.
Gsl(q) == [Owns(OneArray(q), {"Wv", "Wk"}) EXCEPT
               !.can = q.rank = 1 /\ q.inPlace,
               !.herm = "fftpack",
               !.frees = IF IsReal(q) THEN {"Wv", "Wk"} ELSE {"Wv"}]

GslRadix2(q, kind) == [OneArray(q) EXCEPT
    !.can = q.rank = 1 /\ q.kind = kind /\ problem_power_of_two(q, TRUE),
    !.herm = "halfcomplex"]

-----------------------------------------------------------------------------
\* IMSL: setup allocates what the rank needs, done frees all the pointers.
ImslTables(q) == CASE IsReal(q) -> {"trig"}
                   [] IsComplex(q) /\ q.rank = 1 -> {"trig", "work"}
                   [] IsComplex(q) /\ q.rank = 2 -> {"trig", "trig2", "work"}
                   [] OTHER -> {"trig", "trig2", "trig3", "work"}

Imsl(q) == [Owns(Libbench(q), ImslTables(q)) EXCEPT
                !.can = q.rank = 1 \/ (q.rank <= 3 /\ IsComplex(q)),
                !.herm = "fftpack",
                !.frees = {"trig", "trig2", "trig3", "work"}]

IntelIpps(q) == [Owns(Libbench(q), {"thing", "buffer"}) EXCEPT
                     !.can = q.rank = 1 /\ problem_power_of_two(q, q.inPlace),
                     !.herm = "packed"]

IntelMklCan(q) == q.rank <= 2 /\ problem_power_of_two(q, TRUE)

IntelMklTables(q) == IF q.rank = 1 THEN {"WSAVE"} ELSE {}

\* MKL from C: WSAVE only in one dimension, but freed always; two dimensions
\* of real data become the layout of dz_copy and zd_copy.
IntelMkl(q) == [Split(OneArray(q)) EXCEPT
                    !.can = IntelMklCan(q),
                    !.real = Padded(q), !.ld = Padded(q),
                    !.herm = IF q.rank = 1 THEN "unpacked_ri" ELSE "own dz",
                    !.alloc = IntelMklTables(q), !.frees = {"WSAVE"}]

\* MKL from Fortran, where done looks at the rank.
IntelMklF(q) == [Owns(OneArray(q), IntelMklTables(q)) EXCEPT
                     !.can = IntelMklCan(q),
                     !.real = Padded(q), !.ld = Padded(q),
                     !.herm = IF q.rank = 1 THEN "unpacked" ELSE "own dzm"]

\* MKL's descriptors: can_do asks the library by creating one, and frees it.
\* The copy functions know hermitian data of one dimension only.
IntelDfti(q) == [Owns(Libbench(q), {"the_descriptor"}) EXCEPT
                     !.probes = {"the_descriptor"},
                     !.real = Padded(q), !.ld = Padded(q),
                     !.herm = IF q.rank = 1 THEN "unpacked" ELSE "none"]

\* Mutant: can_do accepts odd sizes.
KissfftOdd(q) == [Owns(Libbench(q), {"WORK"}) EXCEPT
                      !.can = ~q.inPlace,
                      !.stops = IsReal(q) /\ ~IsEven(LastDim(q)),
                      !.real = PaddedInPlace(q), !.herm = "unpacked"]

\* kissfft: can_do wants an even size, and the real transforms of the library
\* an even last dimension; they get no plan, and follow it.
Kissfft(q) == [Owns(Libbench(q), {"WORK"}) EXCEPT
                   !.can = (IsComplex(q) \/ IsEven(Size(q))) /\ ~q.inPlace,
                   !.stops = IsReal(q) /\ ~IsEven(LastDim(q)),
                   !.real = PaddedInPlace(q), !.herm = "unpacked"]

-----------------------------------------------------------------------------
\* SGI's library: one program for each rank, every row 2 * (1 + n1/2) long.
SgiMath(q, rank) == [Owns(OneArray(q), {"WSAVE"}) EXCEPT
    !.can = q.rank = rank /\ q.inPlace,
    !.real = IF rank = 1 THEN Packed(q) ELSE Padded(q),
    !.ld = Rows(q, 2 * (1 + LastDim(q) \div 2)),
    !.herm = "unpacked"]

SgiMath1d(q) == SgiMath(q, 1)
SgiMath2d(q) == SgiMath(q, 2)
SgiMath3d(q) == SgiMath(q, 3)

\* Sun's: the hermitian array has rows of ld = n1/2 + 1, the real one of 2*ld.
Sunperf(q, rank) == [Owns(Libbench(q), {"WORK", "TRIGS"}) EXCEPT
    !.can = q.rank = rank,
    !.real = Padded(q), !.ld = Rows(q, 2 * (LastDim(q) \div 2 + 1)),
    !.herm = "unpacked"]

Sunperf1d(q) == Sunperf(q, 1)
Sunperf2d(q) == Sunperf(q, 2)
Sunperf3d(q) == Sunperf(q, 3)

\* vBigDSP makes its tables in a first call of doit.  In two dimensions the
\* hermitian data are in an insane format, which copy_h2c reads from p->in.
VbigdspCan(q) == /\ Single(q) /\ q.rank <= 2 /\ q.n[1] >= 2
                 /\ IsReal(q) /\ q.rank > 1 => q.n[1] >= 8 /\ q.n[2] >= 8
                 /\ problem_power_of_two(q, TRUE)
Vbigdsp(q) == [OneArray(q) EXCEPT
    !.can = VbigdspCan(q),
    !.herm = IF q.rank = 1 THEN "packed" ELSE "own insane",
    !.dst = IF IsReal(q) /\ q.rank > 1 /\ q.sign = -1 THEN "in" ELSE "out"]

\* Spiral keeps the trees it has planned.
SpiralFft(q) == [OneArray(q) EXCEPT
    !.can = /\ Double(q) /\ q.rank = 1 /\ IsComplex(q)
            /\ q.n[1] < 2^20 /\ problem_power_of_two(q, TRUE)]

-----------------------------------------------------------------------------
\* AMD's library; the work space is initialised by the first call in two and
\* three dimensions and by setup in one.
Acml(q) == [Owns(OneArray(q), {"WORK"}) EXCEPT
    !.can = q.inPlace /\ q.rank <= (IF IsComplex(q) THEN 3 ELSE 1),
    !.herm = "halfcomplex"]

\* Mutant: odd sizes are accepted.
DxmlOdd(q, rank) ==
    LET fs == (IF IsReal(q) THEN "s" ELSE "c") \o q.prec
    IN  [Owns(Libbench(q), {fs}) EXCEPT
             !.can = q.rank = rank,
             !.real = IF rank = 1 THEN Packed(q) ELSE Padded(q),
             !.ld = Rows(q, LastDim(q) + 2),
             !.herm = "unpacked"]

\* DXML: one program for each rank, a structure for each kind and precision;
\* in several dimensions rows are n + 2 long, so real sizes must be even.
Dxml(q, rank) ==
    LET fs == (IF IsReal(q) THEN "s" ELSE "c") \o q.prec
    IN  [Owns(Libbench(q), {fs}) EXCEPT
             !.can = q.rank = rank /\ (IsComplex(q) \/ IsEven(LastDim(q))),
             !.real = IF rank = 1 THEN Packed(q) ELSE Padded(q),
             !.ld = Rows(q, LastDim(q) + 2),
             !.herm = "unpacked"]

Dxml1d(q) == Dxml(q, 1)
Dxml2d(q) == Dxml(q, 2)
Dxml3d(q) == Dxml(q, 3)

\* ESSL's sizes: 2^1 to 2^25 times a number with small factors, not too many
\* of them; check_prime_factors finds none in 1, so no power of 2 will do.
EsslSize(x) ==
    /\ x <= 37748736 /\ IsEven(x)
    /\ LET odd == CHOOSE o \in {x \div 2^k : k \in 1 .. 25} : ~IsEven(o)
       IN  /\ Factors(odd, 11)
           /\ \A f \in {27, 25, 49, 121} : odd % f # 0

EsslTables(q) == {"work1", "work2"}
Essl(q) == [Owns(Libbench(q), EsslTables(q)) EXCEPT
    !.can = q.rank <= 3 /\ \A i \in 1 .. q.rank : EsslSize(q.n[i]),
    !.real = PaddedInPlace(q), !.ld = PaddedInPlace(q),
    !.herm = "unpacked"]

\* Green's library: its tables are initialised and freed for the rank.
GreenTables(rank) == CASE rank = 1 -> "fftInit" [] rank = 2 -> "fft2dInit"
                       [] OTHER -> "fft3dInit"
GreenCan(q) == /\ problem_power_of_two(q, TRUE)
               /\ q.rank <= (IF IsComplex(q) THEN 3 ELSE 2)
Green(q) == [Owns(OneArray(q), {GreenTables(q.rank)}) EXCEPT
    !.can = GreenCan(q),
    !.stops = q.rank > 3,
    !.herm = IF q.rank = 1 THEN "packed" ELSE "own green"]

\* JMFFT: the real array of a backward transform is always padded.
JmfftReal(q) == IF q.inPlace \/ q.sign > 0 THEN Padded(q) ELSE Packed(q)

JmfftTables(q) == {"table", "work"}
Jmfft(q) == [Owns(Libbench(q), JmfftTables(q)) EXCEPT
    !.can = /\ Double(q) /\ q.rank <= 3
            /\ q.rank = 1 => q.n[1] >= (IF IsReal(q) THEN 3 ELSE 2)
            /\ IsComplex(q) \/ IsEven(LastDim(q)),
    !.real = JmfftReal(q), !.ld = JmfftReal(q),
    !.herm = "unpacked"]

\* MFFT: two to four dimensions.
MfftTables == {"w1", "w2", "w3", "w4", "iwork"}
Mfft(q) == [Owns(OneArray(q), MfftTables) EXCEPT
    !.can = /\ Single(q) /\ q.rank \in 2 .. 4
            /\ IsComplex(q) \/ IsEven(LastDim(q))
            /\ q.inPlace /\ \A i \in 1 .. q.rank : Factors(q.n[i], 5),
    !.real = Padded(q), !.ld = Rows(q, LastDim(q) + 2), !.herm = "unpacked"]

\* NAG: a table for each dimension; done frees the first two of them.
NagCan(q) == /\ Double(q) /\ q.inPlace
             /\ q.rank <= (IF IsComplex(q) THEN 3 ELSE 1)
             /\ \A i \in 1 .. q.rank : q.n[i] > 1 /\ Factors(q.n[i], 19)
NagTables(q) == {"work", "trig0"}
                    \cup (IF q.rank >= 2 THEN {"trig1"} ELSE {})
                    \cup (IF q.rank = 3 THEN {"trig2"} ELSE {})
Nag(q, only1d) == [Owns(Split(OneArray(q)), NagTables(q)) EXCEPT
    !.can = NagCan(q) /\ (only1d => q.rank = 1),
    !.herm = "halfcomplex",
    !.frees = {"trig1", "trig0", "work"}]

\* NAG's routines for interleaved complex data: no tables, and any size but 1.
NagComplexCan(q) == /\ Double(q) /\ q.inPlace
                    /\ q.rank <= (IF IsComplex(q) THEN 3 ELSE 1)
                    /\ \A i \in 1 .. q.rank : q.n[i] > 1
NagComplex(q) == [Owns(OneArray(q), {"work"}) EXCEPT
                      !.can = NagComplexCan(q), !.herm = "unpacked"]

\* vDSP has split arrays of its own, ins and outs, one pair in place.
VdspTables(q) == {"fftsetup", "ins.realp", "ins.imagp"}
                     \cup IF q.inPlace THEN {"buf.realp", "buf.imagp"}
                                       ELSE {"outs.realp", "outs.imagp"}
VdspCan(q) == /\ q.rank <= 2
              /\ \A i \in 1 .. q.rank :
                     /\ power_of_two(q.n[i]) /\ q.n[i] <= 2^20
                     /\ q.n[i] >= (IF IsComplex(q) THEN 4 ELSE 8)

\* Mutant: done frees the arrays of both cases.
VdspFreesBoth(q) == [Owns(Split(Libbench(q)), VdspTables(q)) EXCEPT
    !.can = VdspCan(q),
    !.src = "ins", !.reads = "ins", !.writes = "outs", !.dst = "outs",
    !.real = <<"even and odd", LastDim(q)>>,
    !.ld = <<"even and odd", LastDim(q)>>,
    !.herm = "own vdsp",
    !.frees = {"fftsetup", "ins.realp", "ins.imagp", "buf.realp", "buf.imagp",
               "outs.realp", "outs.imagp"}]

Vdsp(q) == [Owns(Split(Libbench(q)), VdspTables(q)) EXCEPT
    !.can = VdspCan(q),
    !.src = "ins", !.reads = "ins", !.writes = "outs", !.dst = "outs",
    !.real = <<"even and odd", LastDim(q)>>,
    !.ld = <<"even and odd", LastDim(q)>>,
    !.herm = "own vdsp"]
=============================================================================
