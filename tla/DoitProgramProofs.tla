------------------------- MODULE DoitProgramProofs -------------------------
(***************************************************************************)
(* The doit programs on problems of any number, rank and size.  First what *)
(* each of the 93 rows of the adaptors says: where can_do accepts, the     *)
(* other routines are able to.  Then what follows for a process that does  *)
(* one problem after the other.                                            *)
(***************************************************************************)
EXTENDS DoitProgram, TLAPS

\* What libbench needs of program d for problem p: done frees what setup has
\* set, can_do leaves nothing that setup does not set; nothing that is called
\* fails, but for what CanDoIsEnough names; and the copies and the FFT agree.
Careless == {"imsl", "intel-mkl", "nag-inplace", "nag-workspace"}
Tidy(d, r) == r.probes \subseteq r.alloc /\ (d \in Careless \/ r.frees \subseteq r.alloc)
Excepted(d, p) ==
    /\ IsReal(p)
    /\ \/ d = "kissfft" /\ IsEven(Size(p)) /\ ~IsEven(LastDim(p))
       \/ d = "intel-mkl-dfti" /\ p.rank > 1
Able(d, r, p) ==
    Excepted(d, p) \/ (~r.stops /\ (IsReal(p) => HermCopies(p, r.herm)))
Arrives(r, p) ==
    /\ r.src = r.reads
    /\ \/ r.writes = r.dst
       \/ p.inPlace /\ r.writes \in {"in", "out"} /\ r.dst \in {"in", "out"}
    /\ IF IsComplex(p) THEN r.cplx = r.call ELSE r.real = r.ld
Fits(d, r, p) == r.can => Tidy(d, r) /\ Able(d, r, p) /\ Arrives(r, p)

-----------------------------------------------------------------------------
\* The numbers of a problem.
LEMMA Dimensions ==
    ASSUME NEW p \in Problems
    PROVE  /\ p.prec \in {"single", "double"} /\ p.kind \in {"complex", "real"}
           /\ p.rank \in Nat \ {0} /\ p.sign \in {-1, 1}
           /\ p.inPlace \in BOOLEAN /\ p.split \in BOOLEAN
           /\ \A i \in 1 .. p.rank : p.n[i] \in Nat \ {0}
           /\ LastDim(p) \in Nat \ {0} /\ p.n[1] \in Nat \ {0}
<1>1. p \in Problem /\ Len(p.n) = p.rank BY ProblemsAssumption
<1>2. p.n \in Seq(Nat \ {0}) /\ p.rank \in Nat \ {0} BY <1>1 DEF Problem
<1>3. \A i \in 1 .. p.rank : p.n[i] \in Nat \ {0} BY <1>1, <1>2
<1>4. QED BY <1>1, <1>2, <1>3 DEF Problem, LastDim

\* Powers of two are even, but for the one that problem_power_of_two excludes.
LEMMA EvenPowers ==
    ASSUME NEW x \in Nat \ {0, 1}, power_of_two(x)
    PROVE  IsEven(x)
<1>1. x % x = 0 /\ x \in 2 .. x OBVIOUS
<1>2. QED BY <1>1 DEF power_of_two

LEMMA EvenDimensions ==
    ASSUME NEW p \in Problems, NEW inPlace \in BOOLEAN, problem_power_of_two(p, inPlace)
    PROVE  p.inPlace = inPlace /\ IsEven(p.n[1]) /\ IsEven(LastDim(p))
<1>1. \A i \in 1 .. p.rank : IsEven(p.n[i])
  BY Dimensions, EvenPowers DEF problem_power_of_two
<1>2. 1 \in 1 .. p.rank /\ p.rank \in 1 .. p.rank BY Dimensions
<1>3. QED BY <1>1, <1>2 DEF problem_power_of_two, LastDim

\* The lengths of padded rows.
LEMMA Lengths ==
    ASSUME NEW p \in Problems
    PROVE  /\ Padded(p) = Rows(p, 2 * (1 + LastDim(p) \div 2))
           /\ IsEven(LastDim(p)) => Padded(p) = Rows(p, LastDim(p) + 2)
           /\ p.rank = 1 => \A l : Rows(p, l) = Packed(p)
<1>1. LastDim(p) \in Nat BY Dimensions
<1>2. 2 * (LastDim(p) \div 2 + 1) = 2 * (1 + LastDim(p) \div 2) BY <1>1
<1>3. IsEven(LastDim(p)) => 2 * (LastDim(p) \div 2 + 1) = LastDim(p) + 2
  BY <1>1 DEF IsEven
<1>4. p.rank = 1 => \A l : Rows(p, l) = Packed(p) BY DEF Rows, Packed
<1>5. QED BY <1>2, <1>3, <1>4 DEF Padded

\* Every row fits: a step for each program, and a last one for all of them.
LEMMA RowsFit ==
    ASSUME NEW p \in Problems, NEW d \in Programs
    PROVE  Fits(d, Adaptor(d, p), p)
<1> USE Dimensions, EvenDimensions, Lengths
    DEF Fits, Tidy, Able, Arrives, HermCopies, Libbench, Owns, OneArray, Split,
        IsComplex, IsReal, Single, Double, Careless
<1>1. Fits("fftw2", Fftw2(p), p) BY DEF Fftw2
<1>2. Fits("fftw2-nd", Fftw2Nd(p), p) BY DEF Fftw2Nd, PaddedInPlace
<1>3. Fits("fftw3", Fftw3(p), p) BY DEF Fftw3, Fftw2Nd, PaddedInPlace
<1>4. Fits("fftw3-r2r", Fftw3Real(p), p) BY DEF Fftw3Real, Fftw2
<1>5. Fits("gsl-mixed-radix", Gsl(p), p) BY DEF Gsl
<1>6. Fits("gsl-radix2", GslRadix2(p, "complex"), p) BY DEF GslRadix2
<1>7. Fits("gsl-radix2-real", GslRadix2(p, "real"), p) BY DEF GslRadix2
<1>8. Fits("imsl", Imsl(p), p) BY ZenonT(40) DEF Imsl, ImslTables
<1>9. Fits("intel-ipps", IntelIpps(p), p) BY DEF IntelIpps
<1>10. Fits("intel-mkl", IntelMkl(p), p)
  BY DEF IntelMkl, IntelMklCan, IntelMklTables
<1>11. Fits("intel-mkl-f", IntelMklF(p), p)
  BY DEF IntelMklF, IntelMklTables, IntelMklCan
<1>12. Fits("intel-mkl-dfti", IntelDfti(p), p) BY DEF IntelDfti, Excepted
<1>13. Fits("kissfft", Kissfft(p), p) BY DEF Kissfft, PaddedInPlace, Excepted
<1>14. Fits("sgimath", SgiMath1d(p), p) BY DEF SgiMath1d, SgiMath
<1>15. Fits("sgimath2d", SgiMath2d(p), p) BY DEF SgiMath2d, SgiMath
<1>16. Fits("sgimath3d", SgiMath3d(p), p) BY DEF SgiMath3d, SgiMath
<1>17. Fits("sunperf", Sunperf1d(p), p) BY DEF Sunperf1d, Sunperf
<1>18. Fits("sunperf2d", Sunperf2d(p), p) BY DEF Sunperf2d, Sunperf
<1>19. Fits("sunperf3d", Sunperf3d(p), p) BY DEF Sunperf3d, Sunperf
<1>20. Fits("vbigdsp", Vbigdsp(p), p) BY DEF Vbigdsp, VbigdspCan
<1>21. Fits("spiral-egner-fft", SpiralFft(p), p) BY DEF SpiralFft
<1>22. Fits("acml", Acml(p), p)
  <2>1. Acml(p).can => p.inPlace /\ p.rank <= (IF IsComplex(p) THEN 3 ELSE 1)
    BY Zenon DEF Acml
  <2>2. p.rank <= (IF IsComplex(p) THEN 3 ELSE 1) /\ IsReal(p) => p.rank = 1 BY SMT
  <2>3. Acml(p).herm = "halfcomplex" BY DEF Acml
  <2>4. Acml(p).can => Able("acml", Acml(p), p) BY <2>1, <2>2, Zenon DEF Acml
  <2>5. Acml(p).can => Tidy("acml", Acml(p)) /\ Arrives(Acml(p), p)
    BY <2>1, Zenon DEF Acml
  <2> QED BY <2>4, <2>5 DEF Fits
<1>23. Fits("cxml", Dxml1d(p), p) BY DEF Dxml1d, Dxml
<1>24. Fits("cxml2d", Dxml2d(p), p) BY DEF Dxml2d, Dxml
<1>25. Fits("cxml3d", Dxml3d(p), p) BY DEF Dxml3d, Dxml
<1>26. Fits("essl", Essl(p), p) BY DEF Essl, EsslTables, PaddedInPlace
<1>27. Fits("green", Green(p), p)
  <2>1. Green(p).can => GreenCan(p) BY Zenon DEF Green
  <2>2. p.rank <= (IF IsComplex(p) THEN 3 ELSE 2) => ~(p.rank > 3) BY SMT
  <2>3. GreenCan(p) => ~(p.rank > 3) /\ problem_power_of_two(p, TRUE)
    BY <2>2, Zenon DEF GreenCan
  <2>4. Green(p).can => Able("green", Green(p), p) BY <2>1, <2>3, Zenon DEF Green
  <2>5. Green(p).can => Tidy("green", Green(p)) BY Zenon DEF Green
  <2>6. Green(p).can => Arrives(Green(p), p) BY <2>1, <2>3, Zenon DEF Green
  <2> QED BY <2>4, <2>5, <2>6 DEF Fits
<1>28. Fits("jmfftc", Jmfft(p), p) BY DEF Jmfft, JmfftTables, JmfftReal
<1>29. Fits("mfft", Mfft(p), p) BY DEF Mfft, MfftTables
<1>94. ASSUME NEW only1d \in BOOLEAN, NEW e,
              e = IF only1d THEN "nag-inplace" ELSE "nag-workspace"
       PROVE  Fits(e, Nag(p, only1d), p)
  <2>1. Nag(p, only1d).can => NagCan(p) /\ (only1d => p.rank = 1) BY Zenon DEF Nag
  <2>2. NagCan(p) => p.inPlace /\ p.rank <= (IF IsComplex(p) THEN 3 ELSE 1)
    BY Zenon DEF NagCan
  <2>3. p.rank <= (IF IsComplex(p) THEN 3 ELSE 1) /\ IsReal(p) => p.rank = 1 BY SMT
  <2>4. Nag(p, only1d).can => Able(e, Nag(p, only1d), p)
    BY <2>1, <2>2, <2>3, Zenon DEF Nag
  <2>9. Tidy(e, Nag(p, only1d)) BY <1>94, SMT DEF Nag
  <2>10. Nag(p, only1d).can => Arrives(Nag(p, only1d), p) BY <2>1, <2>2, Zenon DEF Nag
  <2> QED BY <2>4, <2>9, <2>10 DEF Fits
<1>30. Fits("nag-inplace", Nag(p, TRUE), p) BY <1>94, Zenon
<1>31. Fits("nag-workspace", Nag(p, FALSE), p) BY <1>94, Zenon
<1>32. Fits("nag-cmplx", NagComplex(p), p) BY DEF NagComplex, NagComplexCan
<1>33. Fits("vdsp", Vdsp(p), p) BY ZenonT(40) DEF Vdsp, VdspTables, VdspCan
<1>34. Fits("arprec", Arprec(p), p) BY DEF Arprec, ComplexLine2, ComplexLine
<1>35. Fits("bloodworth", Bloodworth(p, FALSE), p) BY DEF Bloodworth
<1>36. Fits("bloodworth-fht", Bloodworth(p, TRUE), p) BY DEF Bloodworth
<1>37. Fits("burrus-sffteu", Burrus(p), p) BY DEF Burrus, ComplexLine2, ComplexLine
<1>38. Fits("cross", Cross(p), p) BY DEF Cross, ComplexLine
<1>39. Fits("cwplib", Cwplib(p), p) BY DEF Cwplib
<1>40. Fits("fftpack", Fftpack(p), p) BY DEF Fftpack, FftpackIn
<1>41. Fits("dfftpack", Dfftpack(p), p) BY DEF Dfftpack, FftpackIn
<1>42. Fits("dsp79-rader", Dsp11(p), p) BY DEF Dsp11, ComplexLine2, ComplexLine
<1>43. Fits("dsp79-FFT842", Dsp12(p), p) BY DEF Dsp12, Dsp11, ComplexLine2, ComplexLine
<1>44. Fits("dsp79-FAST", Dsp12Fast(p), p) BY DEF Dsp12Fast, Dsp12Real
<1>45. Fits("dsp79-FFA", Dsp12Ffa(p), p) BY DEF Dsp12Ffa, Dsp12Real
<1>46. Fits("dsp79-singleton", Dsp14(p), p) BY DEF Dsp14
<1>47. Fits("dsp79-wfta", Dsp17(p), p) BY DEF Dsp17, ComplexLine
<1>48. Fits("dsp79-morris", Dsp18(p), p)
  BY DEF Dsp18, ComplexLine2, ComplexLine
<1>49. Fits("fxt-dif", Fxt(p), p) BY DEF Fxt, ComplexLine2, ComplexLine
<1>50. Fits("fxt-split", FxtSplit(p, {1}), p) BY DEF FxtSplit
<1>51. Fits("fxt-twodim", FxtSplit(p, {2}), p) BY DEF FxtSplit
<1>52. Fits("fxt-ndim", FxtSplit(p, 2 .. 5), p) BY DEF FxtSplit
<1>53. Fits("fxt-wrap-real", FxtReal(p, TRUE), p) BY DEF FxtReal
<1>54. Fits("fxt-fht-real", FxtReal(p, FALSE), p) BY DEF FxtReal
<1>55. Fits("glassman", Glassman(p), p) BY DEF Glassman, ComplexLine
<1>56. Fits("goedecker", Goedecker(p), p) BY DEF Goedecker
<1>57. Fits("gpfa", Gpfa(p), p) BY DEF Gpfa, ComplexLine
<1>58. Fits("gpfa-3d", Gpfa3d(p), p) BY DEF Gpfa3d
<1>59. Fits("harm", Harm(p), p) BY DEF Harm
<1>60. Fits("krukar", Krukar(p), p) BY DEF Krukar, ComplexLine2, ComplexLine
<1>61. Fits("mixfft", Mixfft(p), p) BY DEF Mixfft, ComplexLine
<1>62. Fits("monnier", Monnier(p), p) BY DEF Monnier, ComplexLine
<1>63. Fits("morris82", Morris(p), p)
  BY DEF Morris, ComplexLine2, ComplexLine
<1>64. Fits("mpfun77", Mpfun77(p), p) BY DEF Mpfun77, MpfunCan, ComplexLine
<1>65. Fits("mpfun90", Mpfun90(p), p) BY DEF Mpfun90, MpfunCan, ComplexLine
<1>66. Fits("napack", Napack(p), p) BY DEF Napack, ComplexLine
<1>67. Fits("numutils", Numutils(p), p) BY DEF Numutils, ComplexLine
<1>68. Fits("ransom", Ransom(p), p) BY DEF Ransom, ComplexLine2, ComplexLine
<1>69. Fits("rmayer", Rmayer(p), p) BY DEF Rmayer
<1>70. Fits("sciport", Sciport(p), p) BY DEF Sciport
<1>71. Fits("singleton", Singleton(p), p) BY DEF Singleton
<1>72. Fits("singleton-3d", Singleton3d(p), p) BY DEF Singleton3d
<1>73. Fits("emayer", Emayer(p), p) BY DEF Emayer
<1>74. Fits("esrfft", Esrfft(p), p) BY DEF Esrfft, ComplexLine2, ComplexLine
<1>75. Fits("ffte", Ffte(p), p)
  <2>1. Ffte(p).can => IsComplex(p) /\ p.rank <= 3 /\ (p.inPlace <=> p.rank # 1)
    BY Zenon DEF Ffte
  <2>2. p.rank <= 3 => ~(p.rank > 3) BY SMT
  <2>3. /\ Ffte(p).stops = (p.rank > 3) /\ Ffte(p).alloc = {}
        /\ Ffte(p).frees = {} /\ Ffte(p).probes = {}
    BY DEF Ffte
  <2>4. /\ Ffte(p).src = "in" /\ Ffte(p).reads = "in" /\ Ffte(p).dst = "out"
        /\ Ffte(p).cplx = Ffte(p).call
        /\ Ffte(p).writes = IF p.rank = 1 THEN "out" ELSE "in" BY DEF Ffte
  <2> QED BY <2>1, <2>2, <2>3, <2>4
<1>76. Fits("fftreal", Fftreal(p), p) BY DEF Fftreal
<1>77. Fits("sorensen-ctfftsr", SorensenTables(p), p)
  BY DEF SorensenTables, ComplexLine2, ComplexLine
<1>78. Fits("sorensen-rsrfft", SorensenReal(p, -1), p) BY DEF SorensenReal
<1>79. Fits("sorensen-irsrfft", SorensenReal(p, 1), p) BY DEF SorensenReal
<1>80. Fits("sorensen-sfftfu", Sorensen(p), p)
  BY DEF Sorensen, ComplexLine2, ComplexLine
<1>81. Fits("as117", Statlib117(p), p) BY DEF Statlib117
<1>82. Fits("as83", Statlib83(p), p) BY DEF Statlib83, ComplexLine2, ComplexLine
<1>83. Fits("as97", Statlib97(p), p) BY DEF Statlib97
<1>84. Fits("temperton", Temperton(p), p) BY DEF Temperton
<1>85. Fits("teneyck", Teneyck(p), p)
  <2>1. Teneyck(p).can => IsComplex(p) /\ p.rank <= 3 /\ p.inPlace BY Zenon DEF Teneyck
  <2>2. p.rank <= 3 => ~(p.rank > 3) BY SMT
  <2>3. /\ Teneyck(p).stops = (p.rank > 3) /\ Teneyck(p).alloc = {}
        /\ Teneyck(p).frees = {} /\ Teneyck(p).probes = {}
    BY DEF Teneyck
  <2>4. /\ Teneyck(p).src = "in" /\ Teneyck(p).reads = "in" /\ Teneyck(p).dst = "out"
        /\ Teneyck(p).cplx = Teneyck(p).call
        /\ Teneyck(p).writes = "in" BY DEF Teneyck
  <2> QED BY <2>1, <2>2, <2>3, <2>4
<1>86. Fits("valkenburg", Valkenburg(p), p) BY DEF Valkenburg, ComplexLine
<1>87. Fits("nr-f", Nr(p, FALSE), p) BY DEF Nr, NrTables
<1>88. Fits("nr-c", Nr(p, TRUE), p) BY DEF Nr, NrTables
<1>89. Fits("ooura-sg", Ooura(p), p) BY DEF Ooura, OouraCan
<1>90. Fits("ooura-sg2d", Ooura2d(p, {"a", "t", "w", "ip"}), p) BY DEF Ooura2d, OouraCan
<1>91. Fits("ooura-4f2d", Ooura2d(p, {"a", "w", "ip"}), p) BY DEF Ooura2d, OouraCan
<1>92. Fits("ooura-sg3d", Ooura3d(p), p) BY DEF Ooura3d, OouraCan
<1>93. Fits("qft", Qft(p, 16), p) BY DEF Qft
<1> HIDE DEF Fits, Tidy, Able, Arrives, HermCopies, Libbench, Owns, OneArray, Split,
             IsComplex, IsReal, Single, Double, Careless
<1>95. QED
  <2>1. Fits("fftw2", Adaptor("fftw2", p), p) BY <1>1, Zenon DEF Adaptor
  <2>2. Fits("fftw2-nd", Adaptor("fftw2-nd", p), p) BY <1>2, Zenon DEF Adaptor
  <2>3. Fits("fftw3", Adaptor("fftw3", p), p) BY <1>3, Zenon DEF Adaptor
  <2>4. Fits("fftw3-r2r", Adaptor("fftw3-r2r", p), p) BY <1>4, Zenon DEF Adaptor
  <2>5. Fits("gsl-mixed-radix", Adaptor("gsl-mixed-radix", p), p)
    BY <1>5, Zenon DEF Adaptor
  <2>6. Fits("gsl-radix2", Adaptor("gsl-radix2", p), p) BY <1>6, Zenon DEF Adaptor
  <2>7. Fits("gsl-radix2-real", Adaptor("gsl-radix2-real", p), p)
    BY <1>7, Zenon DEF Adaptor
  <2>8. Fits("imsl", Adaptor("imsl", p), p) BY <1>8, Zenon DEF Adaptor
  <2>9. Fits("intel-ipps", Adaptor("intel-ipps", p), p) BY <1>9, Zenon DEF Adaptor
  <2>10. Fits("intel-mkl", Adaptor("intel-mkl", p), p) BY <1>10, Zenon DEF Adaptor
  <2>11. Fits("intel-mkl-f", Adaptor("intel-mkl-f", p), p) BY <1>11, Zenon DEF Adaptor
  <2>12. Fits("intel-mkl-dfti", Adaptor("intel-mkl-dfti", p), p)
    BY <1>12, Zenon DEF Adaptor
  <2>13. Fits("kissfft", Adaptor("kissfft", p), p) BY <1>13, Zenon DEF Adaptor
  <2>14. Fits("sgimath", Adaptor("sgimath", p), p) BY <1>14, Zenon DEF Adaptor
  <2>15. Fits("sgimath2d", Adaptor("sgimath2d", p), p) BY <1>15, Zenon DEF Adaptor
  <2>16. Fits("sgimath3d", Adaptor("sgimath3d", p), p) BY <1>16, Zenon DEF Adaptor
  <2>17. Fits("sunperf", Adaptor("sunperf", p), p) BY <1>17, Zenon DEF Adaptor
  <2>18. Fits("sunperf2d", Adaptor("sunperf2d", p), p) BY <1>18, Zenon DEF Adaptor
  <2>19. Fits("sunperf3d", Adaptor("sunperf3d", p), p) BY <1>19, Zenon DEF Adaptor
  <2>20. Fits("vbigdsp", Adaptor("vbigdsp", p), p) BY <1>20, Zenon DEF Adaptor
  <2>21. Fits("spiral-egner-fft", Adaptor("spiral-egner-fft", p), p)
    BY <1>21, Zenon DEF Adaptor
  <2>22. Fits("acml", Adaptor("acml", p), p) BY <1>22, Zenon DEF Adaptor
  <2>23. Fits("cxml", Adaptor("cxml", p), p) BY <1>23, Zenon DEF Adaptor
  <2>24. Fits("cxml2d", Adaptor("cxml2d", p), p) BY <1>24, Zenon DEF Adaptor
  <2>25. Fits("cxml3d", Adaptor("cxml3d", p), p) BY <1>25, Zenon DEF Adaptor
  <2>26. Fits("essl", Adaptor("essl", p), p) BY <1>26, Zenon DEF Adaptor
  <2>27. Fits("green", Adaptor("green", p), p) BY <1>27, Zenon DEF Adaptor
  <2>28. Fits("jmfftc", Adaptor("jmfftc", p), p) BY <1>28, Zenon DEF Adaptor
  <2>29. Fits("mfft", Adaptor("mfft", p), p) BY <1>29, Zenon DEF Adaptor
  <2>30. Fits("nag-inplace", Adaptor("nag-inplace", p), p) BY <1>30, Zenon DEF Adaptor
  <2>31. Fits("nag-workspace", Adaptor("nag-workspace", p), p)
    BY <1>31, Zenon DEF Adaptor
  <2>32. Fits("nag-cmplx", Adaptor("nag-cmplx", p), p) BY <1>32, Zenon DEF Adaptor
  <2>33. Fits("vdsp", Adaptor("vdsp", p), p) BY <1>33, Zenon DEF Adaptor
  <2>34. Fits("arprec", Adaptor("arprec", p), p) BY <1>34, Zenon DEF Adaptor
  <2>35. Fits("bloodworth", Adaptor("bloodworth", p), p) BY <1>35, Zenon DEF Adaptor
  <2>36. Fits("bloodworth-fht", Adaptor("bloodworth-fht", p), p)
    BY <1>36, Zenon DEF Adaptor
  <2>37. Fits("burrus-sffteu", Adaptor("burrus-sffteu", p), p)
    BY <1>37, Zenon DEF Adaptor
  <2>38. Fits("cross", Adaptor("cross", p), p) BY <1>38, Zenon DEF Adaptor
  <2>39. Fits("cwplib", Adaptor("cwplib", p), p) BY <1>39, Zenon DEF Adaptor
  <2>40. Fits("fftpack", Adaptor("fftpack", p), p) BY <1>40, Zenon DEF Adaptor
  <2>41. Fits("dfftpack", Adaptor("dfftpack", p), p) BY <1>41, Zenon DEF Adaptor
  <2>42. Fits("dsp79-rader", Adaptor("dsp79-rader", p), p) BY <1>42, Zenon DEF Adaptor
  <2>43. Fits("dsp79-FFT842", Adaptor("dsp79-FFT842", p), p) BY <1>43, Zenon DEF Adaptor
  <2>44. Fits("dsp79-FAST", Adaptor("dsp79-FAST", p), p) BY <1>44, Zenon DEF Adaptor
  <2>45. Fits("dsp79-FFA", Adaptor("dsp79-FFA", p), p) BY <1>45, Zenon DEF Adaptor
  <2>46. Fits("dsp79-singleton", Adaptor("dsp79-singleton", p), p)
    BY <1>46, Zenon DEF Adaptor
  <2>47. Fits("dsp79-wfta", Adaptor("dsp79-wfta", p), p) BY <1>47, Zenon DEF Adaptor
  <2>48. Fits("dsp79-morris", Adaptor("dsp79-morris", p), p) BY <1>48, Zenon DEF Adaptor
  <2>49. Fits("fxt-dif", Adaptor("fxt-dif", p), p) BY <1>49, Zenon DEF Adaptor
  <2>50. Fits("fxt-split", Adaptor("fxt-split", p), p) BY <1>50, Zenon DEF Adaptor
  <2>51. Fits("fxt-twodim", Adaptor("fxt-twodim", p), p) BY <1>51, Zenon DEF Adaptor
  <2>52. Fits("fxt-ndim", Adaptor("fxt-ndim", p), p) BY <1>52, Zenon DEF Adaptor
  <2>53. Fits("fxt-wrap-real", Adaptor("fxt-wrap-real", p), p)
    BY <1>53, Zenon DEF Adaptor
  <2>54. Fits("fxt-fht-real", Adaptor("fxt-fht-real", p), p) BY <1>54, Zenon DEF Adaptor
  <2>55. Fits("glassman", Adaptor("glassman", p), p) BY <1>55, Zenon DEF Adaptor
  <2>56. Fits("goedecker", Adaptor("goedecker", p), p) BY <1>56, Zenon DEF Adaptor
  <2>57. Fits("gpfa", Adaptor("gpfa", p), p) BY <1>57, Zenon DEF Adaptor
  <2>58. Fits("gpfa-3d", Adaptor("gpfa-3d", p), p) BY <1>58, Zenon DEF Adaptor
  <2>59. Fits("harm", Adaptor("harm", p), p) BY <1>59, Zenon DEF Adaptor
  <2>60. Fits("krukar", Adaptor("krukar", p), p) BY <1>60, Zenon DEF Adaptor
  <2>61. Fits("mixfft", Adaptor("mixfft", p), p) BY <1>61, Zenon DEF Adaptor
  <2>62. Fits("monnier", Adaptor("monnier", p), p) BY <1>62, Zenon DEF Adaptor
  <2>63. Fits("morris82", Adaptor("morris82", p), p) BY <1>63, Zenon DEF Adaptor
  <2>64. Fits("mpfun77", Adaptor("mpfun77", p), p) BY <1>64, Zenon DEF Adaptor
  <2>65. Fits("mpfun90", Adaptor("mpfun90", p), p) BY <1>65, Zenon DEF Adaptor
  <2>66. Fits("napack", Adaptor("napack", p), p) BY <1>66, Zenon DEF Adaptor
  <2>67. Fits("numutils", Adaptor("numutils", p), p) BY <1>67, Zenon DEF Adaptor
  <2>68. Fits("ransom", Adaptor("ransom", p), p) BY <1>68, Zenon DEF Adaptor
  <2>69. Fits("rmayer", Adaptor("rmayer", p), p) BY <1>69, Zenon DEF Adaptor
  <2>70. Fits("sciport", Adaptor("sciport", p), p) BY <1>70, Zenon DEF Adaptor
  <2>71. Fits("singleton", Adaptor("singleton", p), p) BY <1>71, Zenon DEF Adaptor
  <2>72. Fits("singleton-3d", Adaptor("singleton-3d", p), p) BY <1>72, Zenon DEF Adaptor
  <2>73. Fits("emayer", Adaptor("emayer", p), p) BY <1>73, Zenon DEF Adaptor
  <2>74. Fits("esrfft", Adaptor("esrfft", p), p) BY <1>74, Zenon DEF Adaptor
  <2>75. Fits("ffte", Adaptor("ffte", p), p) BY <1>75, Zenon DEF Adaptor
  <2>76. Fits("fftreal", Adaptor("fftreal", p), p) BY <1>76, Zenon DEF Adaptor
  <2>77. Fits("sorensen-ctfftsr", Adaptor("sorensen-ctfftsr", p), p)
    BY <1>77, Zenon DEF Adaptor
  <2>78. Fits("sorensen-rsrfft", Adaptor("sorensen-rsrfft", p), p)
    BY <1>78, Zenon DEF Adaptor
  <2>79. Fits("sorensen-irsrfft", Adaptor("sorensen-irsrfft", p), p)
    BY <1>79, Zenon DEF Adaptor
  <2>80. Fits("sorensen-sfftfu", Adaptor("sorensen-sfftfu", p), p)
    BY <1>80, Zenon DEF Adaptor
  <2>81. Fits("as117", Adaptor("as117", p), p) BY <1>81, Zenon DEF Adaptor
  <2>82. Fits("as83", Adaptor("as83", p), p) BY <1>82, Zenon DEF Adaptor
  <2>83. Fits("as97", Adaptor("as97", p), p) BY <1>83, Zenon DEF Adaptor
  <2>84. Fits("temperton", Adaptor("temperton", p), p) BY <1>84, Zenon DEF Adaptor
  <2>85. Fits("teneyck", Adaptor("teneyck", p), p) BY <1>85, Zenon DEF Adaptor
  <2>86. Fits("valkenburg", Adaptor("valkenburg", p), p) BY <1>86, Zenon DEF Adaptor
  <2>87. Fits("nr-f", Adaptor("nr-f", p), p) BY <1>87, Zenon DEF Adaptor
  <2>88. Fits("nr-c", Adaptor("nr-c", p), p) BY <1>88, Zenon DEF Adaptor
  <2>89. Fits("ooura-sg", Adaptor("ooura-sg", p), p) BY <1>89, Zenon DEF Adaptor
  <2>90. Fits("ooura-sg2d", Adaptor("ooura-sg2d", p), p) BY <1>90, Zenon DEF Adaptor
  <2>91. Fits("ooura-4f2d", Adaptor("ooura-4f2d", p), p) BY <1>91, Zenon DEF Adaptor
  <2>92. Fits("ooura-sg3d", Adaptor("ooura-sg3d", p), p) BY <1>92, Zenon DEF Adaptor
  <2>93. Fits("qft", Adaptor("qft", p), p) BY <1>93, Zenon DEF Adaptor
  <2>94. QED
        BY <2>1, <2>2, <2>3, <2>4, <2>5, <2>6, <2>7, <2>8, <2>9, <2>10, <2>11, <2>12,
       <2>13, <2>14, <2>15, <2>16, <2>17, <2>18, <2>19, <2>20, <2>21, <2>22, <2>23,
       <2>24, <2>25, <2>26, <2>27, <2>28, <2>29, <2>30, <2>31, <2>32, <2>33, <2>34,
       <2>35, <2>36, <2>37, <2>38, <2>39, <2>40, <2>41, <2>42, <2>43, <2>44, <2>45,
       <2>46, <2>47, <2>48, <2>49, <2>50, <2>51, <2>52, <2>53, <2>54, <2>55, <2>56,
       <2>57, <2>58, <2>59, <2>60, <2>61, <2>62, <2>63, <2>64, <2>65, <2>66, <2>67,
       <2>68, <2>69, <2>70, <2>71, <2>72, <2>73, <2>74, <2>75, <2>76, <2>77, <2>78,
       <2>79, <2>80, <2>81, <2>82, <2>83, <2>84, <2>85, <2>86, <2>87, <2>88, <2>89,
       <2>90, <2>91, <2>92, <2>93,
       ZenonT(60) DEF Programs
\* Where done frees what it has not looked at, the tables that setup makes
\* depend on the kind and the rank alone.
LEMMA CarelessTables ==
    ASSUME NEW d \in Careless, NEW p \in Problems, NEW p2 \in Problems,
           p.kind = p2.kind, p.rank = p2.rank
    PROVE  Adaptor(d, p).alloc = Adaptor(d, p2).alloc
<1>1. Imsl(p).alloc = Imsl(p2).alloc
  <2>1. ImslTables(p) = ImslTables(p2) BY DEF ImslTables, IsReal, IsComplex
  <2>2. Imsl(p).alloc = ImslTables(p) /\ Imsl(p2).alloc = ImslTables(p2)
    BY DEF Imsl, Owns, Libbench
  <2>3. QED BY <2>1, <2>2
<1>2. IntelMkl(p).alloc = IntelMkl(p2).alloc
  BY DEF IntelMkl, IntelMklTables, Split, OneArray, Libbench
<1>3. ASSUME NEW only1d \in BOOLEAN
      PROVE  Nag(p, only1d).alloc = Nag(p2, only1d).alloc
  BY DEF Nag, NagTables, Owns, Split, OneArray, Libbench
<1>4. Adaptor("imsl", p) = Imsl(p) /\ Adaptor("imsl", p2) = Imsl(p2)
  BY Zenon DEF Adaptor
<1>5. Adaptor("intel-mkl", p) = IntelMkl(p) /\ Adaptor("intel-mkl", p2) = IntelMkl(p2)
  BY Zenon DEF Adaptor
<1>6. /\ Adaptor("nag-inplace", p) = Nag(p, TRUE)
      /\ Adaptor("nag-inplace", p2) = Nag(p2, TRUE)
  BY Zenon DEF Adaptor
<1>7. /\ Adaptor("nag-workspace", p) = Nag(p, FALSE)
      /\ Adaptor("nag-workspace", p2) = Nag(p2, FALSE)
  BY Zenon DEF Adaptor
<1>8. QED BY <1>1, <1>2, <1>3, <1>4, <1>5, <1>6, <1>7 DEF Careless

\* What done frees for one problem and setup sets for another of the same kind
\* and rank, setup sets for the first as well.
LEMMA FreesOfAKind ==
    ASSUME NEW d \in Programs, NEW p \in Problems, NEW p2 \in Problems,
           p.kind = p2.kind, p.rank = p2.rank, Adaptor(d, p).can
    PROVE  Adaptor(d, p).frees \cap Adaptor(d, p2).alloc \subseteq Adaptor(d, p).alloc
<1>1. Tidy(d, Adaptor(d, p)) BY RowsFit DEF Fits
<1>2. CASE d \in Careless BY <1>2, CarelessTables
<1>3. CASE d \notin Careless BY <1>1, <1>3 DEF Tidy
<1>4. QED BY <1>2, <1>3
-----------------------------------------------------------------------------
(***************************************************************************)
(* The process.  Between setup and done the pointers of this problem are   *)
(* those that setup sets.  As long as all problems are of one kind and     *)
(* rank, no pointer has been set but by the setup of such a problem.       *)
(***************************************************************************)
Blocks == /\ pc \in {"idle", "clear", "setup"} => own = {}
          /\ pc \in {"ready", "copied", "computed", "done"} => own = row.alloc

SetBefore(x) == \E p \in Problems : /\ <<p.kind, p.rank>> = last
                                    /\ x \in Adaptor(build.program, p).alloc
Familiar == alike => \A x \in own \cup old \cup stale : SetBefore(x)

\* Where the data are after a copy.
CopiedIn == pc = "copied" =>
    data = [at |-> Place(row.src), as |-> InLayout(row.cplx, row.real)]

IInv == /\ TypeOK /\ Blocks /\ Familiar /\ CopiedIn
        /\ CanDoIsEnough /\ FreesOnce /\ ResultArrives

LEMMA InitInv == Init => IInv
BY DEF Init, IInv, TypeOK, Blocks, Familiar, CopiedIn, CanDoIsEnough, FreesOnce,
       ResultArrives

\* What the row of an accepted problem says.
LEMMA RowFits ==
    ASSUME IInv, pc # "idle"
    PROVE  /\ Tidy(build.program, row) /\ Able(build.program, row, q) /\ Arrives(row, q)
           /\ q.kind \in {"complex", "real"} /\ q.inPlace \in BOOLEAN
<1>1. q \in Problems /\ row.can BY DEF IInv, TypeOK
<1>2. build.program \in Programs BY DEF IInv, TypeOK
<1>3. Fits(build.program, row, q) BY <1>1, <1>2, RowsFit DEF row
<1>4. QED BY <1>1, <1>3, Dimensions DEF Fits

\* Of the row and the layouts nothing changes while the problem does not.
LEMMA SameRow ==
    ASSUME UNCHANGED <<build, q>>
    PROVE  row' = row
BY DEF row

LEMMA AskInv == IInv /\ Ask => IInv'
<1> SUFFICES ASSUME IInv, Ask PROVE IInv' OBVIOUS
<1>1. PICK p \in Problems :
          /\ q' = p /\ Adaptor(build.program, p).can
          /\ last' = <<p.kind, p.rank>>
          /\ alike' = (alike /\ last \in {<<>>, <<p.kind, p.rank>>})
          /\ old' = old \ Adaptor(build.program, p).probes
          /\ stale' = stale \cup Adaptor(build.program, p).probes
  BY DEF Ask
<1>2. pc = "idle" /\ pc' = "clear" /\ UNCHANGED <<build, own, data>> BY DEF Ask
<1>3. row' = Adaptor(build.program, p) BY <1>1, <1>2 DEF row
<1>4. own = {} BY <1>2 DEF IInv, Blocks
<1>5. TypeOK'
  <2>1. alike' \in BOOLEAN BY <1>1
  <2>2. own' \cap old' = {} /\ own' \cap stale' = {} /\ old' \cap stale' = {}
    BY <1>1, <1>2, <1>4 DEF IInv, TypeOK
  <2>3. q' \in Problems /\ row'.can /\ last' = <<q'.kind, q'.rank>> BY <1>1, <1>3
  <2>4. build' \in [program : Programs, prec : {"single", "double"}]
    BY <1>2 DEF IInv, TypeOK
  <2>5. QED BY <1>2, <2>1, <2>2, <2>3, <2>4 DEF TypeOK
<1>6. Familiar'
  <2> SUFFICES ASSUME alike', NEW x \in own' \cup old' \cup stale'
               PROVE  SetBefore(x)'
    BY DEF Familiar
  <2>1. alike /\ last \in {<<>>, <<p.kind, p.rank>>} BY <1>1
  <2>2. CASE x \in Adaptor(build.program, p).probes
    <3>1. Tidy(build.program, Adaptor(build.program, p))
      BY <1>1, RowsFit DEF Fits, IInv, TypeOK
    <3>2. x \in Adaptor(build.program, p).alloc BY <2>2, <3>1 DEF Tidy
    <3>3. QED BY <1>1, <1>2, <3>2 DEF SetBefore
  <2>3. CASE x \notin Adaptor(build.program, p).probes
    <3>1. x \in own \cup old \cup stale BY <1>1, <1>2, <2>3
    <3>2. PICK p2 \in Problems : /\ <<p2.kind, p2.rank>> = last
                                 /\ x \in Adaptor(build.program, p2).alloc
      BY <2>1, <3>1 DEF IInv, Familiar, SetBefore
    <3>3. last' = <<p2.kind, p2.rank>> BY <1>1, <2>1, <3>2
    <3>4. QED BY <1>2, <3>2, <3>3 DEF SetBefore
  <2>4. QED BY <2>2, <2>3
<1>7. Blocks' /\ CopiedIn' /\ CanDoIsEnough' /\ FreesOnce' /\ ResultArrives'
  BY <1>2, <1>4 DEF Blocks, CopiedIn, CanDoIsEnough, FreesOnce, ResultArrives
<1>8. QED BY <1>5, <1>6, <1>7 DEF IInv

\* A step that only moves on, and may move data, keeps what is said of the
\* pointers.
LEMMA StepKeeps ==
    ASSUME IInv, UNCHANGED <<build, q, last, alike, own, old, stale>>, pc # "idle",
           \/ pc \in {"clear", "setup"} /\ pc' \in {"clear", "setup"}
           \/ /\ pc \in {"ready", "copied", "computed"}
              /\ pc' \in {"ready", "copied", "computed", "done", "died"}
    PROVE  TypeOK' /\ Blocks' /\ Familiar' /\ FreesOnce' /\ row' = row
<1>1. row' = row BY SameRow
<1>2. TypeOK' BY <1>1 DEF IInv, TypeOK
<1>3. Blocks' BY <1>1 DEF IInv, Blocks
<1>4. Familiar' BY DEF IInv, Familiar, SetBefore
<1>5. FreesOnce' BY DEF FreesOnce
<1>6. QED BY <1>1, <1>2, <1>3, <1>4, <1>5

LEMMA ClearInv == IInv /\ Clear => IInv'
<1> SUFFICES ASSUME IInv, Clear PROVE IInv' OBVIOUS
<1>1. pc = "clear" /\ pc' = "setup" /\ UNCHANGED <<build, q, last, alike, own, old, stale>>
  BY DEF Clear
<1>2. TypeOK' /\ Blocks' /\ Familiar' /\ FreesOnce' BY <1>1, StepKeeps
<1>3. CopiedIn' /\ CanDoIsEnough' /\ ResultArrives'
  BY <1>1 DEF CopiedIn, CanDoIsEnough, ResultArrives
<1>4. QED BY <1>2, <1>3 DEF IInv

LEMMA SetUpInv == IInv /\ SetUp => IInv'
<1> SUFFICES ASSUME IInv, SetUp PROVE IInv' OBVIOUS
<1>1. /\ pc = "setup" /\ pc' = IF row.stops THEN "died" ELSE "ready"
      /\ own' = row.alloc /\ old' = old \ row.alloc /\ stale' = stale \ row.alloc
      /\ UNCHANGED <<build, q, last, alike, data>>
  BY DEF SetUp
<1>2. row' = row BY <1>1, SameRow
<1>3. pc' = "died" => Excepted(build.program, q) BY <1>1, RowFits DEF Able
<1>4. CanDoIsEnough' BY <1>1, <1>3 DEF CanDoIsEnough, Excepted
<1>5. TypeOK' BY <1>1, <1>2 DEF IInv, TypeOK
<1>6. Familiar'
  <2> SUFFICES ASSUME alike, NEW x \in own' \cup old' \cup stale'
               PROVE  SetBefore(x)'
    BY <1>1 DEF Familiar
  <2>1. CASE x \in row.alloc
    <3>1. q \in Problems /\ last = <<q.kind, q.rank>> BY <1>1 DEF IInv, TypeOK
    <3>2. QED BY <1>1, <2>1, <3>1 DEF SetBefore, row
  <2>2. CASE x \notin row.alloc
    <3>1. SetBefore(x) BY <1>1, <2>2 DEF IInv, Familiar
    <3>2. QED BY <1>1, <3>1 DEF SetBefore
  <2>3. QED BY <2>1, <2>2
<1>7. Blocks' /\ CopiedIn' /\ FreesOnce' /\ ResultArrives'
  BY <1>1, <1>2 DEF Blocks, CopiedIn, FreesOnce, ResultArrives
<1>8. QED BY <1>4, <1>5, <1>6, <1>7 DEF IInv

LEMMA CopyFromInv == IInv /\ CopyFrom => IInv'
<1> SUFFICES ASSUME IInv, CopyFrom PROVE IInv' OBVIOUS
<1>1. /\ pc = "ready" /\ pc' \in {"died", "copied"}
      /\ data' = [at |-> Place(row.src), as |-> InLayout(row.cplx, row.real)]
      /\ UNCHANGED <<build, q, last, alike, own, old, stale>>
  BY DEF CopyFrom
<1>2. pc' = "died" => Excepted(build.program, q) BY <1>1, RowFits DEF CopyFrom, Able
<1>3. TypeOK' /\ Blocks' /\ Familiar' /\ FreesOnce' /\ row' = row BY <1>1, StepKeeps
<1>4. CopiedIn' BY <1>1, <1>3 DEF CopiedIn, Place, InLayout, Herm
<1>5. CanDoIsEnough' BY <1>1, <1>2 DEF CanDoIsEnough, Excepted
<1>6. ResultArrives' BY <1>1 DEF ResultArrives
<1>7. QED BY <1>3, <1>4, <1>5, <1>6 DEF IInv

LEMMA TimeInv == IInv /\ Time => IInv'
<1> SUFFICES ASSUME IInv, Time PROVE IInv' OBVIOUS
<1>1. pc = "ready" /\ pc' = "done" /\ UNCHANGED <<build, q, last, alike, own, old, stale>>
  BY DEF Time
<1>2. TypeOK' /\ Blocks' /\ Familiar' /\ FreesOnce' BY <1>1, StepKeeps
<1>3. CopiedIn' /\ CanDoIsEnough' /\ ResultArrives'
  BY <1>1 DEF CopiedIn, CanDoIsEnough, ResultArrives
<1>4. QED BY <1>2, <1>3 DEF IInv

\* The FFT finds the data that were copied in, and the copy out its result.
LEMMA LayoutsAgree ==
    ASSUME IInv, pc # "idle"
    PROVE  /\ Place(row.reads) = Place(row.src) /\ Place(row.writes) = Place(row.dst)
           /\ InLayout(row.call, row.ld) = InLayout(row.cplx, row.real)
           /\ OutLayout(row.call, row.ld) = OutLayout(row.cplx, row.real)
<1>1. Arrives(row, q) BY RowFits
<1>2. Place(row.reads) = Place(row.src) BY <1>1 DEF Arrives
<1>3. Place(row.writes) = Place(row.dst) BY <1>1 DEF Arrives, Place
<1>4. /\ InLayout(row.call, row.ld) = InLayout(row.cplx, row.real)
      /\ OutLayout(row.call, row.ld) = OutLayout(row.cplx, row.real)
  BY <1>1 DEF Arrives, InLayout, OutLayout
<1>5. QED BY <1>2, <1>3, <1>4

LEMMA DoitInv == IInv /\ Doit => IInv'
<1> SUFFICES ASSUME IInv, Doit PROVE IInv' OBVIOUS
<1>1. /\ pc = "copied" /\ pc' = "computed"
      /\ UNCHANGED <<build, q, last, alike, own, old, stale>>
  BY DEF Doit
<1>2. data.at = Place(row.reads) /\ data.as = InLayout(row.call, row.ld)
  BY <1>1, LayoutsAgree DEF IInv, CopiedIn
<1>3. data' = [at |-> Place(row.writes), as |-> OutLayout(row.call, row.ld)]
  BY <1>2 DEF Doit
<1>4. data'.at = Place(row.dst) /\ data'.as = OutLayout(row.cplx, row.real)
  BY <1>1, <1>3, LayoutsAgree
<1>5. TypeOK' /\ Blocks' /\ Familiar' /\ FreesOnce' /\ row' = row BY <1>1, StepKeeps
<1>6. ResultArrives' BY <1>1, <1>4, <1>5 DEF ResultArrives, Place, OutLayout, Herm
<1>7. CopiedIn' /\ CanDoIsEnough' BY <1>1 DEF CopiedIn, CanDoIsEnough
<1>8. QED BY <1>5, <1>6, <1>7 DEF IInv

LEMMA CopyToInv == IInv /\ CopyTo => IInv'
<1> SUFFICES ASSUME IInv, CopyTo PROVE IInv' OBVIOUS
<1>1. /\ pc = "computed" /\ pc' \in {"died", "ready", "done"}
      /\ UNCHANGED <<build, q, last, alike, own, old, stale>>
  BY DEF CopyTo
<1>2. pc' = "died" => Excepted(build.program, q) BY <1>1, RowFits DEF CopyTo, Able
<1>3. TypeOK' /\ Blocks' /\ Familiar' /\ FreesOnce' BY <1>1, StepKeeps
<1>4. CanDoIsEnough' BY <1>1, <1>2 DEF CanDoIsEnough, Excepted
<1>5. CopiedIn' /\ ResultArrives' BY <1>1 DEF CopiedIn, ResultArrives
<1>6. QED BY <1>3, <1>4, <1>5 DEF IInv

LEMMA DoneInv == IInv /\ Done => IInv'
<1> SUFFICES ASSUME IInv, Done PROVE IInv' OBVIOUS
<1>1. /\ pc = "done"
      /\ pc' = IF row.frees \cap stale = {} THEN "destroy" ELSE "freed twice"
      /\ own' = own \ row.frees /\ old' = old \ row.frees
      /\ stale' = stale \cup (row.frees \cap (own \cup old))
      /\ UNCHANGED <<build, q, last, alike, data>>
  BY DEF Done
<1>2. own = row.alloc BY <1>1 DEF IInv, Blocks
<1>3. alike => row.frees \cap stale = {}
  <2> SUFFICES ASSUME alike, NEW x \in row.frees \cap stale PROVE FALSE OBVIOUS
  <2>1. PICK p \in Problems : /\ <<p.kind, p.rank>> = last
                              /\ x \in Adaptor(build.program, p).alloc
    BY DEF IInv, Familiar, SetBefore
  <2>2. q \in Problems /\ row.can /\ last = <<q.kind, q.rank>>
    BY <1>1 DEF IInv, TypeOK
  <2>3. q.kind = p.kind /\ q.rank = p.rank BY <2>1, <2>2
  <2>4. build.program \in Programs BY DEF IInv, TypeOK
  <2>5. x \in row.alloc BY <2>1, <2>2, <2>3, <2>4, FreesOfAKind DEF row
  <2>6. QED BY <1>2, <2>5 DEF IInv, TypeOK
<1>4. FreesOnce' BY <1>1, <1>3 DEF FreesOnce
<1>5. row' = row BY <1>1, SameRow
<1>6. TypeOK' BY <1>1, <1>5 DEF IInv, TypeOK
<1>7. Familiar' BY <1>1 DEF IInv, Familiar, SetBefore
<1>8. Blocks' /\ CopiedIn' /\ CanDoIsEnough' /\ ResultArrives'
  BY <1>1 DEF Blocks, CopiedIn, CanDoIsEnough, ResultArrives
<1>9. QED BY <1>4, <1>6, <1>7, <1>8 DEF IInv

LEMMA DestroyInv == IInv /\ Destroy => IInv'
<1> SUFFICES ASSUME IInv, Destroy PROVE IInv' OBVIOUS
<1>1. /\ pc = "destroy" /\ pc' = "idle" /\ old' = old \cup own /\ own' = {}
      /\ q' = NoProblem /\ UNCHANGED <<build, last, alike, stale>>
  BY DEF Destroy
<1>2. TypeOK' BY <1>1 DEF IInv, TypeOK
<1>3. Familiar' BY <1>1 DEF IInv, Familiar, SetBefore
<1>4. Blocks' /\ CopiedIn' /\ CanDoIsEnough' /\ FreesOnce' /\ ResultArrives'
  BY <1>1 DEF Blocks, CopiedIn, CanDoIsEnough, FreesOnce, ResultArrives
<1>5. QED BY <1>2, <1>3, <1>4 DEF IInv

LEMMA StillInv == IInv /\ UNCHANGED vars => IInv'
<1> SUFFICES ASSUME IInv, UNCHANGED vars PROVE IInv' OBVIOUS
<1>1. UNCHANGED <<build, pc, q, last, alike, own, old, stale, data>> BY DEF vars
<1>2. row' = row BY <1>1, SameRow
<1>3. TypeOK' /\ Blocks' BY <1>1, <1>2 DEF IInv, TypeOK, Blocks
<1>4. Familiar' BY <1>1 DEF IInv, Familiar, SetBefore
<1>5. CopiedIn' /\ CanDoIsEnough' /\ FreesOnce' /\ ResultArrives'
  BY <1>1, <1>2 DEF IInv, CopiedIn, CanDoIsEnough, FreesOnce, ResultArrives, Place,
                    InLayout, OutLayout, Herm
<1>6. QED BY <1>3, <1>4, <1>5 DEF IInv

\* The invariant, from which the properties follow.
THEOREM Invariant == Spec => []IInv
<1>1. IInv /\ [Next]_vars => IInv'
  <2> SUFFICES ASSUME IInv, [Next]_vars PROVE IInv' OBVIOUS
  <2>1. CASE Refuse BY <2>1, StillInv DEF Refuse
  <2>2. CASE Ask BY <2>2, AskInv
  <2>3. CASE Clear BY <2>3, ClearInv
  <2>4. CASE SetUp BY <2>4, SetUpInv
  <2>5. CASE CopyFrom BY <2>5, CopyFromInv
  <2>6. CASE Time BY <2>6, TimeInv
  <2>7. CASE Doit BY <2>7, DoitInv
  <2>8. CASE CopyTo BY <2>8, CopyToInv
  <2>9. CASE Done BY <2>9, DoneInv
  <2>10. CASE Destroy BY <2>10, DestroyInv
  <2>11. CASE Stopped BY <2>11, StillInv DEF Stopped
  <2>12. CASE UNCHANGED vars BY <2>12, StillInv
  <2>13. QED
    BY <2>1, <2>2, <2>3, <2>4, <2>5, <2>6, <2>7, <2>8, <2>9, <2>10, <2>11, <2>12
       DEF Next
<1>2. QED BY InitInv, <1>1, PTL DEF Spec

\* No problem is done that can_do has not accepted; the pointers of a program
\* are to blocks of this problem, of an earlier one, or to freed ones, and
\* never to two of them (TypeOK).
THEOREM TypeCorrect == Spec => []TypeOK
<1>1. IInv => TypeOK BY DEF IInv
<1>2. QED BY Invariant, <1>1, PTL

\* No program fails with a problem that its can_do accepts, but for the two
\* kinds of problems that CanDoIsEnough names.
THEOREM AcceptedIsDone == Spec => []CanDoIsEnough
<1>1. IInv => CanDoIsEnough BY DEF IInv
<1>2. QED BY Invariant, <1>1, PTL

\* A process that does problems of one kind and one rank frees no block twice,
\* however many they are and in which order.
THEOREM AlikeFreesOnce == Spec => []FreesOnce
<1>1. IInv => FreesOnce BY DEF IInv
<1>2. QED BY Invariant, <1>1, PTL

\* What the verifier copies in is transformed, and the result is what it
\* copies out, for every program and problem.
THEOREM ResultsArrive == Spec => []ResultArrives
<1>1. IInv => ResultArrives BY DEF IInv
<1>2. QED BY Invariant, <1>1, PTL
=============================================================================
