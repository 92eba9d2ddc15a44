---------------------------- MODULE DoitProgram ----------------------------
(***************************************************************************)
(* A doit program of any of the benchmarked codes, as libbench uses it:    *)
(* verify() and speed() ask can_do, allocate and clear the arrays, call    *)
(* setup, copy data in, transform them, copy the result out, and end with  *)
(* done and problem_destroy; a process does so for one problem after the   *)
(* other.  Which of the steps concern what is in the row of the program.   *)
(*                                                                         *)
(* The state is what a program keeps in static variables: its pointers,    *)
(* which outlive a problem; and where the data are and in which layout.    *)
(* The build is that of production, where bench_free is free().            *)
(***************************************************************************)
EXTENDS LibraryAdaptors, RoutineAdaptors

CONSTANTS Problems,   \* the problems a process may be asked to do
          NoProblem   \* stands for none of them

\* problem_parse makes p->rank numbers, none of them zero.
Problem == [prec : {"single", "double"}, kind : {"complex", "real"},
            rank : Nat \ {0}, n : Seq(Nat \ {0}), sign : {-1, 1},
            inPlace : BOOLEAN, split : BOOLEAN]
ASSUME ProblemsAssumption ==
    NoProblem \notin Problems /\ \A p \in Problems : p \in Problem /\ Len(p.n) = p.rank

Programs == {
    "fftw2", "fftw2-nd", "fftw3", "fftw3-r2r", "gsl-mixed-radix", "gsl-radix2",
    "gsl-radix2-real", "imsl", "intel-ipps", "intel-mkl", "intel-mkl-f",
    "intel-mkl-dfti", "kissfft", "sgimath", "sgimath2d", "sgimath3d",
    "sunperf", "sunperf2d", "sunperf3d", "vbigdsp", "spiral-egner-fft", "acml",
    "cxml", "cxml2d", "cxml3d", "essl", "green", "jmfftc", "mfft",
    "nag-inplace", "nag-workspace", "nag-cmplx", "vdsp",
    "arprec", "bloodworth", "bloodworth-fht", "burrus-sffteu", "cross",
    "cwplib", "fftpack", "dfftpack", "dsp79-rader", "dsp79-FFT842",
    "dsp79-FAST", "dsp79-FFA", "dsp79-singleton", "dsp79-wfta", "dsp79-morris", "fxt-dif",
    "fxt-split", "fxt-twodim", "fxt-ndim", "fxt-wrap-real", "fxt-fht-real",
    "glassman", "goedecker", "gpfa", "gpfa-3d", "harm", "krukar", "mixfft",
    "monnier", "morris82", "mpfun77", "mpfun90", "napack", "numutils",
    "ransom", "rmayer", "sciport", "singleton", "singleton-3d", "emayer",
    "esrfft", "ffte", "fftreal", "sorensen-ctfftsr", "sorensen-rsrfft",
    "sorensen-irsrfft", "sorensen-sfftfu", "as117", "as83", "as97",
    "temperton", "teneyck", "valkenburg", "nr-f", "nr-c", "ooura-sg",
    "ooura-sg2d", "ooura-4f2d", "ooura-sg3d", "qft"}

\* One name stands for all programs that a Makefile builds from one doit.c
\* with the same answers: fftw2-estimate, fxt-dit, rmayer-lookup and so on.
Adaptor(d, q) ==
    CASE d = "fftw2" -> Fftw2(q)
      [] d = "fftw2-nd" -> Fftw2Nd(q)
      [] d = "fftw3" -> Fftw3(q)
      [] d = "fftw3-r2r" -> Fftw3Real(q)
      [] d = "gsl-mixed-radix" -> Gsl(q)
      [] d = "gsl-radix2" -> GslRadix2(q, "complex")
      [] d = "gsl-radix2-real" -> GslRadix2(q, "real")
      [] d = "imsl" -> Imsl(q)
      [] d = "intel-ipps" -> IntelIpps(q)
      [] d = "intel-mkl" -> IntelMkl(q)
      [] d = "intel-mkl-f" -> IntelMklF(q)
      [] d = "intel-mkl-dfti" -> IntelDfti(q)
      [] d = "kissfft" -> Kissfft(q)
      [] d = "sgimath" -> SgiMath1d(q)
      [] d = "sgimath2d" -> SgiMath2d(q)
      [] d = "sgimath3d" -> SgiMath3d(q)
      [] d = "sunperf" -> Sunperf1d(q)
      [] d = "sunperf2d" -> Sunperf2d(q)
      [] d = "sunperf3d" -> Sunperf3d(q)
      [] d = "vbigdsp" -> Vbigdsp(q)
      [] d = "spiral-egner-fft" -> SpiralFft(q)
      [] d = "acml" -> Acml(q)
      [] d = "cxml" -> Dxml1d(q)
      [] d = "cxml2d" -> Dxml2d(q)
      [] d = "cxml3d" -> Dxml3d(q)
      [] d = "essl" -> Essl(q)
      [] d = "green" -> Green(q)
      [] d = "jmfftc" -> Jmfft(q)
      [] d = "mfft" -> Mfft(q)
      [] d = "nag-inplace" -> Nag(q, TRUE)       \* and nag-multiple
      [] d = "nag-workspace" -> Nag(q, FALSE)
      [] d = "nag-cmplx" -> NagComplex(q)
      [] d = "vdsp" -> Vdsp(q)
      [] d = "arprec" -> Arprec(q)
      [] d = "bloodworth" -> Bloodworth(q, FALSE)
      [] d = "bloodworth-fht" -> Bloodworth(q, TRUE)
      [] d = "burrus-sffteu" -> Burrus(q)
      [] d = "cross" -> Cross(q)
      [] d = "cwplib" -> Cwplib(q)
      [] d = "fftpack" -> Fftpack(q)
      [] d = "dfftpack" -> Dfftpack(q)
      [] d = "dsp79-rader" -> Dsp11(q)
      [] d = "dsp79-FFT842" -> Dsp12(q)
      [] d = "dsp79-FAST" -> Dsp12Fast(q)
      [] d = "dsp79-FFA" -> Dsp12Ffa(q)
      [] d = "dsp79-singleton" -> Dsp14(q)
      [] d = "dsp79-wfta" -> Dsp17(q)
      [] d = "dsp79-morris" -> Dsp18(q)
      [] d = "fxt-dif" -> Fxt(q)                 \* and fxt-dit
      [] d = "fxt-split" -> FxtSplit(q, {1})     \* fxt-fht, fxt-matrixfft
      [] d = "fxt-twodim" -> FxtSplit(q, {2})
      [] d = "fxt-ndim" -> FxtSplit(q, 2 .. 5)
      [] d = "fxt-wrap-real" -> FxtReal(q, TRUE)
      [] d = "fxt-fht-real" -> FxtReal(q, FALSE) \* and fxt-split-real
      [] d = "glassman" -> Glassman(q)
      [] d = "goedecker" -> Goedecker(q)
      [] d = "gpfa" -> Gpfa(q)
      [] d = "gpfa-3d" -> Gpfa3d(q)
      [] d = "harm" -> Harm(q)
      [] d = "krukar" -> Krukar(q)
      [] d = "mixfft" -> Mixfft(q)
      [] d = "monnier" -> Monnier(q)
      [] d = "morris82" -> Morris(q)
      [] d = "mpfun77" -> Mpfun77(q)
      [] d = "mpfun90" -> Mpfun90(q)
      [] d = "napack" -> Napack(q)
      [] d = "numutils" -> Numutils(q)
      [] d = "ransom" -> Ransom(q)
      [] d = "rmayer" -> Rmayer(q)
      [] d = "sciport" -> Sciport(q)
      [] d = "singleton" -> Singleton(q)
      [] d = "singleton-3d" -> Singleton3d(q)
      [] d = "emayer" -> Emayer(q)
      [] d = "esrfft" -> Esrfft(q)
      [] d = "ffte" -> Ffte(q)
      [] d = "fftreal" -> Fftreal(q)
      [] d = "sorensen-ctfftsr" -> SorensenTables(q)
      [] d = "sorensen-rsrfft" -> SorensenReal(q, -1)
      [] d = "sorensen-irsrfft" -> SorensenReal(q, 1)
      [] d = "sorensen-sfftfu" -> Sorensen(q)
      [] d = "as117" -> Statlib117(q)
      [] d = "as83" -> Statlib83(q)
      [] d = "as97" -> Statlib97(q)
      [] d = "temperton" -> Temperton(q)
      [] d = "teneyck" -> Teneyck(q)
      [] d = "valkenburg" -> Valkenburg(q)
      [] d = "nr-f" -> Nr(q, FALSE)
      [] d = "nr-c" -> Nr(q, TRUE)
      [] d = "ooura-sg" -> Ooura(q)              \* and ooura-4g, ooura-8g
      [] d = "ooura-sg2d" -> Ooura2d(q, {"a", "t", "w", "ip"})
      [] d = "ooura-4f2d" -> Ooura2d(q, {"a", "w", "ip"})
      [] d = "ooura-sg3d" -> Ooura3d(q)
      [] d = "qft" -> Qft(q, 16)

-----------------------------------------------------------------------------
VARIABLES build,   \* [program, prec]: which binary this is
          pc,      \* what libbench does next
          q,       \* the problem, or NoProblem
          last,    \* the kind and the rank of the problem before, if any,
          alike,   \* and whether all problems so far had the same
          own,     \* the pointers to blocks of the present problem,
          old,     \* to blocks of an earlier one that are still allocated,
          stale,   \* and to blocks that have been freed; others are NULL
          data     \* [at, as]: the array and the layout of the data

vars == <<build, pc, q, last, alike, own, old, stale, data>>

row == Adaptor(build.program, q)

\* In place, out is in.
Place(x) == IF q.inPlace /\ x = "out" THEN "in"
            ELSE IF q.inPlace /\ x = "outs" THEN "ins" ELSE x

\* A backward real transform starts from hermitian data, a forward one ends
\* with them; real is the layout of the other end.
Herm == <<"herm", row.herm>>
InLayout(complex, real) == IF IsComplex(q) THEN complex
                           ELSE IF q.sign = -1 THEN real ELSE Herm
OutLayout(complex, real) == IF IsComplex(q) THEN complex
                            ELSE IF q.sign = -1 THEN Herm ELSE real

Init == /\ build \in [program : Programs, prec : {"single", "double"}]
        /\ pc = "idle" /\ q = NoProblem /\ last = <<>> /\ alike = TRUE
        /\ own = {} /\ old = {} /\ stale = {}
        /\ data = [at |-> "nowhere", as |-> "nothing"]

\* can_do says no, by itself or after the library has, which then has created
\* nothing; and the problem is given up.
Refuse == /\ pc = "idle"
          /\ \E p \in Problems :
                 LET r == Adaptor(build.program, p)
                 IN  p.prec = build.prec /\ (~r.can \/ r.probes # {})
          /\ UNCHANGED vars

\* problem_parse and can_do(p): a problem that is accepted.
Ask ==
    /\ pc = "idle"
    /\ \E p \in Problems :
           LET r == Adaptor(build.program, p)
           IN  /\ p.prec = build.prec
               /\ r.can
               /\ q' = p
               /\ last' = <<p.kind, p.rank>>
               /\ alike' = (alike /\ last \in {<<>>, <<p.kind, p.rank>>})
               /\ old' = old \ r.probes
               /\ stale' = stale \cup r.probes
    /\ pc' = "clear"
    /\ UNCHANGED <<build, own, data>>

\* problem_alloc and problem_zero, which clears both arrays.
Clear == /\ pc = "clear"
         /\ data' = [at |-> "in", as |-> "zeros"]
         /\ pc' = "setup"
         /\ UNCHANGED <<build, q, last, alike, own, old, stale>>

\* Mutant: a pointer that done has freed is still taken for a freed one.
SetUpKeepsStale == /\ pc = "setup"
                   /\ own' = row.alloc
                   /\ old' = old \ row.alloc
                   /\ pc' = IF row.stops THEN "died" ELSE "ready"
                   /\ UNCHANGED <<build, q, last, alike, stale, data>>

\* setup: every pointer it sets forgets the block it had.
SetUp == /\ pc = "setup"
         /\ own' = row.alloc
         /\ old' = old \ row.alloc
         /\ stale' = stale \ row.alloc
         /\ pc' = IF row.stops THEN "died" ELSE "ready"
         /\ UNCHANGED <<build, q, last, alike, data>>

\* problem_ccopy_from, in the verifier.
CopyFrom ==
    /\ pc = "ready"
    /\ data' = [at |-> Place(row.src), as |-> InLayout(row.cplx, row.real)]
    /\ pc' = IF IsReal(q) /\ q.sign = 1 /\ ~HermCopies(q, row.herm)
             THEN "died" ELSE "copied"
    /\ UNCHANGED <<build, q, last, alike, own, old, stale>>

\* doit in the timing loop, on whatever is in the arrays.
Time == /\ pc = "ready"
        /\ pc' = "done"
        /\ UNCHANGED <<build, q, last, alike, own, old, stale, data>>

\* doit in the verifier: a result if the data are where the FFT looks for
\* them, in the layout that it is told.
Doit ==
    /\ pc = "copied"
    /\ data' = IF /\ data.at = Place(row.reads)
                  /\ data.as = InLayout(row.call, row.ld)
               THEN [at |-> Place(row.writes), as |-> OutLayout(row.call, row.ld)]
               ELSE [at |-> "nowhere", as |-> "garbage"]
    /\ pc' = "computed"
    /\ UNCHANGED <<build, q, last, alike, own, old, stale>>

\* problem_ccopy_to; then another round, or the end.
CopyTo ==
    /\ pc = "computed"
    /\ pc' \in IF IsReal(q) /\ q.sign = -1 /\ ~HermCopies(q, row.herm)
               THEN {"died"} ELSE {"ready", "done"}
    /\ UNCHANGED <<build, q, last, alike, own, old, stale, data>>

\* done: free() takes NULL, but no block twice.
Done == /\ pc = "done"
        /\ own' = own \ row.frees
        /\ old' = old \ row.frees
        /\ stale' = stale \cup (row.frees \cap (own \cup old))
        /\ pc' = IF row.frees \cap stale = {} THEN "destroy" ELSE "freed twice"
        /\ UNCHANGED <<build, q, last, alike, data>>

\* problem_destroy: what is left of the problem has become unreachable, or
\* will be when the pointer is set again.
Destroy == /\ pc = "destroy"
           /\ old' = old \cup own /\ own' = {}
           /\ q' = NoProblem /\ data' = [at |-> "nowhere", as |-> "nothing"]
           /\ pc' = "idle"
           /\ UNCHANGED <<build, last, alike, stale>>

\* The process is gone.
Stopped == pc \in {"died", "freed twice"} /\ UNCHANGED vars

Next == Refuse \/ Ask \/ Clear \/ SetUp \/ CopyFrom \/ Time \/ Doit \/ CopyTo
        \/ Done \/ Destroy
        \/ Stopped

Spec == Init /\ [][Next]_vars
-----------------------------------------------------------------------------
\* A problem is done only after can_do has accepted it.  A pointer to a block
\* is to one of this problem, of an earlier one, or to one that has been freed.
TypeOK == /\ build \in [program : Programs, prec : {"single", "double"}]
          /\ alike \in BOOLEAN
          /\ pc \in {"idle", "clear", "setup", "ready", "copied", "computed",
                     "done", "destroy", "died", "freed twice"}
          /\ pc = "idle" => q = NoProblem
          /\ pc # "idle" => /\ q \in Problems /\ row.can
                            /\ last = <<q.kind, q.rank>>
          /\ own \cap old = {} /\ own \cap stale = {} /\ old \cap stale = {}

\* What can_do accepts, setup, the copy functions and doit can do: none of
\* their assertions fails, and no copy function is one of libbench's defaults
\* that only fail.  This is so but for two kinds of problems, which are named:
\* kissfft's of an even size with an odd last dimension, and hermitian data of
\* several dimensions if MKL accepts them.
CanDoIsEnough ==
    pc = "died" =>
        /\ IsReal(q)
        /\ \/ /\ build.program = "kissfft"
              /\ IsEven(Size(q)) /\ ~IsEven(LastDim(q))
           \/ build.program = "intel-mkl-dfti" /\ q.rank > 1

\* A process whose problems are all real or all complex and of one rank never
\* frees a block twice, however they differ otherwise, and however many they
\* are: what done frees without having looked whether setup has set it depends
\* on nothing else.  The blocks of imsl, nag and intel-mkl are freed twice when
\* a problem of fewer dimensions, or a real one, follows another.
FreesOnce == pc = "freed twice" => ~alike

\* The data that are copied in are found by the FFT, and its result is found
\* by the function that copies it out, in the same array and layout.
ResultArrives ==
    pc = "computed" => /\ data.at = Place(row.dst)
                       /\ data.as = OutLayout(row.cplx, row.real)
=============================================================================
