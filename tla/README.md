# benchFFT: formal models

benchFFT measures the speed and the accuracy of FFT codes. This directory
holds TLA+ modules that model the parts of it that decide what is measured,
what is verified and what ends up in the output files, the TLC configurations
that check them, and TLAPS proofs of what holds for every value of the
constants. `PROJECT.json` lists components, runs, the source lines behind each
definition (`map`), the hazards of the code, findings and theorems.

Parse a module with SANY, check `X.cfg` with TLC against the module named in
`PROJECT.json` (the `MC...` module), and check a `...Proofs` module with
`tlapm`.

## 1. Inventory

All of it is C and shell. There are no threads and no messages between
processes; what is hard is what time, memory, floating point, exit statuses
and interruptions do to long sequences of small steps, and what a hundred
adaptors, each written after the manual of another library, make of one
interface.

| component | source | state it keeps | operations | what makes it correct |
|---|---|---|---|---|
| timing loop | `libbench/speed.c`, `timer.c` | `iter`, `k`, `t[]`, `tmin`, static `t0` | `speed`, `timer_start`, `timer_stop` | only complete, fresh, long enough batches are reported; the search ends when it can |
| statistics and report | `libbench/report.c` | `t[]`, `min`, `max`, `avg`, `med` | `mkstat`, four printers | the printed figures belong to the batch and to each other |
| process life cycle | `bench-main.c`, `speed.c`, `verify.c`, `can-do.c`, `allocate.c`, `deallocate.c`, `zero.c` | option list, the problem, its arrays | `bench_main1`, `speed`, `verify`, `accuracy`, `report_can_do` | the routines of a doit program are called in order; memory is balanced |
| debugging allocator | `util.c` | live blocks, total | `bench_malloc`, `bench_free` | no block freed twice or used after it was freed |
| comparison of results | `verify.c` 31-60, 180-205 | `error`, `mag` | `cerror`, `acmp` | the process ends exactly when the arrays are too far apart |
| FFT self-tester | `verify.c`, `aset.c` ... | work arrays | `linear`, `impulse`, `tf_shift` | the codes that pass are those that compute the transform |
| multi-precision reference FFT | `mp.c` | cached Bluestein vectors, table of roots | `fftaccuracy`, `fftaccuracy_done`, `bluestein`, `fft0`, `bitrev` | the error is that against the transform, whatever was transformed before; arithmetic right to the last digits; Newton's iteration ends |
| hermitian data formats | `copy-*.c` | none | one function each way and format | writing a hermitian array and reading it gives the array back |
| other data conversions | `copy-c2r*.c`, `copy-r2c*.c`, `copy-c2ri.c`, `copy-ri2c.c`, `ccopy-*.c` | none | real and split data | the same |
| formats of single adaptors | `benchees/*/doit*.c`, `doit*.cc` | none | `copy_c2h`, `copy_h2c`, `copy_c2r`, `copy_r2c` of the adaptor | the same |
| problem parser | `problem.c`, `pow2.c` | the problem under construction | `problem_parse` | exactly the well-formed texts give a problem, and it is the one written |
| clock calibration | `timer.c` 90-203 | `time_min` | `find_n`, `acceptable`, `calibrate` | what is accepted is long enough for the clock |
| command line options | `bench-main.c`, `getopt*.c`, `useropt.c` | option variables | `getopt_long` loop | options in the order written, each with its own argument; all problems are found |
| floating-point exceptions | `fpe.c` | handler, dump file | `enable_fp_exceptions` | - |
| array helpers, information | `aset.c`, `cacopy.c`, `prime.c`, `info.c`, ... | none | loops over arrays | - |
| adaptors | `benchees/*/doit*.c` | plan, tables, work arrays in static pointers | `can_do`, `setup`, `copy_*`, `doit`, `done` | what `can_do` accepts works; tables are those of this problem; `done` frees what `setup` allocated; data are where the FFT looks for them |
| benchmarked codes | `benchees/*` | - | third-party FFTs | - |
| benchmark script | `scripts/benchmark` | `acc`, `time`, `print`, loop variable | four loops, four questions | one line per problem, no stale column, stops as documented |
| make targets | `Makefile`, `benchees/Makefile.common` | build trees, stamp files, output files | `build`, `run`, `benchmark`, `accuracy`, `clean` | after `make run` every line is there once, whatever came before |
| system information, plots, configuration | `scripts/*`, `configure.ac`, `tools/menuconfig` | - | filters, generators | - |

How they interact. `make run` starts `scripts/benchmark` for each program;
the script starts one process of the doit program for each question about each
problem, in a pipeline with `tail -1`, and sees only exit status and last
line. A process runs its options in order; `--speed`, `--verify`,
`--accuracy` and `--can-do` each parse a problem, ask the adaptor's `can_do`,
allocate, clear, call `setup`, call `doit` in the timing loop or in the tests,
call `done`, and free. Static variables (`t0` and `time_min` in `timer.c`,
the Bluestein cache and the table of roots in `mp.c`, the allocator's total, the
pointers of the adaptor) outlive a command. The
timing loop hands its array to `mkstat` through `report`.

## 2. Modules

| module | models | abstract or composed with |
|---|---|---|
| `Measurement` | what a benchmark promises: one set-up, then one good batch, published once | abstract specification of `SpeedLoop` |
| `SpeedLoop` | `speed()` and the timer, statement by statement, with somebody setting the clock | refines `Measurement` |
| `Stats` | `mkstat()`, iteration by iteration | takes the batch of `SpeedLoop` |
| `DoitProtocol` | the order of calls the author of a doit program may rely on | abstract specification of `Session` |
| `Session` | one process: commands, blocks of memory, the static cache of `mp.c` | refines `DoitProtocol` |
| `ErrorNorm` | `cerror`/`acmp` with IEEE comparisons and NaN | what a test of `Session` ends with |
| `BenchDriver` | `scripts/benchmark` | its questions are processes of `Session` |
| `MakeBench` | `make build`, `run`, `benchmark`, `accuracy`, `clean`, stamps, interruptions, edits | its lines are those of `BenchDriver` |
| `HermFormats` | the `copy-c2h` and `copy-h2c` pairs of libbench, iteration by iteration | what the tests of `Session` copy with |
| `OwnFormats` | the pairs of single doit programs, and the real and split formats of libbench | the layouts that `DoitProgram` only names |
| `FftTester` | `do_verify()`: `linear`, `impulse`, `tf_shift` | the rounds of `Session`'s verification; comparing is `ErrorNorm` |
| `MpFft` | `fftaccuracy()` with its caches, arithmetic exact | what `Session` frees too early |
| `MpArith` | the numbers of `mp.c` | what `MpFft` computes with |
| `ProblemParse` | `problem_parse()` | gives `Session` and `DoitProgram` their problems |
| `Calibrate` | `calibrate()` | gives `SpeedLoop` its `time_min` |
| `GetOpt` | `getopt_long()` as `bench-main.c` calls it | gives `Session` its list of commands |
| `DoitProgram` | any of the doit programs in a process that does one problem after the other | calls in the order of `DoitProtocol` |
| `AdaptorBase`, `LibraryAdaptors`, `RoutineAdaptors` | what every doit program does, one row each | used by `DoitProgram` |
| `CyclicRing`, `TransformArrays` | exact arithmetic with roots of unity; arrays of several dimensions | used by `FftTester` and `MpFft` |
| `MCRoutines` | composition of the sequential routines of libbench | `ErrorNorm`, `HermFormats`, `OwnFormats`, `FftTester`, `MpFft`, `MpArith`, `ProblemParse`, `Calibrate`, `GetOpt` |
| other `MC*` | finite constants for TLC | |
| `SpeedLoopProofs`, `StatsProofs`, `SessionProofs`, `BenchDriverProofs`, `MakeBenchProofs`, `HermFormatsProofs`, `DoitProgramProofs` | theorems about the module of that name | |
| `RoutinesProofs` | theorems about `ErrorNorm`, `Calibrate`, `ProblemParse`, `GetOpt` | |

### SpeedLoop

One action per statement that reads or writes what the others see:
`Setup`/`SetupStop` (lines 40-45 of `speed.c`), `TimerStart`, `Doit`,
`TimerStop` (the measuring loop, 47-51), `StartOverNegative` (the `goto` for
negative timings), `Scan` (53-59), `Accept`, `Double`, `StartOverLimit` (61-65).
`BeginRound` is the head of the `for` over `iter`, used by every action that
goes back to it. A reading of the clock only ever enters a difference, so the
variable `since` is "clock minus t0"; `StepClock` adds to it at any moment at
which the program could observe it. The variable `cost` is how long one
iteration of the benchmarked routine takes, `Noise` what the system adds; the
history variables `run`, `taken` and `fresh` record what really happened, and
`advanced` whether the clock was ever set forward. `malloc` leaves any element
of `Junk` in the array.

### Stats

The three loops of `mkstat` are `ScanTiming`, `Compare`/`NextPass`, and
`Median`. Timings are integers, because the code compares and adds them; the
average is kept as the sum.

### Session and DoitProtocol

A state of the process is the option list that is left, the call it has
reached, and the memory: blocks named by the variable that holds them and by
the number of the command. `Malloc`, `Free` and `Use` set `bad` when a block
is freed that is not allocated, freed twice, or used while not allocated.
`Fft1` is `bluestein` with its static cache. `OutOfMemory` may happen at every
allocation. `Measure` calls `doit` any number of times (up to the bound `MaxDoits`,
at which it may stay for ever), since `speed()` is satisfied when the clock says so. `DoitProtocol` is a machine over two variables (`stage`, `calls`)
and `Stage` in `Session` maps to it.

### ErrorNorm

An element-by-element scan. Numbers are integers or `NaN`; `Less` is false
when an operand is `NaN`, as in C, and `dmax`, `dmin`, `dabs`, `norm2` are the
macros and functions of `verify.c` written with it. The quotient
`error / mag` is the pair; that is where 0/0 and x/0 are distinguished.
`haveIsnan` is a property of the build (`HAVE_ISNAN`).

### BenchDriver

The loop body of `scripts/benchmark`. What the program can do is chosen at the
start and not known to the script. How a process ends (`Endings`) is chosen when it
is started: "good"; "failed", before its figures are printed; "late", in `done` or
`problem_destroy`, when `verify.c:425` or `:490` has printed them and `util.c:39`
flushes; "hung", for a `--speed` that is never satisfied, for which the shell waits
(`pc = "waiting"`). `Column` says what `tail -1` passes on, so a late failure
leaves figures in the line. The one fact about shells, that the status of `a | b` is
that of `b`, is `PipelineStatus`.

### MakeBench

Targets are triples of build tree, kind and directory. The lines of the recipe of
`make run` that remove files and stamps are `RmAccuracy`, `RmSpeed`, `FindAccuracy` and
`FindBenchmark`, one after the other; `Look`, `Measure` and `Stamp` go through the
directories. `make run` does not depend on `make build` (both have the one
prerequisite `mc_update_config`); `Build`, `EmptyTree` and `Configure` are the latter,
a command of its own that starts each build tree anew and ends early when something
does not build. `Interrupt` returns to the prompt from anywhere. A stamp counts only if it
is not older than the programs, the prerequisite `$(PRG)` of the target: `Edit` is the
user changing the sources of a directory at the prompt, after which its programs may
or may not build, and its stamps no longer stop make. What the histories say: `messy`
are the targets of which there may be lines without a stamp, `lost` the stamps whose
lines `make run` has removed.

### HermFormats and OwnFormats

One problem is written by its `copy_c2h` function (`C2HHead`, `C2HLoop`,
`C2HTail`) and the real array read back by its `copy_h2c` function (`H2CHead`,
`H2CLoop` or, for the unpacked layout, `Cp` and `CpRow`, then `H2CTail`). The
actions are shared by the layouts, which the code has in ten files: `ReCell`,
`ImCell`, `First` and `Limit` say where they differ, and `Centred` which of them
have element 0 before the loop and an even middle after it. Only the unpacked layout
has rows and planes. The arrays are as large as `problem_alloc` makes them; an
index outside one ends the check with an error.

Doit programs whose library has a layout of its own bring their own functions
(ooura in two and three dimensions, MKL from C and from Fortran, green, nr,
vbigdsp, vdsp, fxt, fftreal, statlib). Their loops assign every place once, so
`OwnFormats` gives them as sets of assignments; a place that gets two different
values holds `Junk`, and so does one that gets none. The function of nr that expands an array in
place does depend on the order, and has one step for each iteration. The packed
and unpacked real formats and the split complex one of libbench are here too.
What a function scales by is part of it (`Halving`, `Expected`).

### The doit programs

`Libbench(q)` in `AdaptorBase` is the row of a program that overrides nothing;
the row of a program is `Libbench` with what its source overrides: when `can_do`
accepts (`can`) and which static pointer it tries out on the way (`probes`), on which
problems `setup` or the library stops (`stops`), which static pointers `setup` sets
(`alloc`) and which `done` frees (`frees`, the two written apart from their two
functions), into which array and layout data are copied (`src`, `dst`, `cplx`,
`real`, `herm`), and which array and layout the call of the FFT is told (`reads`, `writes`,
`call`, `ld`).
`LibraryAdaptors` has the libraries that plan, `RoutineAdaptors` the single
routines; `Adaptor(d, q)` in `DoitProgram` chooses the row of a binary, `row` is that of
the present problem. Where `can_do` is the library's own answer, as with
`intel-mkl-dfti`, both answers are possible. The actions of `DoitProgram` are the calls
libbench makes: `Ask`/`Refuse` (parse and `can_do`), `Clear` (`problem_alloc`,
`problem_zero`), `SetUp`, `CopyFrom`, `Doit`, `CopyTo` in the verifier or `Time` in the timing
loop, `Done`, `Destroy`. A pointer is in `own`, `old` or `stale` if it points to a block of
this problem, to one of an earlier problem, or to one that has been freed, and is NULL
otherwise; `free` takes NULL and no block twice. The build is the one that is measured,
without the debugging allocator. `alike` remembers whether all problems of the
process had one kind and rank. No defect is exempted by a list: the properties say in
which cases they speak, and section 5 has those that were found.

### FftTester

A code under test is a matrix, possibly with the conjugate of its input or a
constant added to its output. Arithmetic is exact, in pairs of integers modulo
4801 (`CyclicRing`), a ring with conjugation and n-th roots of unity for the
divisors of 960: identities between transforms that follow from the laws of
arithmetic hold there as for complex numbers, and without rounding, so that
equality replaces the tolerance. The random arrays of the tester are replaced by
all arrays with one element that is 1 or i and by a dense one. `Linear`,
`Impulse0`, `Impulse` and `TfShift` are the tests, the latter dimension by
dimension.

### MpFft and MpArith

`MpFft` has a step for every call of `cexp_builtin` and every loop without one:
the table of roots (`cachedN`, `w`), the Bluestein sequence and its transformed
kernel (`blueN`, `blueW`, `blueY`), `bitrev`, the butterflies of `fft0`, and both
directions of `fftaccuracy`. `MpArith` has the numbers: sign, exponent and
digits, with `add`, `sub`, `mul`, `pack`, `toreal` and Newton's iteration of
`inv`. `fromreal` of a reciprocal, which Newton starts from, is a quotient
rounded to nearest (`Reciprocal`, `Nearest`).

### ProblemParse, GetOpt, Calibrate

`ProblemParse` reads one character per step. `goal` is the label the code is
at; the digits and the product of the sizes wrap around at the width of an
`unsigned`. `GetOpt` follows `_getopt_internal_r`: `Exchange` moves elements one
swap at a time, long options may be abbreviated, short ones stand in clusters with
the argument attached or separate. The command lines and the table of long
options are constants, `BenchOptions` is the table of `bench-main.c`. `Meaning`
reads the same command line from the left without moving anything, and
`OptionsInOrder` compares the two.
`Calibrate` has a machine that does `rate` turns of the loop in `work()` per
microsecond, or none if the compiler has removed it, and a clock that shows
multiples of `tick`. An interval that is accepted with a time other than zero lasts
143 ticks of the clock or more: with fewer no four times are so close to the
proportions that `acceptable` asks for.

### MCRoutines

These routines are sequential, share no state, and none is called while another
of them runs, except as a function whose result is known. A behaviour of
`RoutinesSpec` is a run of one of them; the variables of the others keep one value.
The modules with theorems (`ErrorNorm`, `HermFormats`, `ProblemParse`, `Calibrate`,
`GetOpt`) are extended, so that their properties are the ones the run checks and
TLC evaluates their assumptions; the others are instances.

## 3. Runs

| run | shows | bounds |
|---|---|---|
| `speed_loop` | `NoStaleTimes`, `ReportedBatchSound`, `ReportedRunsAreLong`, `LeavesRoundOnlyWhenShort`, `Terminates`, `StartsOverForever`, refinement of `Measurement` | 2 timings, limit 8 (rounds of 1, 2, 4 iterations), 2 clock adjustments, both ways; a routine that is slow enough and one that is not |
| `stats` | `FiguresConsistent`, `BatchKept`, `Returns` | all batches of 5 timings out of 4 values |
| `stats_median` | violation: the median is not one | the same |
| `session` | `NoBadFree`, `Balanced`, `EndsUnlessMeasuring`, refinement of `DoitProtocol` | all lists of one and two commands over seven problems that differ in everything the code tests; two calls of `doit` (`MaxDoits`) before `--speed` repeats |
| `session_accuracy_twice` | violation of `NoBadFree` | two `--accuracy` |
| `bench_driver` | `OneLineEach`, `ColumnsAreOwn`, `AsksOnlyDoable` | four problems, two of them at or beyond the limits, all sets of doable problems, all endings of every process, all options |
| `bench_driver_stops` | violation of `StopsAtVerificationError` | the same |
| `error_norm_nan` | violation of `NaNNeverPasses` | two elements out of {0, 1, NaN} |
| `adaptors` | `CanDoIsEnough`, `FreesOnce`, `ResultArrives` | every doit program in both precisions, 23 shapes of one to four dimensions, complex and real, both signs, in and out of place |
| `routines` | `VerdictIsRight`, `LayoutAsDocumented`, `RoundTrip`, `TesterDecides`, `ReferenceIsDft`, `ArithIsRounded`, `ParsesAsWritten`, `CalibrationIsSound`, `OptionsInOrder` | below |
| `calibrate_zero` | violation of `AcceptedWasMeasured` | two speeds, a clock of one microsecond |
| `make_bench` | `RunMeasuresAllOnce`, `NoLineTwice`, `StampsAreTrue` | four commands, two build trees with two directories, one of which has another list of programs in each tree; any of them may not build, any tree not be configured |

The bounds of `routines`, by the value of the variable `routine`:

| routine | inputs |
|---|---|
| `acmp` | two elements, real and imaginary parts out of {-1, 0, 1, 2}, tolerance 1/2 |
| `copy_h2c` | five layouts, sizes 1 to 9, unpacked up to 4 by 5 and up to 3 by 3 by 4, both signs |
| `copy_own` | powers of two up to 16 in one dimension, up to 8 by 8 (8 by 16 for vdsp and vbigdsp) in two, 4 by 4 by 4 in three; sizes 1 to 9 for statlib, real and split data; some shapes with a dimension of 1 are more than `can_do` lets through, which does no harm |
| `do_verify` | complex and real, both signs, sizes 1 to 6, 2x2, 2x3, 3x2, 4x2; the right code and ten wrong ones, and for size 2 all matrices over {0, 1, -1, i} |
| `fftaccuracy` | two calls in a row out of sizes 1, 2, 3, 4, 5, 6, 8, right and with one wrong element; table of roots up to bit 7 (`MaxBit`) |
| `mp` | four digits in base 4, three bits in a floating-point number, both zeros, exponents up to five apart, six Newton iterations (`MaxNewton`) |
| `problem_parse` | all texts of up to five out of eight characters, and combinations of letters, sizes and vector parts; at most three dimensions (`MaxRank`), largest `int` 127 (`NumberMax`) |
| `calibrate` | speeds 0, 1, 7, 30, 64, 97, 100, 160, clocks of 1, 7, 10 and 10000 microseconds, intervals up to 16384 (`TmaxTry`), largest `int` 99999999 (`IntMax`) |
| `getopt` | all command lines of up to three of fifteen kinds of argument, and of up to six of problem, `-p`, `-r`, `--`; with and without `POSIXLY_CORRECT` |

Why the bounds are enough. The timing loop treats all slots and all rounds
alike: two slots distinguish "this one" from "another", three rounds show a
first, a doubled and a last iteration count, and two adjustments let the clock
be wrong in one round and right, or wrong the other way, in the next. Five
timings are the smallest number for which the sorting loops make more than
two passes. In `session` what one command can leave for the next is in its
heap and its three static variables, so lists of two commands show every
pair of states, and after two calls of `doit` another one changes nothing; the
`BenchDriver` list has an element of each kind followed by
one of another kind, which is what a stale column needs. Four commands let a
partial or interrupted make be followed by a clean, an edit or a build, by a make and by a
full run. The
copying functions move numbers and change signs without looking at them, so
that one array of different numbers stands for all arrays of its size; sizes 1
to 9 have empty loops, odd and even middles, and several dimensions have edges,
middles and interiors. A doit program keeps nothing from one problem to the next
but the state of its pointers, which `adaptors` explores to its end, for any number of
problems. The sizes in that run hit both sides of every test in a `can_do`: power
of two, smooth, prime, even, 1, too small, too many dimensions. What
`fftaccuracy` keeps is one table and one pair of vectors, so two calls show every
pair of what was there and what is wanted; a third is excluded because the freed cache of
`session_accuracy_twice` would be read. The numbers of `mp.c` have ten digits of
16 bits; four of two bits have the same cases (carry, borrow, cancellation,
rounding up to another digit, sticky bits below the last place). Six arguments
let a block of problems be exchanged with options twice. Where
the bound is on a data size (number of timings, array length) the theorems
below remove it.

Fairness. There is one thread in every model and it is never blocked; weak
fairness of the program's own actions
(`WF_vars(Program)`, or of `Next` where there is nothing else) is what a
scheduler gives. In `Session` it is withheld from the loop of `speed()`, which the
code may never leave, as `StartsOverForever` shows: `EndsUnlessMeasuring` says that
nothing else keeps a process. `bench_driver`, `adaptors`, `make_bench` and `routines` check
invariants only and assume no fairness; that Newton's iteration ends is the invariant that it never needs
`MaxNewton` rounds. Nothing is assumed of the person who sets the clock or
interrupts make. `Terminates` needs that the clock is set finitely often
(`MaxSteps`) and that the last round before the limit takes `time_min`; for a
routine that cannot, `StartsOverForever` shows what happens instead.

## 4. What is proved

Each theorem holds for every value of the constants that satisfies the named
assumptions of its module (`TimeAssumption`, `IterAssumption`, `EnvAssumption`;
`StatsAssumption`; `ArgvAssumption`, `RoundsAssumption`; `ListAssumption`,
`FlagsAssumption`, `MaxAssumption`; `DirsAssumption`, `KindsAssumption`; `NaNAssumption`,
`NAssumption`, `TolAssumption`; `MachinesAssumption`, `TmaxTryAssumption`,
`IntMaxAssumption`; `TextsAssumption`, `MaxRankAssumption`, `NumberMaxAssumption`;
`OptionsAssumption`; `ProblemsAssumption` of `HermFormats` and of
`DoitProgram`). They say what kind of thing a constant is; those that say more:
`time_min` is positive and not above the 1.0e20 the scan begins with; no
program is listed twice in its directory, as in the Makefiles; the array given to
a `copy_c2h` function is hermitian; a problem has as many sizes as its rank, none
zero; an `int` holds 32767, as C demands; no two options of the table have one name
or one value, which in `bench-main.c` would be two equal labels of a `switch`. Two
theorems about `Session` have a hypothesis of their own.

None of the properties but some of the types is inductive. Each proof module
names the strengthening `IInv`, as a conjunction of named parts, and has one
lemma per action or per part, with one step for the other of the two.

* `SpeedLoopProofs`: `TypeCorrect`, `NeverStale`, `ReportIsSound`,
  `ReportIsLong`, `GivesUpOnlyWhenShort`, `Refinement`. That the
  scan reads fresh slots follows only from how the measuring loop filled them.
  `IInv` says in addition to the types that slots below `k` are
  exactly the fresh ones while measuring (`MeasuringInv`), that `tmin` bounds
  the slots below `k` while scanning (`ScanInv`) and is one of the timings or the
  1.0e20 (`WitnessInv`), that a fresh slot was timed
  with the present `iter` (`FreshInv`), that what was reported is the array that
  was accepted (`ReportInv`), and that without a forward adjustment a timing is
  at most the true length of its run (`ClockInv`). `GivesUpOnlyWhenShort` is an
  action property: the step that leaves a round is one after a negative timing or
  after a minimum below `time_min`, and `WitnessInv` turns the minimum into a
  timing. The refinement maps `Accept` to
  `Publish`, the end of the set-up to `Prepare`, and all other actions to
  stuttering.
* `StatsProofs`: `TypeCorrect`, `FiguresHold` and `NothingLost`. After `i` timings
  `min` and `max` are timings and bound those seen and the sum lies between
  `i * min` and `i * max`; the inner loop stores the two values it read where they
  were, so the array is the batch throughout.
* `SessionProofs`: `TypeCorrect` and `DoitProtocolRefined` for every set of command
  lists; `MemorySafe` and `NothingKept` under the hypothesis
  `\A l \in Argv : AccuracyOnce(l)`, that no `--accuracy` follows one that used
  Bluestein's algorithm in the same command line. The scripts and Makefiles ask
  one question per process, so their command lines satisfy it; without it the run
  `session_accuracy_twice` refutes `NoBadFree`. `IInv` says which command can be
  at which call (`OpInv`), that `in` and `out` are null or this command's arrays
  (`ArraysInv`), that the heap consists of the option string, the two arrays that
  `accuracy()` never frees, and the blocks that the present command owns at the present
  call (`HeapInv`, with `Owns` as the table), and that the cache of `bluestein`
  is either empty, the present command's, or one that nobody will
  look at (`CacheInv`, `ListInv`). `NoBadFree` follows since every free and use is
  of owned blocks; `Balanced` since at the end of a command none is owned.
* `BenchDriverProofs`: `LinesComplete`, `ColumnsOwned`, `QuestionsAllowed`,
  `TypeCorrect`, for every list of problems, set of options and program. `ScriptInv`
  says what the three variables of the script hold at each statement in terms of
  the endings of the processes of the present problem only, which is what "not stale"
  means before the line is printed; `LinesInv` that the lines are those of the
  problems before `i`, in order; `DoableInv` and `AskedInv` that a question is asked
  only after the one before it allowed it.
* `MakeBenchProofs`: `StampsTrue`, `LinesOnce`, `RunComplete`, for all directories,
  programs, build trees and kinds, and for any number of commands, edits and
  interruptions. `MeasuringInv` says that the programs of the present directory
  that have been run are those before the ones left; `LinesInv` that each line
  belongs to a stamped directory, to the present one, or to one that is messy;
  `RemovedInv` what the lines of the recipe before the present one have removed;
  `RunInv` that a `make run` that has removed everything has every target that can be
  measured either stamped or still to do. What `FlattenSeq` makes of the target list is
  shown by induction
  over its length (lemma `Induction`, from the least element of a set of numbers).
* `RoutinesProofs`, one part for each routine:
  * `acmp`: `AcmpTypeCorrect` and `JudgesRightly`. Without NaN `error` and `mag` are
    the largest distance and the largest common size of the elements seen, and
    the comparison with the tolerance is the one of the definition `Close`.
  * `calibrate`: `CalibratesSoundly`, for machines of any speed with any clock.
    `CalInv` says that every time is a whole number of ticks (`WholeTicks`), that
    the amount of work is one whose time was just measured and fits in an `int`
    (`AmountInv`), and which test points have been passed (`PointsInv`). Lemma
    `TicksNeeded` is the arithmetic: for 1 to 142 ticks no whole numbers are within
    a thousandth of 1.015, 1.02 and 1.035 of them. The property once asked for 200
    ticks, because the clocks tried had no other; the attempt to prove it showed
    143, and a clock of seven microseconds is now among those of the run.
  * `problem_parse`: `ParsesRightly`, for texts of any length, any `MAX_RANK` and
    any largest `int`. `ParseInv` says for each label what has been stored in terms of the text up
    to `at` (`LettersInv`, `SizesInv`, `VectorInv`), that no more than `MaxRank`
    sizes are stored and fewer where parsing goes on (`AfterInv`), and that an
    assertion has failed only on a text that is no problem or does not fit (`AssertInv`).
    The fields of a text, defined by a recursive function over its characters, are
    related to what one more character does to them by lemma `NumberStep`.
  * `getopt_long`: `OptionsKeepOrder`, for all command lines, all tables of options and
    both orderings. `OptInv` has the order of the pointers in every part of a call
    (`Pointers`), that arguments not yet read are where they were written
    (`Unread`), the position within an option element (`InElement`), that what has been
    returned is how `Meaning` begins (`OptionsSoFar`), and where each argument skipped
    lies (`OthersSoFar`): between `firstNonopt` and `Upto`, except that in the middle of
    `exchange` the part between `bottom` and `top` is still to be rotated (`Moved`); an
    iteration makes this part shorter and leaves every argument's place the same
    (`MovedLonger`, `MovedShorter`).
* `HermFormatsProofs`: `CopiesAgree` and `LayoutHolds`, the properties `RoundTrip` and
  `LayoutAsDocumented` for every size, every number of rows and
  planes, every layout and either sign; the run `routines` checks them on sizes up
  to nine. The lemmas are arithmetic: every cell exists
  (`CellsExist`), different parts have different cells (`CellsApart`), the mirror of an
  index is an index and the row of a mirror the mirror of a row (`Mirrors`,
  `RowStarts`, `Division`). `C2HInv`, `CopiedInv` and `H2CInv` then say which
  cells hold their element and which elements have been read back.
* `DoitProgramProofs`: `AcceptedIsDone`, `AlikeFreesOnce`, `ResultsArrive`,
  `TypeCorrect`, for problems of every rank and size, in any
  number and order. Lemma `RowsFit` goes through the 93 rows and
  shows for whatever `can_do` accepts that no assertion of the adaptor fails, but in the
  two cases that `CanDoIsEnough` names, that arrays and layouts agree on both sides,
  and that which pointers `done` frees without `setup` having set them depends on no
  more than kind and rank of the problem (`Tidy`; `Careless` are the programs whose
  `done` does not look, and lemma `FreesOfAKind` is about them);
  where `can_do` tests for powers of two
  or even sizes, the lemmas `EvenPowers` and `EvenDimensions` connect the test with what the
  copy functions assert. The process follows: which blocks are this
  problem's is a function of the call it has reached (`Blocks`), and while the problems
  are alike every pointer there is was set by the `setup` of a problem of that kind and
  rank (`Familiar`), so that what `done` frees, this `setup` has set.

What a recursive function computes is shown by induction over numbers, in the form
that a set of numbers has a least element (`Induction`, `LeastNatural`, `Downwards`);
the provers cannot use the library's induction theorems, which take an operator.
`CalInv`, `ParseInv` and `OptInv` were model-checked on the inputs of `routines`, or part
of them, before they were proved.

Only model-checked:

* the liveness properties `Terminates`, `StartsOverForever`, `Returns` and
  `EndsUnlessMeasuring`: fairness and ENABLED are outside the
  prover's reach;
* `ReferenceIsDft`: `MpFft` has RECURSIVE operators, and that Bluestein's
  algorithm computes the transform is an identity of sums over all sizes;
* `TesterDecides`: that only the transform passes `linear`, `impulse` and
  `tf_shift` is a theorem of linear algebra, and the loops of `OwnFormats`,
  which this property has too, are checked at the sizes given;
* `ArithIsRounded`: rounding of sums of digits, and that Newton's iteration ends,
  which depends on the base and the number of digits;
* `AcceptedWasMeasured`, `StopsAtVerificationError` and the other properties of the
  runs that expect a violation, which are false of the code.

## 5. What the checks found

Each is a run that expects a violation, and an entry in `findings`.

* `libbench/report.c:63`: the bubble sort stores the two values it compared
  where it read them; the printed median is the timing in the middle of the
  array as it was measured.
* `libbench/mp.c:636`: `fftaccuracy_done` frees the cached vectors and keeps the
  pointers and the size, so two `--accuracy` in one command line use freed
  memory or stop at the allocator's assertion.
* `scripts/benchmark:186`: the test for a failed verification looks at the status
  of `tail`; the script never stops and never prints FAILED.
* `libbench/verify.c:34`: `dmax` drops a NaN when the next number comes, so a
  result with NaN in it can pass `--verify` in spite of the assertion in line 57.

* `libbench/timer.c:177`: when all times that `acceptable()` measures are zero, the
  deviation is 0/0, which is not greater than the tolerance, and `calibrate()`
  accepts its first interval of one microsecond.

Defects of single doit programs. The first is one of the two cases that `CanDoIsEnough`
has to name; the next three are why `FreesOnce` speaks only of processes whose problems are
alike; the others were found by reading and no property of the modules is about them:

| program | line under `src/benchees` | what |
|---|---|---|
| kissfft | `kissfft/doit.c:33` | accepts real problems of even size whose last dimension is odd; the library gives no plan |
| imsl | `imsl/doit.c:184` | frees `trig2`, `trig3`, `work` whatever the rank, `setup` does not set them all: freed twice after a problem of more dimensions, NULL before one, which the debugging allocator does not stand |
| intel-mkl | `intel-mkl/doit.c:315` | the same with `WSAVE`, which two-dimensional problems do not have |
| nag-inplace, nag-workspace | `nag/doit.c:168` | the same with `trig1`; the latter never frees `trig2` |
| mfft | `mfft/doit.c:195` | frees blocks of `bench_malloc` with `free`, which the debugging build does not stand |
| gsl-mixed-radix | `gsl/doit.c:130` | `Wk` of complex problems is never freed |
| ooura-sg3d | `ooura/doit3d.c:255` | the rows `a[i]` are never freed |
| sorensen-ctfftsr | `sorensen/doit_ctfftsr.c:60` | its five tables are never freed |
| morris82, dsp79-morris | `morris/doit.c:34`, `dsp/doit18.c:27` | a `problem_alloc` that leaves `phys_size` unset, which `problem_zero` reads |

Noticed and not modelled:

* README:80 describes `make collect`, but `scripts/collect` looks for `*.speed` and
  `*.accuracy` in the directories of the benchees, where the make targets no longer
  write.
* `mp.c` assumes floating-point numbers of 53 bits also when `bench_real` is `float`.
* `benchees/fxt/doit.cc:110` uses `delete` for an array of `new[]`.
* `benchees/essl/doit.c:107` refuses powers of two.
* The flag `FFTW_DESTROY_INPUT` set at `benchees/fftw3/doitr.c:88` stays set for later
  problems of the process.
* The adaptors look at the sizes of a problem and not at its vector part.
* `getopt-utils.c:45` calls `isprint` with the values of long options, which are not
  characters.

## 6. What is not modelled

What is printed, but for the line of a process that its caller reads; the third-party
transforms, and the copy of a kernel configuration tool under `tools/menuconfig` with
its generated parser; the signal handler of `fpe.c` (one step); scripts that filter
files; the build configuration; the loops that copy every element to the same index. Of
the Taylor series of `mp.c` the result, cosine and sine of the angle, is taken as given.
Of getopt, what `bench-main.c` cannot reach is left out: `-W`, `RETURN_IN_ORDER`,
`getopt_long_only`. `RoundTrip` of a pair of functions cannot see a mistake that both
make: `LayoutAsDocumented` has the comments of libbench's formats to compare with, for
the libraries' own there is nothing but the library. In `mp.c` the zero that
`fromshort(0)` makes has exponent 1, and a number that is added to it loses digits;
`ArithIsRounded` excepts these sums. `cexp_builtin` makes it, and by reading the code it
only enters products and, once, a sum with zero; `MpFft` counts exactly and does not
show that. Of make, edits while it runs are left out, and the remaining targets. Of the
doit programs, the debugging allocator, how the result of the FFT is scaled and how
large the tables are. Of the timer only `gettimeofday` is modelled, not the cycle
counter variants. `PROJECT.json` gives the reason for each component.

## 7. Plan

Done, in this order: `Measurement`, `SpeedLoop`, `Stats`, `DoitProtocol`,
`Session`, `BenchDriver`, `ErrorNorm`, `MakeBench`, `HermFormats`, three proof
modules; then `FftTester`, `MpFft`, `MpArith`, `ProblemParse`, `Calibrate`, the doit
programs, `OwnFormats` and `GetOpt`; then the proofs for `Session`, `BenchDriver`,
`MakeBench`, `HermFormats` and `DoitProgram`; then the types of `Stats` and the
proofs for `Calibrate`, `ProblemParse` and `GetOpt`.

Of the safety properties that the runs check three are left without a
theorem; what could be done about them:

1. `OwnFormats`: which of the layouts can be proved for every size. The cells are
   sets given by comprehensions with products of two sizes, so that for each
   layout two lemmas like `CellsExist` and `CellsApart` of `HermFormatsProofs` are needed.
2. `MpArith`: that `add`, `sub` and `pack` leave normalised numbers, which needs no
   sums over digits, unlike `ArithIsRounded` itself.
3. `FftTester`: that the transform passes every test (the converse, which is what
   a tester is for, needs linear algebra).
