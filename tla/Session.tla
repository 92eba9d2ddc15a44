------------------------------ MODULE Session ------------------------------
(***************************************************************************)
(* One process of a doit program: bench_main1 takes the commands of its    *)
(* argument list one after the other, and speed(), verify(), accuracy()    *)
(* and report_can_do() take a problem from problem_parse to                *)
(* problem_destroy, calling the routines of the doit program in between.   *)
(*                                                                         *)
(* The data is the memory: which blocks are allocated, who frees them, and *)
(* the static pointers of mp.c that outlive a command.  A block is named   *)
(* by the variable it is assigned to and by the number of the command that *)
(* allocated it.  When speed() is satisfied is the subject of SpeedLoop,   *)
(* here it may be after any call or never; what the verifier compares is   *)
(* that of ErrorNorm, here a number of rounds.                             *)
(***************************************************************************)
EXTENDS Integers, Sequences, Functions

CONSTANTS Argv,            \* the command lists a process may be started with
          Rounds,          \* rounds of each test of --verify
          AccuracyRounds,  \* rounds of --accuracy
          MaxDoits         \* bound: calls of doit that --speed is followed for

Ops == {"can_do", "speed", "verify", "accuracy"}

\* What the four commands ask of a problem: whether it parses and can_do
\* accepts it, whether in and out are one array, the sign, complex or real,
\* the rank, whether there is a vector part, the size and its being 2^k.
Problem == [parses : BOOLEAN, doable : BOOLEAN, inPlace : BOOLEAN,
            sign : {-1, 1}, complex : BOOLEAN, rank : Nat \ {0},
            vector : BOOLEAN, n : Nat \ {0}, pow2 : BOOLEAN]

ASSUME ArgvAssumption == Argv \subseteq Seq([op : Ops, p : Problem])
ASSUME RoundsAssumption == /\ Rounds \in Nat \ {0}
                           /\ AccuracyRounds \in Nat
                           /\ MaxDoits \in Nat \ {0}

VARIABLES argv,      \* the commands that are left
          pc,        \* the next call of the present command
          serial,    \* how many commands have been begun
          cmd,       \* the present command
          in, out,   \* p->in and p->out
          left,      \* rounds that are left
          calls,     \* history: calls of doit for the present problem
          cacheW, cacheY, cacheN,  \* the static cached_bluestein_* of mp.c
          heap,      \* the blocks that are allocated
          bad,       \* a block was freed or used that was not allocated
          exit       \* "running", "success" or "failure"

command == <<argv, serial, cmd>>
cache == <<cacheW, cacheY, cacheN>>
vars == <<argv, pc, serial, cmd, in, out, left, calls, cacheW, cacheY, cacheN,
          heap, bad, exit>>

Null == <<"null", 0>>
Block(name) == <<name, serial>>
ShortOptions == <<"short_options", 0>>
VerifyArrays == <<Block("tmp"), Block("outC"), Block("outB"), Block("outA"),
                  Block("inC"), Block("inB"), Block("inA")>>

\* bench_malloc and any access, on a set of blocks; bench_free on a sequence
\* of them, because freeing one block twice is an error of its own.
Malloc(B) == heap' = heap \cup B /\ UNCHANGED bad
Free(s) == /\ heap' = heap \ Range(s)
           /\ bad' = (bad \/ ~(Range(s) \subseteq heap /\ IsInjective(s)))
Use(B) == bad' = (bad \/ ~(B \subseteq heap)) /\ UNCHANGED heap

Goto(l) == pc' = l
Running(l) == exit = "running" /\ pc = l

\* exit(EXIT_FAILURE): nothing of the process is left to look at.
Fail == exit' = "failure" /\ UNCHANGED pc

NoCommand == [op |-> "can_do",
              p |-> [parses |-> FALSE, doable |-> FALSE, inPlace |-> FALSE,
                     sign |-> -1, complex |-> TRUE, rank |-> 1,
                     vector |-> FALSE, n |-> 1, pow2 |-> TRUE]]

-----------------------------------------------------------------------------
Init == /\ argv \in Argv
        /\ pc = "idle" /\ serial = 0 /\ cmd = NoCommand
        /\ in = Null /\ out = Null
        /\ left = 0 /\ calls = 0
        /\ cacheW = Null /\ cacheY = Null /\ cacheN = -1
        /\ heap = {ShortOptions}      \* make_short_options
        /\ bad = FALSE
        /\ exit = "running"

\* The getopt_long loop reaches the next command.  speed() allocates the array
\* of timings before anything else.
Begin == /\ Running("idle")
         /\ argv # <<>>
         /\ cmd' = Head(argv) /\ argv' = Tail(argv)
         /\ serial' = serial + 1
         /\ heap' = heap \cup (IF cmd'.op = "speed" THEN {<<"t", serial'>>}
                                                  ELSE {})
         /\ in' = Null /\ out' = Null
         /\ Goto("parse")
         /\ UNCHANGED <<left, calls, cache, bad, exit>>

\* problem_parse, with its assertions on the syntax.
Parse == /\ Running("parse")
         /\ Malloc({Block("p"), Block("pstring")})
         /\ IF cmd.p.parses THEN Goto("can_do") /\ UNCHANGED exit ELSE Fail
         /\ UNCHANGED <<command, in, out, left, calls, cache>>

\* can_do(p): printed by report_can_do, asserted by the other commands.
CanDo == /\ Running("can_do")
         /\ \/ cmd.op = "can_do" /\ Goto("destroy") /\ UNCHANGED exit
            \/ cmd.op # "can_do" /\ cmd.p.doable /\ Goto("alloc")
                   /\ UNCHANGED exit
            \/ cmd.op # "can_do" /\ ~cmd.p.doable /\ Fail
         /\ UNCHANGED <<command, in, out, left, calls, cache, heap, bad>>

\* Mutant: the arrays are not cleared before setup sees them.
AllocNotCleared == /\ Running("alloc")
                   /\ in' = Block("in")
                   /\ out' = IF cmd.p.inPlace THEN Block("in") ELSE Block("out")
                   /\ Malloc({in', out'})
                   /\ Goto("setup")
                   /\ UNCHANGED <<command, left, calls, cache, exit>>

\* The default problem_alloc: in place, p->out is p->in.
Alloc == /\ Running("alloc")
         /\ in' = Block("in")
         /\ out' = IF cmd.p.inPlace THEN Block("in") ELSE Block("out")
         /\ Malloc({in', out'})
         /\ Goto("zero")
         /\ UNCHANGED <<command, left, calls, cache, exit>>

Zero == /\ Running("zero")
        /\ Use({in, out})
        /\ Goto("setup")
        /\ UNCHANGED <<command, in, out, left, calls, cache, exit>>

Setup == /\ Running("setup")
         /\ Use({in, out})        \* a planner may measure on the arrays
         /\ \/ cmd.op = "speed" /\ Goto("measure") /\ UNCHANGED left
            \/ cmd.op = "verify" /\ Goto("verify") /\ UNCHANGED left
            \/ cmd.op = "accuracy" /\ Goto("accuracy") /\ UNCHANGED left
         /\ UNCHANGED <<command, in, out, calls, cache, exit>>

\* Calls of doit, bare or in do_fft, which converts the input into p->in
\* before and the result out of p->out afterwards.
DoFft(times, arrays) == /\ Use(arrays \cup {in, out})
                        /\ calls' = calls + times

\* speed() calls doit until it is satisfied, which may never be: after 2^29
\* iterations that were too short it starts over.
Measure == /\ Running("measure")
           /\ DoFft(1, {Block("t")})
           /\ \/ Goto("done")
              \/ calls < MaxDoits /\ UNCHANGED pc
           /\ UNCHANGED <<command, in, out, left, cache, exit>>

-----------------------------------------------------------------------------
\* do_verify allocates its seven arrays.
VerifyAlloc == /\ Running("verify")
               /\ Malloc(Range(VerifyArrays))
               /\ left' = Rounds
               /\ Goto("linear")
               /\ UNCHANGED <<command, in, out, calls, cache, exit>>

Tests == {"linear", "simple_delta", "delta", "simple_ones", "ones",
          "time_shift", "freq_shift"}

\* The tests follow each other; which shift tests are made depends on the
\* kind and, for real problems, on the sign.
AfterTest(test) ==
    [linear       |-> "simple_delta",
     simple_delta |-> "delta",
     delta        |-> "simple_ones",
     simple_ones  |-> "ones",
     ones         |-> IF cmd.p.complex \/ cmd.p.sign = -1
                      THEN "time_shift" ELSE "freq_shift",
     time_shift   |-> IF cmd.p.complex THEN "freq_shift" ELSE "verify_free",
     freq_shift   |-> "verify_free"][test]

\* How many rounds a test has and how many transforms each of them makes: the
\* shift tests go over every dimension, the simple impulse tests are made once.
TestRounds(test) == IF test \in {"simple_delta", "simple_ones"} THEN 1
                    ELSE IF test \in {"time_shift", "freq_shift"}
                         THEN Rounds * cmd.p.rank
                    ELSE Rounds
Transforms(test) == IF test = "linear" THEN 3
                    ELSE IF test \in {"simple_delta", "simple_ones"} THEN 1
                    ELSE 2

\* One round of a test: its transforms, then acmp, which ends the process when
\* the results are further apart than the tolerance.
TestRound(test) ==
    /\ Running(test)
    /\ DoFft(Transforms(test), Range(VerifyArrays))
    /\ \/ /\ left > 1
          /\ left' = left - 1
          /\ UNCHANGED <<pc, exit>>
       \/ /\ left = 1
          /\ left' = TestRounds(AfterTest(test))
          /\ Goto(AfterTest(test))
          /\ UNCHANGED exit
       \/ Fail /\ UNCHANGED left
    /\ UNCHANGED <<command, in, out, cache>>

\* Mutant: one of the seven is forgotten.
VerifyFreeSix == /\ Running("verify_free")
                 /\ Free(Tail(VerifyArrays))
                 /\ Goto("done")
                 /\ UNCHANGED <<command, in, out, left, calls, cache, exit>>

VerifyFree == /\ Running("verify_free")
              /\ Free(VerifyArrays)
              /\ Goto("done")
              /\ UNCHANGED <<command, in, out, left, calls, cache, exit>>

-----------------------------------------------------------------------------
\* do_accuracy: two assertions, then a and b, which are never freed.
AccuracyAlloc == /\ Running("accuracy")
                 /\ IF cmd.p.rank = 1 /\ ~cmd.p.vector
                    THEN /\ Malloc({Block("a"), Block("b")})
                         /\ left' = AccuracyRounds
                         /\ Goto("accuracy_round")
                         /\ UNCHANGED exit
                    ELSE Fail /\ UNCHANGED <<heap, bad, left>>
                 /\ UNCHANGED <<command, in, out, calls, cache>>

\* Mutant: r <= rounds, one round too many.
AccuracyOnceMore == /\ Running("accuracy_round")
                    /\ calls' = calls + 1
                    /\ Malloc({Block("mp_b"), Block("mp_fftb")})
                    /\ Goto("forward")
                    /\ UNCHANGED <<command, in, out, left, cache, exit>>

\* A round: do_fft, and fftaccuracy allocates its two vectors.
AccuracyRound == /\ Running("accuracy_round") /\ left > 0
                 /\ calls' = calls + 1
                 /\ bad' = (bad \/ ~({in, out, Block("a"), Block("b")}
                                      \subseteq heap))
                 /\ heap' = heap \cup {Block("mp_b"), Block("mp_fftb")}
                 /\ Goto("forward")
                 /\ UNCHANGED <<command, in, out, left, cache, exit>>

\* The two static pointers, as far as they point to something.
Present(pointer) == IF pointer = Null THEN <<>> ELSE <<pointer>>
CachePointers == Present(cacheW) \o Present(cacheY)

\* fft1: fft0 works in place for powers of two; bluestein allocates a work
\* vector for the call and keeps the chirp and its transform for the next
\* call with the same n.
Fft1 == IF cmd.p.pow2
        THEN UNCHANGED <<heap, bad, cache>>
        ELSE IF cacheN = cmd.p.n
             THEN Use({cacheW, cacheY}) /\ UNCHANGED cache
             ELSE /\ bad' = (bad \/ ~(Range(CachePointers) \subseteq heap))
                  /\ cacheW' = Block("w") /\ cacheY' = Block("y")
                  /\ cacheN' = cmd.p.n
                  /\ heap' = (heap \ Range(CachePointers))
                                  \cup {cacheW', cacheY'}

\* fftaccuracy computes the forward error ...
Forward == /\ Running("forward")
           /\ Fft1
           /\ Goto("backward")
           /\ UNCHANGED <<command, in, out, left, calls, exit>>

\* Mutant: the round goes back to its transform instead of ending.
BackwardAgain == /\ Running("backward")
                 /\ Fft1
                 /\ Goto("forward")
                 /\ UNCHANGED <<command, in, out, left, calls, exit>>

\* ... and the backward error ...
Backward == /\ Running("backward")
            /\ Fft1
            /\ Goto("compared")
            /\ UNCHANGED <<command, in, out, left, calls, exit>>

\* ... and frees the two vectors.
Compared == /\ Running("compared")
            /\ Free(<<Block("mp_fftb"), Block("mp_b")>>)
            /\ left' = left - 1
            /\ Goto("accuracy_round")
            /\ UNCHANGED <<command, in, out, calls, cache, exit>>

\* fftaccuracy_done frees the cached vectors and leaves the pointers to them.
AccuracyDone == /\ Running("accuracy_round") /\ left = 0
                /\ Free(CachePointers)
                /\ Goto("done")
                /\ UNCHANGED <<command, in, out, left, calls, cache, exit>>

-----------------------------------------------------------------------------
Done == /\ Running("done")
        /\ Goto("destroy")
        /\ UNCHANGED <<command, in, out, left, calls, cache, heap, bad, exit>>

\* Mutant: the test for one array serving as both is missing.
ArraysTwice == IF in # Null THEN <<out, in>> ELSE <<>>

\* problem_free: each array that exists, and one array once.
Arrays == IF out # Null /\ out # in THEN <<out, in>>
          ELSE IF in # Null THEN <<in>> ELSE <<>>

\* problem_destroy, and speed() frees the array of timings after it.
Destroy == /\ Running("destroy")
           /\ Free(Arrays \o <<Block("pstring"), Block("p")>>
                   \o (IF cmd.op = "speed" THEN <<Block("t")>> ELSE <<>>))
           /\ calls' = 0
           /\ Goto("idle")
           /\ UNCHANGED <<command, in, out, left, cache, exit>>

\* The last option has been dealt with.
Finish == /\ Running("idle") /\ argv = <<>>
          /\ Free(<<ShortOptions>>)
          /\ exit' = "success"
          /\ UNCHANGED <<command, pc, in, out, left, calls, cache>>

\* malloc returns no memory and bench_malloc's assertion ends the process.
OutOfMemory == /\ exit = "running"
               /\ \/ pc \in {"parse", "alloc", "verify", "accuracy"}
                  \/ pc = "idle" /\ argv # <<>> /\ Head(argv).op = "speed"
                  \/ pc = "accuracy_round" /\ left > 0
                  \/ pc \in {"forward", "backward"} /\ ~cmd.p.pow2
               /\ Fail
               /\ UNCHANGED <<command, in, out, left, calls, cache, heap, bad>>

Program == \/ Begin \/ Parse \/ CanDo \/ Alloc \/ Zero \/ Setup \/ Measure
           \/ VerifyAlloc \/ (\E test \in Tests : TestRound(test))
           \/ VerifyFree \/ AccuracyAlloc \/ AccuracyRound \/ Forward
           \/ Backward \/ Compared \/ AccuracyDone \/ Done \/ Destroy
           \/ Finish \/ OutOfMemory

Exited == exit # "running" /\ UNCHANGED vars

Next == Program \/ Exited

Spec == Init /\ [][Next]_vars

\* The process is scheduled and never waits, and the routines of the doit
\* program return; but nothing makes speed() leave its loop.
FairSpec == Spec /\ WF_vars(pc # "measure" /\ Program)

-----------------------------------------------------------------------------
Names == {"null", "short_options", "t", "p", "pstring", "in", "out",
          "tmp", "outC", "outB", "outA", "inC", "inB", "inA",
          "a", "b", "mp_b", "mp_fftb", "w", "y"}

TypeOK == /\ argv \in Seq([op : Ops, p : Problem])
          /\ cmd \in [op : Ops, p : Problem]
          /\ pc \in {"idle", "parse", "can_do", "alloc", "zero", "setup",
                     "measure", "verify", "verify_free", "accuracy",
                     "accuracy_round", "forward", "backward", "compared",
                     "done", "destroy"} \cup Tests
          /\ serial \in Nat /\ left \in Nat /\ calls \in Nat
          /\ {in, out, cacheW, cacheY} \subseteq Names \X Nat
          /\ heap \subseteq Names \X Nat
          /\ cacheN \in Int /\ bad \in BOOLEAN
          /\ exit \in {"running", "success", "failure"}

\* What scripts/benchmark and the Makefiles write is among these command lists:
\* no --accuracy follows one that leaves pointers to freed vectors behind.
UsesBluestein(c) == c.op = "accuracy" /\ c.p.parses /\ c.p.doable /\ ~c.p.pow2
AccuracyOnce(l) == \A x, y \in DOMAIN l :
                       (x < y /\ UsesBluestein(l[x])) => l[y].op # "accuracy"

\* No block is freed that is not allocated, none is freed twice and no freed
\* block is read or written: what the MAGIC word of the debugging allocator
\* (util.c:144-146) is there to find.
NoBadFree == ~bad

\* Between two commands every block has been freed that the commands before
\* allocated, but for the two arrays of each --accuracy, which nobody frees,
\* and the option string, which main frees at the end.
Leaked == {b \in heap : b[1] \in {"a", "b"}}
Balanced ==
    /\ (exit = "running" /\ pc = "idle") => heap = {ShortOptions} \cup Leaked
    /\ exit = "success" => heap = Leaked

\* The process ends, whatever its command line, unless a speed() goes on
\* measuring for ever: no other loop, over the commands, the rounds of the
\* seven tests or those of --accuracy, can keep it.
EndsUnlessMeasuring == <>(exit # "running") \/ <>[](pc = "measure")

-----------------------------------------------------------------------------
Stage == IF exit # "running" THEN "exited"
         ELSE IF pc \in {"idle", "parse"} THEN "idle"
         ELSE IF pc = "can_do" THEN "parsed"
         ELSE IF pc = "alloc" THEN "accepted"
         ELSE IF pc = "zero" THEN "allocated"
         ELSE IF pc = "setup" THEN "cleared"
         ELSE IF pc # "destroy" THEN "planned"
         ELSE IF cmd.op # "can_do" THEN "unplanned"
         ELSE IF cmd.p.doable THEN "accepted" ELSE "refused"

\* The four commands call the routines of a doit program in the order, and
\* only in the order, that DoitProtocol promises its author.
Doit == INSTANCE DoitProtocol WITH stage <- Stage
RefinesDoitProtocol == Doit!PSpec
=============================================================================
