--------------------------- MODULE SessionProofs ---------------------------
(***************************************************************************)
(* What holds of a process for every command list and every number of      *)
(* rounds: that it calls the routines of a doit program in the order of    *)
(* DoitProtocol, and what it does with its memory.                         *)
(***************************************************************************)
EXTENDS Session, TLAPS

Alive == exit = "running"

AccuracyLabels == {"accuracy_round", "forward", "backward", "compared"}
VerifyLabels == Tests \cup {"verify_free"}
BeforeTests == {"parse", "can_do", "alloc", "zero", "setup", "verify", "accuracy"}

\* The command that is carried out is one that comes to this call.
OpInv ==
    Alive =>
        /\ pc = "measure" => cmd.op = "speed"
        /\ pc \in {"verify"} \cup VerifyLabels => cmd.op = "verify"
        /\ pc \in {"accuracy"} \cup AccuracyLabels => cmd.op = "accuracy"
        /\ pc \in {"alloc", "zero", "setup", "done"} => cmd.op # "can_do"
        /\ pc \notin {"idle", "parse"} => cmd.p.parses
        /\ (pc \notin {"idle", "parse", "can_do", "destroy"}) => cmd.p.doable
        /\ pc \in {"forward", "backward", "compared"} => left > 0

-----------------------------------------------------------------------------
HasArrays == \/ pc \notin {"idle", "parse", "can_do", "alloc", "destroy"}
             \/ pc = "destroy" /\ cmd.op # "can_do"
HasCache == pc \in AccuracyLabels /\ cacheN # -1
VerifyNames == {"tmp", "outC", "outB", "outA", "inC", "inB", "inA"}

\* The names of the blocks that belong to the present command at pc.
Owns(name) == \/ name = "t" /\ pc # "idle" /\ cmd.op = "speed"
              \/ name \in {"p", "pstring"} /\ pc \notin {"idle", "parse"}
              \/ name = "in" /\ HasArrays
              \/ name = "out" /\ HasArrays /\ ~cmd.p.inPlace
              \/ name \in VerifyNames /\ pc \in VerifyLabels
              \/ /\ name \in {"mp_b", "mp_fftb"}
                 /\ pc \in {"forward", "backward", "compared"}
              \/ name \in {"w", "y"} /\ HasCache

\* in and out point to the arrays while there are any, and are null before.
ArraysInv ==
    (Alive /\ pc # "idle") =>
        IF HasArrays
        THEN in = Block("in") /\ out = IF cmd.p.inPlace THEN in ELSE Block("out")
        ELSE in = Null /\ out = Null

\* What is allocated is what the command owns, the option string, and what
\* accuracy() never frees.
HeapInv ==
    Alive => /\ ShortOptions \in heap
             /\ \A name \in Names : Owns(name) => Block(name) \in heap
             /\ \A b \in heap : \/ b = ShortOptions
                                \/ b[1] \in {"a", "b"}
                                \/ b[2] = serial /\ Owns(b[1])
             /\ pc \in AccuracyLabels => Block("a") \in heap /\ Block("b") \in heap

\* The cache of bluestein is that of the present command, or of one that no
\* --accuracy follows.
CacheInv ==
    /\ cacheN = -1 => cacheW = Null /\ cacheY = Null
    /\ (Alive /\ HasCache) => /\ cacheW = Block("w") /\ cacheY = Block("y")
                              /\ cacheN = cmd.p.n /\ ~cmd.p.pow2
    /\ (Alive /\ pc \in {"backward", "compared"} /\ ~cmd.p.pow2) => HasCache
    /\ (Alive /\ cacheN # -1) =>
           /\ \A x \in DOMAIN argv : argv[x].op # "accuracy"
           /\ cmd.op = "accuracy" => pc \notin BeforeTests

\* What is left of the command list is such a list as the whole was.
ListInv == /\ AccuracyOnce(argv)
           /\ (pc # "idle" /\ UsesBluestein(cmd)) =>
                  \A x \in DOMAIN argv : argv[x].op # "accuracy"

MemoryInv == ~bad /\ (exit = "success" => heap = Leaked)

IInv == /\ TypeOK /\ OpInv /\ ArraysInv /\ HeapInv /\ CacheInv /\ ListInv
        /\ MemoryInv
-----------------------------------------------------------------------------
\* The blocks of do_verify, as a set.
LEMMA VerifyBlocks ==
    Range(VerifyArrays) = {Block("tmp"), Block("outC"), Block("outB"), Block("outA"),
                           Block("inC"), Block("inB"), Block("inA")}
BY DEF Range, VerifyArrays

\* The next test of do_verify, and its rounds.
LEMMA NextTest ==
    ASSUME TypeOK, NEW test \in Tests
    PROVE  /\ AfterTest(test) \in Tests \cup {"verify_free"}
           /\ TestRounds(AfterTest(test)) \in Nat \ {0}
           /\ Transforms(test) \in Nat \ {0}
<1>1. cmd.p.rank \in Nat \ {0} BY DEF TypeOK, Problem
<1>2. Rounds \in Nat \ {0} /\ Rounds * cmd.p.rank \in Nat \ {0}
  BY <1>1, RoundsAssumption
<1>3. QED BY <1>1, <1>2 DEF AfterTest, TestRounds, Transforms, Tests

\* The blocks of the program are blocks.
LEMMA BlockTyped ==
    /\ Null \in Names \X Nat /\ ShortOptions \in Names \X Nat
    /\ serial \in Nat =>
         /\ Block("p") \in Names \X Nat /\ Block("pstring") \in Names \X Nat
         /\ Block("in") \in Names \X Nat /\ Block("out") \in Names \X Nat
         /\ Block("a") \in Names \X Nat /\ Block("b") \in Names \X Nat
         /\ Block("mp_b") \in Names \X Nat /\ Block("mp_fftb") \in Names \X Nat
         /\ Block("w") \in Names \X Nat /\ Block("y") \in Names \X Nat
         /\ Range(VerifyArrays) \subseteq Names \X Nat
BY VerifyBlocks DEF Block, Names, Null, ShortOptions

\* A command is taken off a list.
LEMMA HeadAndTail ==
    ASSUME NEW S, NEW s \in Seq(S), s # <<>>
    PROVE  /\ Head(s) \in S /\ Head(s) = s[1] /\ 1 \in DOMAIN s
           /\ Tail(s) \in Seq(S)
           /\ \A x \in DOMAIN Tail(s) : x + 1 \in DOMAIN s /\ Tail(s)[x] = s[x + 1]
           /\ DOMAIN s \subseteq Nat \ {0} /\ DOMAIN Tail(s) \subseteq Nat \ {0}
OBVIOUS

\* A process starts with the right types and at no call.
LEMMA InitTyped == Init => TypeOK /\ OpInv
<1>1. NoCommand \in [op : Ops, p : Problem] BY DEF NoCommand, Ops, Problem
<1>2. Init => argv \in Seq([op : Ops, p : Problem]) BY ArgvAssumption DEF Init
<1>10. Init => cacheN \in Int BY DEF Init
<1>6. Init => cacheN \in Int /\ bad \in BOOLEAN BY <1>10, Zenon DEF Init
<1>8. Init => /\ serial \in Nat /\ left \in Nat /\ calls \in Nat
              /\ exit \in {"running", "success", "failure"}
              /\ cmd \in [op : Ops, p : Problem]
  BY <1>1 DEF Init
<1>7. Init => {in, out, cacheW, cacheY} \subseteq Names \X Nat /\ heap \subseteq Names \X Nat
  BY BlockTyped DEF Init
<1>9. Init => pc \in {"idle"} BY DEF Init
<1>3. Init => TypeOK BY <1>2, <1>6, <1>7, <1>8, <1>9 DEF TypeOK
<1>4. Init => OpInv
  BY DEF Init, OpInv, Alive, Tests, VerifyLabels, AccuracyLabels
<1>5. QED BY <1>3, <1>4

\* What fft1 does to the cache and to the heap.
LEMMA Fft1Typed ==
    ASSUME TypeOK, Fft1
    PROVE  /\ {cacheW', cacheY'} \subseteq Names \X Nat
           /\ heap' \subseteq Names \X Nat /\ cacheN' \in Int /\ bad' \in BOOLEAN
<1>1. cmd.p.n \in Int BY DEF TypeOK, Problem
<1>2. bad' \in BOOLEAN BY DEF Fft1, TypeOK, Use
<1>3. QED BY <1>1, <1>2, BlockTyped DEF Fft1, TypeOK, Use, cache

\* Every step keeps the types, and comes to the calls that the command makes.
LEMMA NextTyped == TypeOK /\ OpInv /\ [Next]_vars => TypeOK' /\ OpInv'
<1> SUFFICES ASSUME TypeOK, OpInv, [Next]_vars PROVE TypeOK' /\ OpInv'
  OBVIOUS
<1> USE RoundsAssumption DEF Running, Goto, Fail, Alive, Tests, VerifyLabels,
                             AccuracyLabels, command, cache
<1>1. CASE Begin
  <2>1. /\ argv' \in Seq([op : Ops, p : Problem])
        /\ cmd' \in [op : Ops, p : Problem]
    <3>1. argv \in Seq([op : Ops, p : Problem]) /\ argv # <<>>
      BY <1>1 DEF Begin, TypeOK
    <3>2. QED BY <1>1, <3>1, HeadAndTail DEF Begin
  <2>0. serial' \in Nat /\ <<"t", serial'>> \in Names \X Nat
    BY <1>1 DEF Begin, TypeOK, Names
  <2>2. TypeOK' BY <1>1, <2>1, <2>0, BlockTyped DEF Begin, TypeOK
  <2>3. OpInv' BY <1>1 DEF Begin, OpInv
  <2>4. QED BY <2>2, <2>3
<1>2. CASE Parse
  <2>1. TypeOK' BY <1>2, BlockTyped DEF Parse, TypeOK, Malloc
  <2>2. OpInv' BY <1>2 DEF Parse, TypeOK, OpInv, Malloc, Block
  <2>3. QED BY <2>1, <2>2
<1>3. CASE CanDo
  <2>1. TypeOK' BY <1>3 DEF CanDo, TypeOK
  <2>2. OpInv' BY <1>3 DEF CanDo, TypeOK, OpInv
  <2>3. QED BY <2>1, <2>2
<1>4. CASE Alloc
  <2>1. TypeOK' BY <1>4, BlockTyped DEF Alloc, TypeOK, Malloc
  <2>2. OpInv' BY <1>4 DEF Alloc, TypeOK, OpInv, Malloc, Block
  <2>3. QED BY <2>1, <2>2
<1>5. CASE Zero
  <2>1. TypeOK' BY <1>5 DEF Zero, TypeOK, Use
  <2>2. OpInv' BY <1>5 DEF Zero, TypeOK, OpInv, Use
  <2>3. QED BY <2>1, <2>2
<1>6. CASE Setup
  <2>1. TypeOK' BY <1>6 DEF Setup, TypeOK, Use
  <2>2. OpInv' BY <1>6 DEF Setup, TypeOK, OpInv, Use
  <2>3. QED BY <2>1, <2>2
<1>7. CASE Measure
  <2>1. TypeOK' BY <1>7 DEF Measure, TypeOK, DoFft, Use, Block
  <2>2. OpInv' BY <1>7 DEF Measure, TypeOK, OpInv, DoFft, Use, Block
  <2>3. QED BY <2>1, <2>2
<1>8. CASE VerifyAlloc
  <2>1. TypeOK' BY <1>8, BlockTyped, VerifyBlocks DEF VerifyAlloc, TypeOK, Malloc
  <2>2. OpInv' BY <1>8 DEF VerifyAlloc, TypeOK, OpInv, Malloc
  <2>3. QED BY <2>1, <2>2
<1>9. CASE VerifyFree
  <2>1. TypeOK' BY <1>9 DEF VerifyFree, TypeOK, Free
  <2>2. OpInv' BY <1>9 DEF VerifyFree, TypeOK, OpInv, Free
  <2>3. QED BY <2>1, <2>2
<1>10. CASE AccuracyAlloc
  <2>1. TypeOK' BY <1>10, BlockTyped DEF AccuracyAlloc, TypeOK, Malloc
  <2>2. OpInv' BY <1>10 DEF AccuracyAlloc, TypeOK, OpInv, Malloc, Block
  <2>3. QED BY <2>1, <2>2
<1>11. CASE AccuracyRound
  <2>1. TypeOK' BY <1>11, BlockTyped DEF AccuracyRound, TypeOK
  <2>2. OpInv' BY <1>11 DEF AccuracyRound, TypeOK, OpInv, Block
  <2>3. QED BY <2>1, <2>2
<1>12. CASE Forward
  <2>1. TypeOK' BY <1>12, Fft1Typed DEF Forward, TypeOK
  <2>2. OpInv' BY <1>12 DEF Forward, TypeOK, OpInv, Fft1, Use, Block
  <2>3. QED BY <2>1, <2>2
<1>13. CASE Backward
  <2>1. TypeOK' BY <1>13, Fft1Typed DEF Backward, TypeOK
  <2>2. OpInv' BY <1>13 DEF Backward, TypeOK, OpInv, Fft1, Use, Block
  <2>3. QED BY <2>1, <2>2
<1>14. CASE Compared
  <2>1. left' \in Nat BY <1>14 DEF Compared, TypeOK, OpInv
  <2>4. TypeOK' BY <1>14, <2>1 DEF Compared, TypeOK, Free
  <2>2. OpInv' BY <1>14 DEF Compared, TypeOK, OpInv, Free
  <2>3. QED BY <2>4, <2>2
<1>15. CASE AccuracyDone
  <2>1. TypeOK' BY <1>15 DEF AccuracyDone, TypeOK, Free
  <2>2. OpInv' BY <1>15 DEF AccuracyDone, TypeOK, OpInv, Free
  <2>3. QED BY <2>1, <2>2
<1>16. CASE Done
  <2>1. TypeOK' BY <1>16 DEF Done, TypeOK
  <2>2. OpInv' BY <1>16 DEF Done, TypeOK, OpInv
  <2>3. QED BY <2>1, <2>2
<1>17. CASE Destroy
  <2>1. TypeOK' BY <1>17 DEF Destroy, TypeOK, Free
  <2>2. OpInv' BY <1>17 DEF Destroy, TypeOK, OpInv, Free
  <2>3. QED BY <2>1, <2>2
<1>18. CASE Finish
  <2>1. TypeOK' BY <1>18 DEF Finish, TypeOK, Free
  <2>2. OpInv' BY <1>18 DEF Finish, TypeOK, OpInv, Free
  <2>3. QED BY <2>1, <2>2
<1>19. CASE OutOfMemory
  <2>1. TypeOK' BY <1>19 DEF OutOfMemory, TypeOK
  <2>2. OpInv' BY <1>19 DEF OutOfMemory, TypeOK, OpInv
  <2>3. QED BY <2>1, <2>2
<1>20. ASSUME NEW test \in Tests, TestRound(test) PROVE TypeOK' /\ OpInv'
  <2>1. heap' \subseteq Names \X Nat /\ bad' \in BOOLEAN
    BY <1>20 DEF TestRound, DoFft, TypeOK, Use
  <2>4. calls' \in Nat /\ left' \in Nat
    <3>1. Transforms(test) \in Nat /\ TestRounds(AfterTest(test)) \in Nat
      BY <1>20, NextTest
    <3>2. calls \in Nat /\ left \in Nat BY DEF TypeOK
    <3>3. calls' \in Nat BY <1>20, <3>1, <3>2 DEF TestRound, DoFft
    <3>4. left' \in Nat BY <1>20, <3>1, <3>2 DEF TestRound
    <3>5. QED BY <3>3, <3>4
  <2>5. TypeOK' BY <1>20, <2>1, <2>4, NextTest DEF TestRound, TypeOK
  <2>2. OpInv' BY <1>20, NextTest DEF TestRound, TypeOK, OpInv
  <2>3. QED BY <2>5, <2>2
<1>21. CASE UNCHANGED vars BY <1>21 DEF vars, TypeOK, OpInv
<1>22. QED
  BY <1>1, <1>2, <1>3, <1>4, <1>5, <1>6, <1>7, <1>8, <1>9, <1>10, <1>11, <1>12, <1>13,
     <1>14, <1>15, <1>16, <1>17, <1>18, <1>19, <1>20, <1>21 DEF Next, Program, Exited

-----------------------------------------------------------------------------
\* The types hold in every state of every process.
THEOREM TypeCorrect == Spec => []TypeOK
<1>1. QED BY InitTyped, NextTyped, PTL DEF Spec

-----------------------------------------------------------------------------
\* The refinement: what each step does to Stage and to calls.
LEMMA StepRefines ==
    ASSUME TypeOK, OpInv, [Next]_vars
    PROVE  Doit!PNext \/ UNCHANGED <<Stage, calls>>
<1> USE RoundsAssumption DEF Running, Goto, Fail, Alive, Tests, VerifyLabels,
                             AccuracyLabels, command, cache
<1>0. calls \in Nat BY DEF TypeOK
<1>1. CASE Begin
  <2>1. UNCHANGED <<Stage, calls>>
    BY <1>0, <1>1 DEF Begin, Stage, TypeOK, OpInv
  <2>2. QED BY <2>1 DEF Doit!PNext
<1>2. CASE Parse
  <2>1. Doit!Parse \/ Doit!Exit
    BY <1>0, <1>2 DEF Parse, Stage, Doit!Parse, Doit!Exit, Doit!Advance, TypeOK, OpInv
  <2>2. QED BY <2>1 DEF Doit!PNext
<1>3. CASE CanDo
  <2>1. Doit!CanDo \/ Doit!Exit
    BY <1>0, <1>3 DEF CanDo, Stage, Doit!CanDo, Doit!Exit, Doit!Advance, TypeOK, OpInv
  <2>2. QED BY <2>1 DEF Doit!PNext
<1>4. CASE Alloc
  <2>1. Doit!Alloc
    BY <1>0, <1>4 DEF Alloc, Stage, Doit!Alloc, Doit!Advance, TypeOK, OpInv
  <2>2. QED BY <2>1 DEF Doit!PNext
<1>5. CASE Zero
  <2>1. Doit!Zero
    BY <1>0, <1>5 DEF Zero, Stage, Doit!Zero, Doit!Advance, TypeOK, OpInv
  <2>2. QED BY <2>1 DEF Doit!PNext
<1>6. CASE Setup
  <2>1. Doit!Setup
    BY <1>0, <1>6 DEF Setup, Stage, Doit!Setup, Doit!Advance, TypeOK, OpInv
  <2>2. QED BY <2>1 DEF Doit!PNext
<1>7. CASE Measure
  <2>1. Doit!Doit
    BY <1>0, <1>7 DEF Measure, Stage, Doit!Doit, DoFft, TypeOK, OpInv
  <2>2. QED BY <2>1 DEF Doit!PNext
<1>8. CASE VerifyAlloc
  <2>1. UNCHANGED <<Stage, calls>>
    BY <1>0, <1>8 DEF VerifyAlloc, Stage, TypeOK, OpInv
  <2>2. QED BY <2>1 DEF Doit!PNext
<1>9. CASE VerifyFree
  <2>1. UNCHANGED <<Stage, calls>>
    BY <1>0, <1>9 DEF VerifyFree, Stage, TypeOK, OpInv
  <2>2. QED BY <2>1 DEF Doit!PNext
<1>10. CASE AccuracyAlloc
  <2>1. UNCHANGED <<Stage, calls>> \/ Doit!Exit
    BY <1>0, <1>10 DEF AccuracyAlloc, Stage, Doit!Exit, TypeOK, OpInv
  <2>2. QED BY <2>1 DEF Doit!PNext
<1>11. CASE AccuracyRound
  <2>1. Doit!Doit
    BY <1>0, <1>11 DEF AccuracyRound, Stage, Doit!Doit, TypeOK, OpInv
  <2>2. QED BY <2>1 DEF Doit!PNext
<1>12. CASE Forward
  <2>1. UNCHANGED <<Stage, calls>>
    BY <1>0, <1>12 DEF Forward, Stage, TypeOK, OpInv
  <2>2. QED BY <2>1 DEF Doit!PNext
<1>13. CASE Backward
  <2>1. UNCHANGED <<Stage, calls>>
    BY <1>0, <1>13 DEF Backward, Stage, TypeOK, OpInv
  <2>2. QED BY <2>1 DEF Doit!PNext
<1>14. CASE Compared
  <2>1. UNCHANGED <<Stage, calls>>
    BY <1>0, <1>14 DEF Compared, Stage, TypeOK, OpInv
  <2>2. QED BY <2>1 DEF Doit!PNext
<1>15. CASE AccuracyDone
  <2>1. UNCHANGED <<Stage, calls>>
    BY <1>0, <1>15 DEF AccuracyDone, Stage, TypeOK, OpInv
  <2>2. QED BY <2>1 DEF Doit!PNext
<1>16. CASE Done
  <2>1. Doit!Done
    BY <1>0, <1>16 DEF Done, Stage, Doit!Done, Doit!Advance, TypeOK, OpInv
  <2>2. QED BY <2>1 DEF Doit!PNext
<1>17. CASE Destroy
  <2>1. Doit!Destroy
    BY <1>0, <1>17 DEF Destroy, Stage, Doit!Destroy, TypeOK, OpInv
  <2>2. QED BY <2>1 DEF Doit!PNext
<1>18. CASE Finish
  <2>1. Doit!Exit
    BY <1>0, <1>18 DEF Finish, Stage, Doit!Exit, TypeOK, OpInv
  <2>2. QED BY <2>1 DEF Doit!PNext
<1>19. CASE OutOfMemory
  <2>1. Doit!Exit
    BY <1>0, <1>19 DEF OutOfMemory, Stage, Doit!Exit, TypeOK, OpInv
  <2>2. QED BY <2>1 DEF Doit!PNext
<1>20. ASSUME NEW test \in Tests, TestRound(test)
       PROVE  Doit!PNext
  <2>1. calls' > calls
    <3>1. Transforms(test) \in Nat \ {0} BY <1>20, NextTest
    <3>2. QED BY <1>0, <1>20, <3>1 DEF TestRound, DoFft
  <2>2. AfterTest(test) \in Tests \cup {"verify_free"} BY <1>20, NextTest
  <2>3. Doit!Doit BY <1>20, <2>1, <2>2 DEF TestRound, Stage, Doit!Doit
  <2>4. QED BY <2>3 DEF Doit!PNext
<1>21. CASE UNCHANGED vars BY <1>21 DEF vars, Stage
<1>22. QED
  BY <1>1, <1>2, <1>3, <1>4, <1>5, <1>6, <1>7, <1>8, <1>9, <1>10, <1>11, <1>12,
     <1>13, <1>14, <1>15, <1>16, <1>17, <1>18, <1>19, <1>20, <1>21
  DEF Next, Program, Exited

\* The four commands call the routines of a doit program in the order that
\* DoitProtocol promises to its author, whatever the list of commands is.
THEOREM DoitProtocolRefined == Spec => RefinesDoitProtocol
<1>1. Init => Doit!PInit BY DEF Init, Stage, Doit!PInit
<1>2. TypeOK /\ OpInv /\ [Next]_vars => [Doit!PNext]_(Doit!pvars)
  BY StepRefines DEF Doit!pvars
<1>3. QED
  BY <1>1, <1>2, InitTyped, NextTyped, PTL DEF Spec, Doit!PSpec, RefinesDoitProtocol
-----------------------------------------------------------------------------
\* What the command has in its hands when it needs it.
LEMMA Held ==
    ASSUME TypeOK, OpInv, ArraysInv, HeapInv, CacheInv, Alive
    PROVE  /\ HasArrays => in \in heap /\ out \in heap
           /\ pc # "idle" /\ cmd.op = "speed" => Block("t") \in heap
           /\ pc \notin {"idle", "parse"} =>
                  Block("p") \in heap /\ Block("pstring") \in heap
           /\ pc \in VerifyLabels => Range(VerifyArrays) \subseteq heap
           /\ pc \in {"forward", "backward", "compared"} =>
                  Block("mp_b") \in heap /\ Block("mp_fftb") \in heap
           /\ HasCache => cacheW \in heap /\ cacheY \in heap
<1>1. \A name \in Names : Owns(name) => Block(name) \in heap BY DEF HeapInv
<1>2. HasArrays => pc # "idle" /\ Block("in") \in heap
                     /\ (~cmd.p.inPlace => Block("out") \in heap)
  BY <1>1 DEF Owns, Names, HasArrays
<1>3. HasArrays => in \in heap /\ out \in heap BY <1>2 DEF ArraysInv
<1>4. HasCache => Block("w") \in heap /\ Block("y") \in heap
  BY <1>1 DEF Owns, Names
<1>5. HasCache => cacheW \in heap /\ cacheY \in heap BY <1>4 DEF CacheInv
<1>6. pc \in VerifyLabels => Range(VerifyArrays) \subseteq heap
  BY <1>1, VerifyBlocks DEF Owns, Names, VerifyNames
<1>7. QED BY <1>1, <1>3, <1>5, <1>6 DEF Owns, Names

\* Only Begin takes a command off the list.
LEMMA CommandKept ==
    ASSUME [Next]_vars, ~Begin
    PROVE  /\ UNCHANGED <<argv, serial, cmd>>
           /\ pc = "idle" => pc' = "idle"
           /\ exit # "running" => exit' # "running"
BY DEF Next, Program, Exited, vars, Running, Goto, Fail, command, cache, Tests,
       Parse, CanDo, Alloc, Zero, Setup, Measure, VerifyAlloc, TestRound,
       VerifyFree, AccuracyAlloc, AccuracyRound, Forward, Backward, Compared,
       AccuracyDone, Done, Destroy, Finish, OutOfMemory

\* A list that is accepted stays one when its first command is taken.
LEMMA ListKept == TypeOK /\ ListInv /\ [Next]_vars => ListInv'
<1> SUFFICES ASSUME TypeOK, ListInv, [Next]_vars PROVE ListInv'
  OBVIOUS
<1>1. CASE ~Begin BY <1>1, CommandKept DEF ListInv
<1>2. CASE Begin
  <2>1. argv \in Seq([op : Ops, p : Problem]) /\ argv # <<>>
    BY <1>2 DEF Begin, TypeOK
  <2>2. cmd' = argv[1] /\ 1 \in DOMAIN argv /\ argv' = Tail(argv)
    BY <1>2, <2>1, HeadAndTail DEF Begin
  <2>3. \A x \in DOMAIN argv' : /\ x \in Nat \ {0} /\ x + 1 \in DOMAIN argv
                                /\ argv'[x] = argv[x + 1]
    BY <2>1, <2>2, HeadAndTail
  <2>4. AccuracyOnce(argv') BY <2>3 DEF ListInv, AccuracyOnce
  <2>5. UsesBluestein(cmd') => \A x \in DOMAIN argv' : argv'[x].op # "accuracy"
    BY <2>2, <2>3 DEF ListInv, AccuracyOnce
  <2>6. QED BY <2>4, <2>5 DEF ListInv, UsesBluestein
<1>3. QED BY <1>1, <1>2

\* p->in and p->out are null or the arrays of this command (problem.c, util.c).
LEMMA ArraysKept == TypeOK /\ OpInv /\ ArraysInv /\ [Next]_vars => ArraysInv'
<1> SUFFICES ASSUME TypeOK, OpInv, ArraysInv, [Next]_vars PROVE ArraysInv'
  OBVIOUS
<1> USE DEF Running, Goto, Fail, Alive, Tests, VerifyLabels, AccuracyLabels,
            HasArrays, command, cache
<1>1. CASE Begin BY <1>1 DEF Begin, ArraysInv, OpInv
<1>2. CASE Parse BY <1>2 DEF Parse, ArraysInv, OpInv, Block
<1>3. CASE CanDo BY <1>3 DEF CanDo, ArraysInv, OpInv, Block
<1>4. CASE Alloc BY <1>4 DEF Alloc, ArraysInv, OpInv, Block
<1>5. CASE Zero BY <1>5 DEF Zero, ArraysInv, OpInv, Block
<1>6. CASE Setup BY <1>6 DEF Setup, ArraysInv, OpInv, Block
<1>7. CASE Measure BY <1>7 DEF Measure, ArraysInv, OpInv, Block
<1>8. CASE VerifyAlloc BY <1>8 DEF VerifyAlloc, ArraysInv, OpInv, Block
<1>9. CASE VerifyFree BY <1>9 DEF VerifyFree, ArraysInv, OpInv, Block
<1>10. CASE AccuracyAlloc BY <1>10 DEF AccuracyAlloc, ArraysInv, OpInv, Block
<1>11. CASE AccuracyRound BY <1>11 DEF AccuracyRound, ArraysInv, OpInv, Block
<1>12. CASE Forward BY <1>12 DEF Forward, ArraysInv, OpInv, Block
<1>13. CASE Backward BY <1>13 DEF Backward, ArraysInv, OpInv, Block
<1>14. CASE Compared BY <1>14 DEF Compared, ArraysInv, OpInv, Block
<1>15. CASE AccuracyDone BY <1>15 DEF AccuracyDone, ArraysInv, OpInv, Block
<1>16. CASE Done BY <1>16 DEF Done, ArraysInv, OpInv, Block
<1>17. CASE Destroy BY <1>17 DEF Destroy, ArraysInv, OpInv, Block
<1>18. CASE Finish BY <1>18 DEF Finish, ArraysInv, OpInv, Block
<1>19. CASE OutOfMemory BY <1>19 DEF OutOfMemory, ArraysInv, OpInv, Block
<1>20. ASSUME NEW test \in Tests, TestRound(test) PROVE ArraysInv'
  BY <1>20, NextTest DEF TestRound, ArraysInv, Block
<1>21. CASE UNCHANGED vars BY <1>21 DEF vars, ArraysInv, Block
<1>22. QED
  BY <1>1, <1>2, <1>3, <1>4, <1>5, <1>6, <1>7, <1>8, <1>9, <1>10, <1>11, <1>12, <1>13,
     <1>14, <1>15, <1>16, <1>17, <1>18, <1>19, <1>20, <1>21
  DEF Next, Program, Exited

\* The static pointers of mp.c: who set them, and who may still look at them.
LEMMA CacheKept ==
    TypeOK /\ OpInv /\ CacheInv /\ ListInv /\ [Next]_vars => CacheInv'
<1> SUFFICES ASSUME TypeOK, OpInv, CacheInv, ListInv, [Next]_vars PROVE CacheInv'
  OBVIOUS
<1> USE DEF Running, Goto, Fail, Alive, Tests, VerifyLabels, AccuracyLabels,
            HasArrays, command, cache, HasCache, BeforeTests
<1>1. CASE Begin
  <2>1. argv \in Seq([op : Ops, p : Problem]) /\ argv # <<>>
    BY <1>1 DEF Begin, TypeOK
  <2>2. cmd' = argv[1] /\ 1 \in DOMAIN argv /\ argv' = Tail(argv)
    BY <1>1, <2>1, HeadAndTail DEF Begin
  <2>3. \A x \in DOMAIN argv' : x + 1 \in DOMAIN argv /\ argv'[x] = argv[x + 1]
    BY <2>1, <2>2, HeadAndTail
  <2>4. cacheN # -1 => /\ \A x \in DOMAIN argv' : argv'[x].op # "accuracy"
                       /\ cmd'.op # "accuracy"
    BY <1>1, <2>2, <2>3 DEF CacheInv, Begin
  <2>5. QED BY <1>1, <2>4 DEF Begin, CacheInv
<1>2. CASE Parse BY <1>2 DEF Parse, CacheInv, OpInv, Block
<1>3. CASE CanDo BY <1>3 DEF CanDo, CacheInv, OpInv, Block
<1>4. CASE Alloc BY <1>4 DEF Alloc, CacheInv, OpInv, Block
<1>5. CASE Zero BY <1>5 DEF Zero, CacheInv, OpInv, Block
<1>6. CASE Setup BY <1>6 DEF Setup, CacheInv, OpInv, Block
<1>7. CASE Measure BY <1>7 DEF Measure, CacheInv, OpInv, Block
<1>8. CASE VerifyAlloc BY <1>8 DEF VerifyAlloc, CacheInv, OpInv, Block
<1>9. CASE VerifyFree BY <1>9 DEF VerifyFree, CacheInv, OpInv, Block
<1>10. CASE AccuracyAlloc BY <1>10 DEF AccuracyAlloc, CacheInv, OpInv, Block
<1>11. CASE AccuracyRound BY <1>11 DEF AccuracyRound, CacheInv, OpInv, Block
<1>12. CASE Forward
  <2>1. CASE cmd.p.pow2 BY <1>12, <2>1 DEF Forward, Fft1, CacheInv, OpInv, Block
  <2>2. CASE ~cmd.p.pow2
    <3>1. \A x \in DOMAIN argv : argv[x].op # "accuracy"
      BY <1>12, <2>2 DEF Forward, ListInv, OpInv, UsesBluestein
    <3>2. cmd.p.n \in Nat \ {0} BY DEF TypeOK, Problem
    <3>3. QED BY <1>12, <2>2, <3>1, <3>2 DEF Forward, Fft1, CacheInv, OpInv, Block
  <2>3. QED BY <2>1, <2>2
<1>13. CASE Backward
  <2>1. CASE cmd.p.pow2 BY <1>13, <2>1 DEF Backward, Fft1, CacheInv, OpInv, Block
  <2>2. CASE ~cmd.p.pow2
    <3>1. \A x \in DOMAIN argv : argv[x].op # "accuracy"
      BY <1>13, <2>2 DEF Backward, ListInv, OpInv, UsesBluestein
    <3>2. cmd.p.n \in Nat \ {0} BY DEF TypeOK, Problem
    <3>3. QED BY <1>13, <2>2, <3>1, <3>2 DEF Backward, Fft1, CacheInv, OpInv, Block
  <2>3. QED BY <2>1, <2>2
<1>14. CASE Compared BY <1>14 DEF Compared, CacheInv, OpInv, Block
<1>15. CASE AccuracyDone BY <1>15 DEF AccuracyDone, CacheInv, OpInv, Block
<1>16. CASE Done BY <1>16 DEF Done, CacheInv, OpInv, Block
<1>17. CASE Destroy BY <1>17 DEF Destroy, CacheInv, OpInv, Block
<1>18. CASE Finish BY <1>18 DEF Finish, CacheInv, OpInv, Block
<1>19. CASE OutOfMemory BY <1>19 DEF OutOfMemory, CacheInv, OpInv, Block
<1>20. ASSUME NEW test \in Tests, TestRound(test) PROVE CacheInv'
  BY <1>20, NextTest DEF TestRound, CacheInv, OpInv
<1>21. CASE UNCHANGED vars BY <1>21 DEF vars, CacheInv, Block
<1>22. QED
  BY <1>1, <1>2, <1>3, <1>4, <1>5, <1>6, <1>7, <1>8, <1>9, <1>10, <1>11, <1>12, <1>13,
     <1>14, <1>15, <1>16, <1>17, <1>18, <1>19, <1>20, <1>21
  DEF Next, Program, Exited

-----------------------------------------------------------------------------
\* What a step may rely on when it touches the heap.
MemInv == TypeOK /\ OpInv /\ ArraysInv /\ HeapInv /\ CacheInv /\ ListInv

\* Freeing a list of blocks is safe when it has no block twice; the lists that
\* the code frees are put together from pieces.
LEMMA FreeNone == Range(<<>>) = {} /\ IsInjective(<<>>) /\ \A S : <<>> \in Seq(S)
BY DEF Range, IsInjective

\* A list of one block.
LEMMA FreeOne ==
    ASSUME NEW S, NEW x \in S
    PROVE  Range(<<x>>) = {x} /\ IsInjective(<<x>>) /\ <<x>> \in Seq(S)
BY DEF Range, IsInjective

\* A list of two.
LEMMA FreeTwo ==
    ASSUME NEW S, NEW x \in S, NEW y \in S, x # y
    PROVE  Range(<<x, y>>) = {x, y} /\ IsInjective(<<x, y>>) /\ <<x, y>> \in Seq(S)
BY DEF Range, IsInjective

\* Two lists without a common block.
LEMMA FreeBoth ==
    ASSUME NEW S, NEW s \in Seq(S), NEW t \in Seq(S),
           IsInjective(s), IsInjective(t), Range(s) \cap Range(t) = {}
    PROVE  /\ Range(s \o t) = Range(s) \cup Range(t) /\ IsInjective(s \o t)
           /\ s \o t \in Seq(S)
<1>1. /\ DOMAIN s = 1 .. Len(s) /\ Len(s) \in Nat /\ s \o t \in Seq(S)
      /\ DOMAIN t = 1 .. Len(t) /\ Len(t) \in Nat
      /\ DOMAIN (s \o t) = 1 .. Len(s) + Len(t)
  OBVIOUS
<1>2. \A i \in DOMAIN (s \o t) : (s \o t)[i] = IF i <= Len(s) THEN s[i] ELSE t[i - Len(s)]
  BY <1>1
<1>3. \A i \in DOMAIN s : i \in DOMAIN (s \o t) /\ (s \o t)[i] = s[i]
  BY <1>1, <1>2
<1>4. \A i \in DOMAIN t : /\ Len(s) + i \in DOMAIN (s \o t)
                          /\ (s \o t)[Len(s) + i] = t[i]
  BY <1>1, <1>2
<1>5. Range(s \o t) = Range(s) \cup Range(t)
  <2>1. Range(s \o t) \subseteq Range(s) \cup Range(t) BY <1>1, <1>2 DEF Range
  <2>2. Range(s) \subseteq Range(s \o t) BY <1>3 DEF Range
  <2>3. Range(t) \subseteq Range(s \o t) BY <1>4 DEF Range
  <2>4. QED BY <2>1, <2>2, <2>3
<1>6. IsInjective(s \o t)
  <2> SUFFICES ASSUME NEW i \in DOMAIN (s \o t), NEW j \in DOMAIN (s \o t),
                      (s \o t)[i] = (s \o t)[j]
               PROVE  i = j
    BY DEF IsInjective
  <2>1. \A x \in DOMAIN s, y \in DOMAIN t : s[x] # t[y] BY DEF Range
  <2>2. QED BY <1>1, <1>2, <2>1 DEF IsInjective
<1>7. QED BY <1>1, <1>5, <1>6

\* The seven arrays of do_verify are seven blocks.
LEMMA FreeSeven == IsInjective(VerifyArrays)
<1> DEFINE name == <<"tmp", "outC", "outB", "outA", "inC", "inB", "inA">>
<1>1. \A i \in 1 .. 7 : VerifyArrays[i] = <<name[i], serial>>
  BY DEF VerifyArrays, Block
<1>2. \A i, j \in 1 .. 7 : name[i] = name[j] => i = j OBVIOUS
<1>3. DOMAIN VerifyArrays = 1 .. 7 BY DEF VerifyArrays
<1>4. QED BY <1>1, <1>2, <1>3 DEF IsInjective

\* fftaccuracy_done frees the two vectors of the cache, if there are any.
LEMMA FreeCache ==
    ASSUME MemInv, Alive, pc = "accuracy_round"
    PROVE  /\ Range(CachePointers) = IF HasCache THEN {Block("w"), Block("y")} ELSE {}
           /\ IsInjective(CachePointers)
<1>1. CASE HasCache
  <2>1. /\ cacheW = Block("w") /\ cacheY = Block("y") /\ cacheW # cacheY
        /\ cacheW # Null /\ cacheY # Null
    BY <1>1 DEF MemInv, CacheInv, Block, Null
  <2>2. CachePointers = <<cacheW>> \o <<cacheY>> BY <2>1 DEF CachePointers, Present
  <2>3. /\ Range(<<cacheW>>) = {cacheW} /\ Range(<<cacheY>>) = {cacheY}
        /\ IsInjective(<<cacheW>>) /\ IsInjective(<<cacheY>>)
        /\ <<cacheW>> \in Seq(Names \X Nat) /\ <<cacheY>> \in Seq(Names \X Nat)
    BY FreeOne DEF MemInv, TypeOK
  <2>4. Range(<<cacheW>>) \cap Range(<<cacheY>>) = {} BY <2>1, <2>3
  <2>5. /\ Range(<<cacheW>> \o <<cacheY>>) = Range(<<cacheW>>) \cup Range(<<cacheY>>)
        /\ IsInjective(<<cacheW>> \o <<cacheY>>)
    BY <2>3, <2>4, FreeBoth
  <2>6. QED BY <1>1, <2>1, <2>2, <2>3, <2>5
<1>2. CASE ~HasCache
  <2>1. cacheW = Null /\ cacheY = Null
    BY <1>2 DEF HasCache, MemInv, CacheInv, AccuracyLabels
  <2>2. CachePointers = <<>> BY <2>1 DEF CachePointers, Present
  <2>3. QED BY <1>2, <2>2 DEF Range, IsInjective
<1>3. QED BY <1>1, <1>2

\* The blocks that problem_destroy, and speed() after it, free.
Destroyed == Arrays \o <<Block("pstring"), Block("p")>>
               \o (IF cmd.op = "speed" THEN <<Block("t")>> ELSE <<>>)

\* problem_destroy frees what the command owns, and nothing twice.
LEMMA FreeProblem ==
    ASSUME MemInv, Alive, pc = "destroy"
    PROVE  /\ \A b : b \in Range(Destroyed) <=>
                         \E name \in Names : Owns(name) /\ b = Block(name)
           /\ IsInjective(Destroyed)
<1> DEFINE B == Names \X Nat
           problem == <<Block("pstring"), Block("p")>>
           timings == IF cmd.op = "speed" THEN <<Block("t")>> ELSE <<>>
<1>0. /\ Block("in") \in B /\ Block("out") \in B /\ Block("t") \in B
      /\ Block("pstring") \in B /\ Block("p") \in B
  BY DEF MemInv, TypeOK, Block, Names
<1>1. /\ Range(Arrays) = (IF cmd.op = "can_do" THEN {}
                          ELSE IF cmd.p.inPlace THEN {Block("in")}
                          ELSE {Block("in"), Block("out")})
      /\ IsInjective(Arrays) /\ Arrays \in Seq(B)
  <2>1. HasArrays <=> cmd.op # "can_do" BY DEF HasArrays
  <2>2. CASE cmd.op = "can_do"
    <3>1. Arrays = <<>> BY <2>1, <2>2 DEF MemInv, ArraysInv, Arrays
    <3>2. QED BY <2>2, <3>1, FreeNone
  <2>3. CASE cmd.op # "can_do" /\ cmd.p.inPlace
    <3>1. Arrays = <<Block("in")>>
      BY <2>1, <2>3 DEF MemInv, ArraysInv, Arrays, Block, Null
    <3>2. QED BY <1>0, <2>3, <3>1, FreeOne
  <2>4. CASE cmd.op # "can_do" /\ ~cmd.p.inPlace
    <3>1. in = Block("in") /\ out = Block("out")
      BY <2>1, <2>4 DEF MemInv, ArraysInv
    <3>2. in # Null /\ out # Null /\ out # in BY <3>1 DEF Block, Null
    <3>3. Arrays = <<out, in>> BY <3>2 DEF Arrays
    <3>4. in \in B /\ out \in B BY <1>0, <3>1
    <3>5. /\ Range(Arrays) = {out, in} /\ IsInjective(Arrays) /\ Arrays \in Seq(B)
      BY <3>2, <3>3, <3>4, FreeTwo
    <3>6. QED BY <2>4, <3>1, <3>5
  <2>5. QED BY <2>2, <2>3, <2>4
<1>2. /\ Range(problem) = {Block("pstring"), Block("p")}
      /\ IsInjective(problem) /\ problem \in Seq(B)
  <2>1. Block("pstring") # Block("p") BY DEF Block
  <2>2. QED BY <1>0, <2>1, FreeTwo
<1>3. /\ Range(timings) = (IF cmd.op = "speed" THEN {Block("t")} ELSE {})
      /\ IsInjective(timings) /\ timings \in Seq(B)
  BY <1>0, FreeNone, FreeOne
<1> HIDE DEF B, problem, timings
<1>4. Range(Arrays) \cap Range(problem) = {} BY <1>1, <1>2 DEF Block
<1>5. /\ Range(Arrays \o problem) = Range(Arrays) \cup Range(problem)
      /\ IsInjective(Arrays \o problem) /\ Arrays \o problem \in Seq(B)
  BY <1>1, <1>2, <1>4, FreeBoth
<1>6. Range(Arrays \o problem) \cap Range(timings) = {}
  BY <1>1, <1>2, <1>3, <1>5 DEF Block
<1>7. /\ Range(Destroyed) = Range(Arrays) \cup Range(problem) \cup Range(timings)
      /\ IsInjective(Destroyed)
  <2> DEFINE first == Arrays \o problem
  <2>1. Destroyed = first \o timings BY DEF Destroyed, problem, timings
  <2>2. /\ Range(first) = Range(Arrays) \cup Range(problem)
        /\ IsInjective(first) /\ first \in Seq(B) /\ Range(first) \cap Range(timings) = {}
    BY <1>5, <1>6
  <2> HIDE DEF first
  <2>3. /\ Range(first \o timings) = Range(first) \cup Range(timings)
        /\ IsInjective(first \o timings)
    BY <1>3, <2>2, FreeBoth
  <2>4. QED BY <2>1, <2>2, <2>3
<1>8. \A name \in Names : Owns(name) <=> \/ name \in {"p", "pstring"}
                                         \/ name = "t" /\ cmd.op = "speed"
                                         \/ name = "in" /\ cmd.op # "can_do"
                                         \/ /\ name = "out" /\ cmd.op # "can_do"
                                            /\ ~cmd.p.inPlace
  BY DEF Owns, HasArrays, VerifyLabels, Tests, HasCache, AccuracyLabels
<1>9. {"p", "pstring", "t", "in", "out"} \subseteq Names BY DEF Names
<1>10. QED BY <1>1, <1>2, <1>3, <1>7, <1>8, <1>9
 
\* fft1 finds its own cache or none, so it frees nothing of another command.
LEMMA Fft1Heap ==
    ASSUME MemInv, Alive, pc \in {"forward", "backward"}, Fft1
    PROVE  /\ bad' = bad
           /\ heap' = heap \cup (IF cmd.p.pow2 THEN {} ELSE {Block("w"), Block("y")})
<1>1. CASE cmd.p.pow2 BY <1>1 DEF Fft1
<1>2. CASE ~cmd.p.pow2 /\ cacheN = cmd.p.n
  <2>1. HasCache
    BY <1>2 DEF HasCache, AccuracyLabels, MemInv, TypeOK, Problem
  <2>2. cacheW \in heap /\ cacheY \in heap /\ cacheW = Block("w") /\ cacheY = Block("y")
    BY <2>1, Held DEF MemInv, CacheInv
  <2>3. QED BY <1>2, <2>2 DEF Fft1, Use, MemInv, TypeOK
<1>3. CASE ~cmd.p.pow2 /\ cacheN # cmd.p.n
  <2>1. cacheN = -1
    BY <1>3 DEF MemInv, CacheInv, HasCache, AccuracyLabels
  <2>2. Range(CachePointers) = {}
    BY <2>1 DEF MemInv, CacheInv, CachePointers, Present, Range
  <2>3. QED BY <1>3, <2>2 DEF Fft1, MemInv, TypeOK
<1>4. QED BY <1>1, <1>2, <1>3

\* Blocks are freed that the command has owned.
LEMMA HeapShrinks ==
    ASSUME MemInv, Alive, serial' = serial, NEW gone,
           gone \subseteq Names \ {"short_options", "a", "b"},
           \A b : b \in heap' <=> b \in heap /\ ~ \E name \in gone : b = Block(name),
           \A name \in Names : Owns(name)' <=> Owns(name) /\ name \notin gone,
           pc' \in AccuracyLabels => pc \in AccuracyLabels
    PROVE  HeapInv'
<1>0. heap \subseteq Names \X Nat /\ Alive BY DEF MemInv, TypeOK
<1>1. ShortOptions \in heap'
  BY DEF MemInv, HeapInv, ShortOptions, Block
<1>2. ASSUME NEW name \in Names, Owns(name)' PROVE Block(name) \in heap'
  <2>1. Owns(name) /\ name \notin gone BY <1>2
  <2>2. Block(name) \in heap BY <1>0, <2>1 DEF MemInv, HeapInv
  <2>3. \A other \in gone : Block(name) # Block(other) BY <2>1 DEF Block
  <2>4. QED BY <2>2, <2>3
<1>3. ASSUME NEW b \in heap'
      PROVE  b = ShortOptions \/ b[1] \in {"a", "b"} \/ (b[2] = serial /\ Owns(b[1])')
  <2>1. b \in heap /\ ~ \E name \in gone : b = Block(name) BY <1>3
  <2>2. b[1] \in Names /\ b = <<b[1], b[2]>> BY <1>0, <2>1
  <2>3. b = ShortOptions \/ b[1] \in {"a", "b"} \/ (b[2] = serial /\ Owns(b[1]))
    BY <1>0, <2>1 DEF MemInv, HeapInv
  <2>4. CASE b[2] = serial /\ Owns(b[1])
    <3>1. b = Block(b[1]) BY <2>2, <2>4 DEF Block
    <3>2. b[1] \notin gone BY <2>1, <3>1
    <3>3. QED BY <2>2, <2>4, <3>2
  <2>5. QED BY <2>3, <2>4
<1>4. pc' \in AccuracyLabels => Block("a") \in heap' /\ Block("b") \in heap'
  <2>1. \A name \in gone : Block(name) # Block("a") /\ Block(name) # Block("b")
    BY DEF Block
  <2>2. QED BY <1>0, <2>1 DEF MemInv, HeapInv
<1>5. QED BY <1>1, <1>2, <1>3, <1>4 DEF HeapInv, Block, ShortOptions

\* Blocks are allocated that the command owns from then on, or never frees.
LEMMA HeapGrows ==
    ASSUME MemInv, Alive, serial' = serial, NEW new, new \subseteq Names,
           \A b : b \in heap' <=> b \in heap \/ \E name \in new : b = Block(name),
           \A name \in Names : Owns(name)' <=> Owns(name) \/ name \in new \ {"a", "b"},
           pc' \in AccuracyLabels => pc \in AccuracyLabels \/ {"a", "b"} \subseteq new
    PROVE  HeapInv'
<1>0. heap \subseteq Names \X Nat /\ Alive BY DEF MemInv, TypeOK
<1>1. ShortOptions \in heap' BY DEF MemInv, HeapInv, ShortOptions
<1>2. ASSUME NEW name \in Names, Owns(name)' PROVE Block(name) \in heap'
  BY <1>0, <1>2 DEF MemInv, HeapInv
<1>3. ASSUME NEW b \in heap'
      PROVE  b = ShortOptions \/ b[1] \in {"a", "b"} \/ (b[2] = serial /\ Owns(b[1])')
  <2>1. CASE \E name \in new : b = Block(name) BY <2>1 DEF Block
  <2>2. CASE b \in heap
    <3>1. b[1] \in Names BY <1>0, <2>2
    <3>2. QED BY <1>0, <2>2, <3>1 DEF MemInv, HeapInv
  <2>3. QED BY <1>3, <2>1, <2>2
<1>4. pc' \in AccuracyLabels => Block("a") \in heap' /\ Block("b") \in heap'
  BY <1>0 DEF MemInv, HeapInv
<1>5. QED BY <1>1, <1>2, <1>3, <1>4 DEF HeapInv, Block, ShortOptions

\* No step frees or uses a block that is not there.
LEMMA HeapKept ==
    MemInv /\ ~bad /\ [Next]_vars => HeapInv' /\ ~bad'
<1> SUFFICES ASSUME MemInv, ~bad, [Next]_vars PROVE HeapInv' /\ ~bad'
  OBVIOUS
<1> USE DEF Running, Goto, Fail, Alive, Tests, VerifyLabels, AccuracyLabels,
            HasArrays, HasCache, command, cache
<1>0. heap \subseteq Names \X Nat /\ serial \in Nat BY DEF MemInv, TypeOK
<1>1. CASE Begin
  <2>1. HeapInv'
    BY <1>1, <1>0, Held DEF Begin, Owns, Block, HeapInv, MemInv, OpInv, ArraysInv, Names
  <2>2. ~bad'
    BY <1>1, <1>0, Held DEF Begin, Owns, Block, HeapInv, MemInv, OpInv, ArraysInv
  <2>3. QED BY <2>1, <2>2
<1>2. CASE Parse
  <2>1. HeapInv'
    BY <1>2 DEF Parse, Owns, Block, HeapInv, MemInv, Malloc
  <2>2. ~bad'
    BY <1>2 DEF Parse, Malloc
  <2>3. QED BY <2>1, <2>2
<1>3. CASE CanDo
  <2>1. HeapInv'
    BY <1>3, <1>0, Held DEF CanDo, Owns, Block, HeapInv, MemInv, OpInv, ArraysInv, Names
  <2>2. ~bad'
    BY <1>3, <1>0, Held DEF CanDo, Owns, Block, HeapInv, MemInv, OpInv, ArraysInv
  <2>3. QED BY <2>1, <2>2
<1>4. CASE Alloc
  <2>1. HeapInv'
    BY <1>4 DEF Alloc, Owns, Block, HeapInv, MemInv, Malloc
  <2>2. ~bad'
    BY <1>4 DEF Alloc, Malloc
  <2>3. QED BY <2>1, <2>2
<1>5. CASE Zero
  <2>1. HeapInv'
    BY <1>5 DEF Zero, Owns, Block, HeapInv, MemInv, Use
  <2>2. ~bad'
    BY <1>5, <1>0, Held DEF Zero, Owns, Block, HeapInv, MemInv, OpInv, ArraysInv, Use
  <2>3. QED BY <2>1, <2>2
<1>6. CASE Setup
  <2>1. HeapInv'
    BY <1>6 DEF Setup, Owns, Block, HeapInv, MemInv, Use
  <2>2. ~bad'
    BY <1>6, <1>0, Held DEF Setup, Owns, Block, HeapInv, MemInv, OpInv, ArraysInv, Use
  <2>3. QED BY <2>1, <2>2
<1>7. CASE Measure
  <2>1. HeapInv'
    BY <1>7 DEF Measure, Owns, Block, HeapInv, MemInv, DoFft, Use
  <2>2. ~bad'
    BY <1>7, Held DEF Measure, MemInv, OpInv, DoFft, Use
  <2>3. QED BY <2>1, <2>2
<1>8. CASE VerifyAlloc
  <2>1. HeapInv'
    BY <1>8, VerifyBlocks DEF VerifyAlloc, Owns, Block, HeapInv, MemInv, Malloc,
                              VerifyNames
  <2>2. ~bad'
    BY <1>8 DEF VerifyAlloc, Malloc
  <2>3. QED BY <2>1, <2>2
<1>9. CASE VerifyFree
  <2>1. Range(VerifyArrays) \subseteq heap BY <1>9, Held DEF VerifyFree, MemInv
  <2>2. ~bad' /\ heap' = heap \ Range(VerifyArrays)
    BY <1>9, <2>1, FreeSeven DEF VerifyFree, Free
  <2>3. \A b : b \in heap' <=> b \in heap /\ ~ \E name \in VerifyNames : b = Block(name)
    BY <2>2, VerifyBlocks DEF VerifyNames
  <2>4. \A name \in Names : Owns(name)' <=> Owns(name) /\ name \notin VerifyNames
    BY <1>9 DEF VerifyFree, Owns, VerifyNames, MemInv, OpInv
  <2>5. VerifyNames \subseteq Names \ {"short_options", "a", "b"}
    BY DEF VerifyNames, Names
  <2>6. HeapInv' BY <1>9, <2>3, <2>4, <2>5, HeapShrinks DEF VerifyFree
  <2>7. QED BY <2>2, <2>6
<1>10. CASE AccuracyAlloc
  <2>1. ~bad' /\ (exit' = "running" => heap' = heap \cup {Block("a"), Block("b")})
    BY <1>10 DEF AccuracyAlloc, Malloc
  <2>2. ASSUME exit' = "running" PROVE HeapInv'
    <3> DEFINE new == {"a", "b"}
    <3>1. \A b : b \in heap' <=> b \in heap \/ \E name \in new : b = Block(name)
      BY <2>1, <2>2
    <3>2. \A name \in Names : Owns(name)' <=> Owns(name) \/ name \in new \ {"a", "b"}
      <4>1. cacheN = -1 /\ cacheN' = -1
        BY <1>10 DEF AccuracyAlloc, MemInv, OpInv, CacheInv, BeforeTests
      <4>2. QED BY <1>10, <2>2, <4>1 DEF AccuracyAlloc, Owns
    <3>3. new \subseteq Names BY DEF Names
    <3>4. {"a", "b"} \subseteq new /\ serial' = serial BY <1>10 DEF AccuracyAlloc
    <3> HIDE DEF new
    <3>5. QED BY <1>10, <3>1, <3>2, <3>3, <3>4, HeapGrows DEF AccuracyAlloc
  <2>3. QED BY <2>1, <2>2 DEF HeapInv
<1>11. CASE AccuracyRound
  <2>1. HeapInv'
    BY <1>11 DEF AccuracyRound, Owns, Block, HeapInv, MemInv
  <2>2. ~bad'
    BY <1>11, Held DEF AccuracyRound, HeapInv, MemInv
  <2>3. QED BY <2>1, <2>2
<1>12. CASE Forward
  <2> DEFINE new == IF cmd.p.pow2 THEN {} ELSE {"w", "y"}
  <2>1. ~bad' /\ heap' = heap \cup (IF cmd.p.pow2 THEN {} ELSE {Block("w"), Block("y")})
    BY <1>12, Fft1Heap DEF Forward
  <2>2. \A b : b \in heap' <=> b \in heap \/ \E name \in new : b = Block(name)
    BY <2>1
  <2>3. HasCache' <=> HasCache \/ ~cmd.p.pow2
    <3>1. cmd.p.n \in Nat \ {0} BY DEF MemInv, TypeOK, Problem
    <3>2. QED BY <1>12, <3>1 DEF Forward, Fft1, MemInv, CacheInv
  <2>4. \A name \in Names : Owns(name)' <=> Owns(name) \/ name \in new \ {"a", "b"}
    BY <1>12, <2>3 DEF Forward, Owns
  <2>5. new \subseteq Names BY DEF Names
  <2> HIDE DEF new
  <2>6. HeapInv' BY <1>12, <2>2, <2>4, <2>5, HeapGrows DEF Forward
  <2>7. QED BY <2>1, <2>6
<1>13. CASE Backward
  <2> DEFINE new == IF cmd.p.pow2 THEN {} ELSE {"w", "y"}
  <2>1. ~bad' /\ heap' = heap \cup (IF cmd.p.pow2 THEN {} ELSE {Block("w"), Block("y")})
    BY <1>13, Fft1Heap DEF Backward
  <2>2. \A b : b \in heap' <=> b \in heap \/ \E name \in new : b = Block(name)
    BY <2>1
  <2>3. HasCache' <=> HasCache \/ ~cmd.p.pow2
    <3>1. cmd.p.n \in Nat \ {0} BY DEF MemInv, TypeOK, Problem
    <3>2. QED BY <1>13, <3>1 DEF Backward, Fft1, MemInv, CacheInv
  <2>4. \A name \in Names : Owns(name)' <=> Owns(name) \/ name \in new \ {"a", "b"}
    BY <1>13, <2>3 DEF Backward, Owns
  <2>5. new \subseteq Names BY DEF Names
  <2> HIDE DEF new
  <2>6. HeapInv' BY <1>13, <2>2, <2>4, <2>5, HeapGrows DEF Backward
  <2>7. QED BY <2>1, <2>6
<1>14. CASE Compared
  <2> DEFINE gone == {"mp_b", "mp_fftb"}
  <2>1. /\ Block("mp_fftb") \in heap /\ Block("mp_b") \in heap
        /\ Block("mp_fftb") # Block("mp_b")
    BY <1>14, Held DEF Compared, MemInv, Block
  <2>8. /\ Range(<<Block("mp_fftb"), Block("mp_b")>>) = {Block("mp_fftb"), Block("mp_b")}
        /\ IsInjective(<<Block("mp_fftb"), Block("mp_b")>>)
    BY <2>1, FreeTwo
  <2>2. ~bad' /\ heap' = heap \ {Block("mp_fftb"), Block("mp_b")}
    BY <1>14, <2>1, <2>8 DEF Compared, Free
  <2>3. \A b : b \in heap' <=> b \in heap /\ ~ \E name \in gone : b = Block(name)
    BY <2>2
  <2>4. \A name \in Names : Owns(name)' <=> Owns(name) /\ name \notin gone
    BY <1>14 DEF Compared, Owns, VerifyNames
  <2>5. gone \subseteq Names \ {"short_options", "a", "b"} BY DEF Names
  <2> HIDE DEF gone
  <2>6. HeapInv' BY <1>14, <2>3, <2>4, <2>5, HeapShrinks DEF Compared
  <2>7. QED BY <2>2, <2>6
<1>15. CASE AccuracyDone
  <2> DEFINE gone == IF cacheN # -1 THEN {"w", "y"} ELSE {}
  <2>1. /\ Range(CachePointers) = IF cacheN # -1 THEN {Block("w"), Block("y")} ELSE {}
        /\ IsInjective(CachePointers)
    BY <1>15, FreeCache DEF AccuracyDone
  <2>2. Range(CachePointers) \subseteq heap
    BY <1>15, <2>1, Held DEF AccuracyDone, MemInv, CacheInv
  <2>3. ~bad' /\ heap' = heap \ Range(CachePointers)
    BY <1>15, <2>1, <2>2 DEF AccuracyDone, Free
  <2>4. \A b : b \in heap' <=> b \in heap /\ ~ \E name \in gone : b = Block(name)
    BY <2>1, <2>3
  <2>5. \A name \in Names : Owns(name)' <=> Owns(name) /\ name \notin gone
    BY <1>15 DEF AccuracyDone, Owns, VerifyNames
  <2>6. gone \subseteq Names \ {"short_options", "a", "b"} BY DEF Names
  <2> HIDE DEF gone
  <2>7. HeapInv' BY <1>15, <2>4, <2>5, <2>6, HeapShrinks DEF AccuracyDone
  <2>8. QED BY <2>3, <2>7
<1>16. CASE Done
  <2>1. HeapInv'
    BY <1>16, <1>0, Held DEF Done, Owns, Block, HeapInv, MemInv, OpInv, ArraysInv, Names
  <2>2. ~bad'
    BY <1>16, <1>0, Held DEF Done, Owns, Block, HeapInv, MemInv, OpInv, ArraysInv
  <2>3. QED BY <2>1, <2>2
<1>17. CASE Destroy
  <2> DEFINE gone == {name \in Names : Owns(name)}
  <2>1. /\ \A b : b \in Range(Destroyed) <=> \E name \in gone : b = Block(name)
        /\ IsInjective(Destroyed)
    BY <1>17, FreeProblem DEF Destroy
  <2>2. Range(Destroyed) \subseteq heap BY <1>17, <2>1 DEF Destroy, MemInv, HeapInv
  <2>3. ~bad' /\ heap' = heap \ Range(Destroyed)
    BY <1>17, <2>1, <2>2 DEF Destroy, Destroyed, Free
  <2>4. \A b : b \in heap' <=> b \in heap /\ ~ \E name \in gone : b = Block(name)
    BY <2>1, <2>3
  <2>5. \A name \in Names : Owns(name)' <=> Owns(name) /\ name \notin gone
    BY <1>17 DEF Destroy, Owns
  <2>6. gone \subseteq Names \ {"short_options", "a", "b"}
    BY DEF Names, Owns, VerifyNames
  <2> HIDE DEF gone
  <2>7. HeapInv' BY <1>17, <2>4, <2>5, <2>6, HeapShrinks DEF Destroy
  <2>8. QED BY <2>3, <2>7
<1>18. CASE Finish
  <2>1. {ShortOptions} \subseteq heap BY <1>18 DEF Finish, MemInv, HeapInv
  <2>2. Range(<<ShortOptions>>) = {ShortOptions} /\ IsInjective(<<ShortOptions>>)
    BY FreeOne
  <2>3. ~bad' BY <1>18, <2>1, <2>2 DEF Finish, Free
  <2>4. HeapInv' BY <1>18 DEF Finish, HeapInv
  <2>5. QED BY <2>3, <2>4
<1>19. CASE OutOfMemory
  <2>1. HeapInv'
    BY <1>19 DEF OutOfMemory, HeapInv
  <2>2. ~bad'
    BY <1>19, <1>0, Held DEF OutOfMemory, Owns, Block, HeapInv, MemInv, OpInv, ArraysInv
  <2>3. QED BY <2>1, <2>2
<1>20. ASSUME NEW test \in Tests, TestRound(test) PROVE HeapInv' /\ ~bad'
  <2>0. Range(VerifyArrays) \subseteq heap /\ in \in heap /\ out \in heap
    BY <1>20, Held DEF TestRound, MemInv
  <2>1. heap' = heap /\ ~bad'
    BY <1>20, <2>0 DEF TestRound, DoFft, Use
  <2>2. HeapInv'
    BY <1>20, <2>1, NextTest DEF TestRound, HeapInv, Owns, Block, MemInv
  <2>3. QED BY <2>1, <2>2
<1>21. CASE UNCHANGED vars BY <1>21 DEF vars, HeapInv, Owns, Block, MemInv
<1>22. QED
  BY <1>1, <1>2, <1>3, <1>4, <1>5, <1>6, <1>7, <1>8, <1>9, <1>10, <1>11, <1>12, <1>13,
     <1>14, <1>15, <1>16, <1>17, <1>18, <1>19, <1>20, <1>21
  DEF Next, Program, Exited

\* The invariant holds in every state when every command list is one that the
\* scripts write.
LEMMA IInvHolds ==
    ASSUME \A l \in Argv : AccuracyOnce(l) PROVE Spec => []IInv
<1>1. Init => IInv
  <2> SUFFICES ASSUME Init PROVE IInv
    OBVIOUS
  <2>1. TypeOK /\ OpInv BY InitTyped
  <2>2. ArraysInv /\ CacheInv BY DEF Init, ArraysInv, CacheInv, HasCache, AccuracyLabels
  <2>3. HeapInv
    BY DEF Init, HeapInv, Owns, HasArrays, HasCache, VerifyLabels, Tests, AccuracyLabels
  <2>4. ListInv BY DEF Init, ListInv
  <2>5. MemoryInv BY DEF Init, MemoryInv
  <2>6. QED BY <2>1, <2>2, <2>3, <2>4, <2>5 DEF IInv
<1>2. IInv /\ [Next]_vars => IInv'
  <2> SUFFICES ASSUME IInv, [Next]_vars PROVE IInv'
    OBVIOUS
  <2>1. /\ TypeOK' /\ OpInv' /\ ArraysInv' /\ CacheInv' /\ ListInv'
    BY NextTyped, ArraysKept, CacheKept, ListKept DEF IInv
  <2>2. HeapInv' /\ ~bad' BY HeapKept DEF IInv, MemInv, MemoryInv
  <2>3. exit' = "success" => heap' = Leaked'
    <3>1. CASE UNCHANGED <<exit, heap>> BY <3>1 DEF IInv, MemoryInv, Leaked
    <3>2. CASE Finish
      <4>1. heap' = heap \ {ShortOptions}
        BY <3>2, FreeOne DEF Finish, Free
      <4>2. \A b \in heap : b = ShortOptions \/ b[1] \in {"a", "b"}
        BY <3>2 DEF Finish, Running, IInv, HeapInv, Alive, Owns, HasArrays,
                    HasCache, VerifyLabels, Tests, AccuracyLabels
      <4>3. QED BY <4>1, <4>2 DEF Leaked
    <3>3. CASE exit' # "success" BY <3>3
    <3>4. exit' # "success" \/ Finish \/ UNCHANGED <<exit, heap>>
      BY DEF Next, Program, Exited, vars, Running, Goto, Fail, command, cache, Begin,
             Parse, CanDo, Alloc, Zero, Setup, Measure, VerifyAlloc, TestRound,
             VerifyFree, AccuracyAlloc, AccuracyRound, Forward, Backward, Compared,
             AccuracyDone, Done, Destroy, OutOfMemory
    <3>5. QED BY <3>1, <3>2, <3>3, <3>4
  <2>4. QED BY <2>1, <2>2, <2>3 DEF IInv, MemoryInv
<1>3. QED BY <1>1, <1>2, PTL DEF Spec

\* No block is freed or used that is not allocated, however long the list of
\* commands is, as long as no --accuracy follows one that left its cache behind.
THEOREM MemorySafe ==
    ASSUME \A l \in Argv : AccuracyOnce(l) PROVE Spec => []NoBadFree
<1>1. IInv => NoBadFree BY DEF IInv, MemoryInv, NoBadFree
<1>2. QED BY <1>1, IInvHolds, PTL

\* Between two commands, and at the end, nothing is left of the heap but what
\* accuracy() never frees.
THEOREM NothingKept ==
    ASSUME \A l \in Argv : AccuracyOnce(l) PROVE Spec => []Balanced
<1>1. IInv => Balanced
  <2> SUFFICES ASSUME IInv PROVE Balanced
    OBVIOUS
  <2>1. ASSUME exit = "running", pc = "idle" PROVE heap = {ShortOptions} \cup Leaked
    BY <2>1 DEF IInv, HeapInv, Alive, Owns, HasArrays, HasCache, VerifyLabels,
                Tests, AccuracyLabels, Leaked
  <2>2. QED BY <2>1 DEF Balanced, IInv, MemoryInv
<1>2. QED BY <1>1, IInvHolds, PTL
=============================================================================
