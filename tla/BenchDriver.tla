---------------------------- MODULE BenchDriver ----------------------------
(***************************************************************************)
(* scripts/benchmark: one doit program is run on a list of problems, once  *)
(* for every question (can it, is it right, how fast, how accurate), and a *)
(* line of results is printed for every problem it can do.  Each question  *)
(* is a process of its own (Session), started in a pipeline with tail; the *)
(* shell sees only the exit status of the last command of a pipeline.      *)
(***************************************************************************)
EXTENDS Integers, Sequences

CONSTANTS List,      \* the problems, in the order of the four loops
          Flags,     \* the option settings the script may be started with
          MaxN, MaxND  \* --maxn and --maxnd

\* What the script looks at in a problem: 1-d or not, and how many points.
ASSUME ListAssumption == List \in Seq([oned : BOOLEAN, points : Nat])
ASSUME FlagsAssumption == Flags \subseteq [verify : BOOLEAN, speed : BOOLEAN,
                                           accuracy : BOOLEAN,
                                           keepGoing : BOOLEAN]
ASSUME MaxAssumption == MaxN \in Nat /\ MaxND \in Nat

Indices == DOMAIN List

VARIABLES flags,     \* the options of this run
          can,       \* the problems the program can do
          pc, i,     \* the next statement, and the problem it is about
          acc, time, print,  \* the variables of the script
          asked,     \* history: <<problem, option, ending>> of every process
          out,       \* the lines printed
          exit       \* -1 while it runs, then the exit status

world == <<flags, can>>
vars == <<flags, can, pc, i, acc, time, print, asked, out, exit>>

\* A column of a line: what was asked and about which problem, or nothing.
Empty == <<>>
Failed == <<"FAILED", 0>>

\* How a process that was asked for figures may end: "good", with its figures
\* printed; "failed", because of a wrong transform, an assertion or a lack of
\* memory before that; "late", in done or in problem_destroy, when the figures
\* have been printed and are flushed; "hung", never, because speed() is not
\* satisfied with any measurement.
Endings(option) == {"good", "failed", "late"}
                       \cup (IF option = "speed" THEN {"hung"} ELSE {})
Answers == Indices \X {"can-do", "verify", "speed", "accuracy"}
                   \X {"good", "failed", "late", "hung"}

-----------------------------------------------------------------------------
Init == /\ flags \in Flags
        /\ can \in SUBSET Indices
        /\ pc = "next" /\ i = 1
        /\ acc = Empty /\ time = Empty /\ print = "no"
        /\ asked = {} /\ out = <<>> /\ exit = -1

Running(l) == exit = -1 /\ pc = l

\* The status of `program | tail -1`: that of tail, which has nothing to fail.
PipelineStatus(status) == 0

\* The status of the program, and what is the last line of its output.
Status(ending) == IF ending = "good" THEN 0 ELSE 1
Column(ending, figures) == IF ending \in {"good", "late"} THEN figures ELSE Empty

Ask(option, ending) == asked' = asked \cup {<<i, option, ending>>}

TooLarge(j) == List[j].points > (IF List[j].oned THEN MaxN ELSE MaxND)

\* Mutant: the loop goes on with the size before it compares it.
NextProblemUnchecked == /\ Running("next") /\ i \in Indices
                        /\ pc' = "can_do"
                        /\ UNCHANGED <<world, i, acc, time, print, asked, out,
                                       exit>>

NextProblem == /\ Running("next") /\ i \in Indices
               /\ IF TooLarge(i) THEN i' = i + 1 /\ UNCHANGED pc
                                 ELSE pc' = "can_do" /\ UNCHANGED i
               /\ UNCHANGED <<world, acc, time, print, asked, out, exit>>

\* doable=`$program --can-do $problem`; print="yes"
CanDo == /\ Running("can_do")
         /\ Ask("can-do", "good")
         /\ IF i \in can
            THEN pc' = "verify" /\ print' = "yes" /\ UNCHANGED i
            ELSE pc' = "next" /\ i' = i + 1 /\ UNCHANGED print
         /\ UNCHANGED <<world, acc, time, out, exit>>

\* Mutant: acc="" is set once, before the loops, and a failure leaves it alone.
VerifyKeepsColumn ==
    /\ Running("verify")
    /\ IF flags.verify
       THEN \E e \in Endings("verify") :
                /\ Ask("verify", e)
                /\ acc' = IF e = "failed" THEN acc ELSE <<"error", i>>
       ELSE UNCHANGED <<acc, asked>>
    /\ pc' = "speed"
    /\ UNCHANGED <<world, i, time, print, out, exit>>

\* acc=`$program --verify $problem | tail -1` || { acc="FAILED ..."; ... }
Verify ==
    /\ Running("verify")
    /\ IF flags.verify
       THEN \E e \in Endings("verify") :
                LET seen == PipelineStatus(Status(e))
                IN  /\ Ask("verify", e)
                    /\ acc' = IF seen = 0 THEN Column(e, <<"error", i>>)
                                          ELSE Failed
                    /\ exit' = IF seen # 0 /\ ~flags.keepGoing
                               THEN 1 ELSE exit
       ELSE acc' = Empty /\ UNCHANGED <<asked, exit>>
    /\ pc' = "speed"
    /\ UNCHANGED <<world, i, time, print, out>>

\* time="`$program --report-benchmark --speed $problem | tail -1` " || ...
\* The shell waits for the pipeline, for ever if the program hangs.
Speed ==
    /\ Running("speed")
    /\ IF flags.speed
       THEN \E e \in Endings("speed") :
                /\ Ask("speed", e)
                /\ IF e = "hung"
                   THEN pc' = "waiting" /\ UNCHANGED time
                   ELSE /\ pc' = "accuracy"
                        /\ time' = IF PipelineStatus(Status(e)) = 0
                                   THEN Column(e, <<"time", i>>) ELSE Failed
       ELSE time' = Empty /\ pc' = "accuracy" /\ UNCHANGED asked
    /\ UNCHANGED <<world, i, acc, print, out, exit>>

\* The accuracy of 1-d problems replaces the error of --verify; lines of other
\* problems are not printed in an accuracy run.
Accuracy ==
    /\ Running("accuracy")
    /\ IF flags.accuracy /\ List[i].oned
       THEN \E e \in Endings("accuracy") :
                /\ Ask("accuracy", e)
                /\ acc' = Column(e, <<"accuracy", i>>)
       ELSE UNCHANGED <<acc, asked>>
    /\ print' = IF flags.accuracy /\ ~List[i].oned THEN "no" ELSE print
    /\ pc' = "print"
    /\ UNCHANGED <<world, i, time, out, exit>>

\* Mutant: print is not consulted for multi-dimensional problems.
EchoAlways == /\ Running("print")
              /\ out' = Append(out, [problem |-> i, time |-> time, acc |-> acc])
              /\ pc' = "next" /\ i' = i + 1
              /\ UNCHANGED <<world, acc, time, print, asked, exit>>

\* Mutant: the loop variable of the shell is advanced twice.
EchoSkips == /\ Running("print")
             /\ out' = IF print = "yes"
                       THEN Append(out, [problem |-> i, time |-> time,
                                         acc |-> acc])
                       ELSE out
             /\ pc' = "next" /\ i' = i + 2
             /\ UNCHANGED <<world, acc, time, print, asked, exit>>

Echo == /\ Running("print")
        /\ out' = IF print = "yes"
                  THEN Append(out, [problem |-> i, time |-> time, acc |-> acc])
                  ELSE out
        /\ pc' = "next" /\ i' = i + 1
        /\ UNCHANGED <<world, acc, time, print, asked, exit>>

\* The end of the four loops.
Finish == /\ Running("next") /\ i \notin Indices
          /\ exit' = 0
          /\ UNCHANGED <<world, pc, i, acc, time, print, asked, out>>

\* The script has ended, or waits for a program that does not.
Stopped == (exit # -1 \/ pc = "waiting") /\ UNCHANGED vars

Program == NextProblem \/ CanDo \/ Verify \/ Speed \/ Accuracy \/ Echo \/ Finish
Next == Program \/ Stopped
Spec == Init /\ [][Next]_vars

-----------------------------------------------------------------------------
TypeOK == /\ flags \in Flags /\ can \subseteq Indices
          /\ asked \subseteq Answers
          /\ pc \in {"next", "can_do", "verify", "speed", "waiting", "accuracy",
                     "print"}
          /\ i \in 1 .. Len(List) + 1
          /\ (pc # "next") => i \in Indices
          /\ print \in {"yes", "no"} /\ exit \in {-1, 0, 1}

\* The lines come in the order of the loops, and every problem the program
\* can do and that is not too large has exactly one, except that accuracy
\* runs leave the multi-dimensional ones out.
Expected(j) == j \in can /\ ~TooLarge(j) /\ (flags.accuracy => List[j].oned)
OneLineEach ==
    /\ \A a, b \in DOMAIN out : a < b => out[a].problem < out[b].problem
    /\ \A a \in DOMAIN out : Expected(out[a].problem)
    /\ exit = 0 => \A j \in Indices :
                       Expected(j) => \E a \in DOMAIN out : out[a].problem = j

\* No column of a line is left over from an earlier problem: it shows the
\* figures that the program printed in this run about the problem of the line,
\* even if the process failed afterwards, and it is empty when the question was
\* not asked or the process failed without printing any.
Printed(j, option) ==
    \E e \in {"good", "late"} : <<j, option, e>> \in asked
Shows(column, j, option, figures) ==
    column = IF Printed(j, option) THEN <<figures, j>> ELSE Empty
ColumnsAreOwn ==
    \A a \in DOMAIN out :
        LET l == out[a]
        IN  /\ Shows(l.time, l.problem, "speed", "time")
            /\ IF flags.accuracy
               THEN Shows(l.acc, l.problem, "accuracy", "accuracy")
               ELSE Shows(l.acc, l.problem, "verify", "error")

\* The costly questions are asked only about problems that are small enough
\* and that the program said it can do.
AsksOnlyDoable ==
    \A q \in asked : /\ ~TooLarge(q[1])
                     /\ q[2] # "can-do" => q[1] \in can

\* "-k, --keep-going   continue after verification error" (benchmark:17), and
\* exit 1 in the code that handles one: without -k, a run that verified a wrong
\* transform does not end successfully.
StopsAtVerificationError ==
    (exit = 0 /\ ~flags.keepGoing) =>
        \A j \in Indices : <<j, "verify", "failed">> \notin asked
=============================================================================
