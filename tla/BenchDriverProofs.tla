------------------------- MODULE BenchDriverProofs -------------------------
(***************************************************************************)
(* What the lines of scripts/benchmark say, for every list of problems,    *)
(* every set of options and every program that is asked.                   *)
(***************************************************************************)
EXTENDS BenchDriver, TLAPS

Labels == {"next", "can_do", "verify", "speed", "accuracy", "print"}

\* Past can_do the problem is one that is small enough and can be done.
DoableInv == /\ pc # "next" => ~TooLarge(i)
             /\ pc \notin {"next", "can_do"} => i \in can

\* Nothing has been asked about the problems after this one, and about this one
\* only what comes before pc.
FreshInv ==
    /\ \A q \in asked : q[1] <= i
    /\ \A q \in asked : q[1] = i =>
           /\ pc \notin {"next", "can_do"}
           /\ q[2] = "verify" => pc # "verify"
           /\ q[2] = "speed" => pc \notin {"verify", "speed"}
           /\ q[2] = "accuracy" => pc \notin {"verify", "speed", "accuracy"}

\* What the three variables of the script hold when the line is printed.
TimeColumn(j) == IF Printed(j, "speed") THEN <<"time", j>> ELSE Empty
ErrorColumn(j) == IF Printed(j, "verify") THEN <<"error", j>> ELSE Empty
AccColumn(j) == IF flags.accuracy
                THEN IF Printed(j, "accuracy") THEN <<"accuracy", j>> ELSE Empty
                ELSE ErrorColumn(j)
ScriptInv ==
    /\ pc \in {"speed", "waiting", "accuracy"} => acc = ErrorColumn(i)
    /\ pc \in {"accuracy", "print"} => time = TimeColumn(i)
    /\ pc \in {"verify", "speed", "accuracy"} => print = "yes"
    /\ pc = "print" => /\ print = "yes" <=> (flags.accuracy => List[i].oned)
                       /\ print = "yes" => acc = AccColumn(i)

Columns == {Empty} \cup ({"time", "error", "accuracy"} \X Indices)
Line(j) == [problem |-> j, time |-> TimeColumn(j), acc |-> AccColumn(j)]

\* The lines printed so far are those of the problems before i.
LinesInv ==
    /\ out \in Seq([problem : Indices, time : Columns, acc : Columns])
    /\ \A a \in DOMAIN out : /\ out[a] = Line(out[a].problem)
                             /\ out[a].problem < i
                             /\ Expected(out[a].problem)
    /\ \A a, b \in DOMAIN out : a < b => out[a].problem < out[b].problem
    /\ \A j \in Indices : j < i /\ Expected(j) =>
           \E a \in DOMAIN out : out[a].problem = j
    /\ exit = 0 => i \notin Indices

IInv == TypeOK /\ DoableInv /\ FreshInv /\ ScriptInv /\ LinesInv /\ AsksOnlyDoable
-----------------------------------------------------------------------------
\* What a line added at the end changes.
LEMMA OneMore ==
    ASSUME NEW S, NEW s \in Seq(S), NEW x \in S
    PROVE  /\ Append(s, x) \in Seq(S)
           /\ DOMAIN s = 1 .. Len(s) /\ Len(s) \in Nat
           /\ DOMAIN Append(s, x) = 1 .. Len(s) + 1
           /\ \A a \in DOMAIN s : Append(s, x)[a] = s[a]
           /\ Append(s, x)[Len(s) + 1] = x
OBVIOUS

\* Sequences and the sets of their elements.
LEMMA Elements ==
    ASSUME NEW S, NEW s \in Seq(S)
    PROVE  /\ Len(s) \in Nat /\ DOMAIN s = 1 .. Len(s)
           /\ \A j \in 1 .. Len(s) : s[j] \in S
OBVIOUS

\* The problems of the script are those of its list.
LEMMA Listed ==
    /\ Len(List) \in Nat /\ Indices = 1 .. Len(List)
    /\ \A j \in Indices : List[j].oned \in BOOLEAN /\ List[j].points \in Nat
<1>1. List \in Seq([oned : BOOLEAN, points : Nat]) BY ListAssumption
<1>2. Len(List) \in Nat /\ Indices = 1 .. Len(List) BY <1>1, Elements DEF Indices
<1>3. \A j \in 1 .. Len(List) : List[j] \in [oned : BOOLEAN, points : Nat]
  BY <1>1, Elements
<1>4. QED BY <1>2, <1>3

\* At the start of the script the invariant holds.
LEMMA Initially == Init => IInv
<1> SUFFICES ASSUME Init PROVE IInv
  OBVIOUS
<1>1. TypeOK BY Listed DEF Init, TypeOK
<1>2. DoableInv /\ FreshInv /\ AsksOnlyDoable
  BY DEF Init, DoableInv, FreshInv, AsksOnlyDoable
<1>3. ScriptInv BY DEF Init, ScriptInv
<1>4. LinesInv BY Listed DEF Init, LinesInv
<1>5. QED BY <1>1, <1>2, <1>3, <1>4 DEF IInv

\* A question about this problem changes nothing of what was printed about
\* another, nor of what was printed in answer to another question.
LEMMA AskChanges ==
    ASSUME NEW option, NEW e, Ask(option, e), UNCHANGED flags
    PROVE  /\ \A j, o : j # i \/ o # option => (Printed(j, o)' <=> Printed(j, o))
           /\ \A j : j # i => Line(j)' = Line(j)
<1>1. \A j, o : j # i \/ o # option => (Printed(j, o)' <=> Printed(j, o))
  BY DEF Ask, Printed
<1>2. \A j : j # i => Line(j)' = Line(j)
  BY <1>1 DEF Line, TimeColumn, AccColumn, ErrorColumn
<1>3. QED BY <1>1, <1>2

\* The figures shown for a question that was not asked before are those of the
\* process that has just been asked.
LEMMA FirstAnswer ==
    ASSUME NEW option, NEW e, Ask(option, e), UNCHANGED i,
           \A q \in asked : q[1] = i => q[2] # option
    PROVE  Printed(i, option)' <=> e \in {"good", "late"}
<1>1. \A x : <<i, option, x>> \notin asked
  <2> SUFFICES ASSUME NEW x, <<i, option, x>> \in asked PROVE FALSE
    OBVIOUS
  <2>1. <<i, option, x>>[1] = i /\ <<i, option, x>>[2] = option
    OBVIOUS
  <2>2. QED BY <2>1
<1>2. QED BY <1>1 DEF Ask, Printed

\* What has not been asked has not been printed.
LEMMA NotAsked ==
    ASSUME NEW option, \A q \in asked : q[1] = i => q[2] # option
    PROVE  ~Printed(i, option)
<1>1. \A x : <<i, option, x>>[1] = i /\ <<i, option, x>>[2] = option
  OBVIOUS
<1>2. QED BY <1>1 DEF Printed

\* Problems, lines and questions are about members of the list.
LEMMA Members ==
    ASSUME IInv
    PROVE  /\ i \in Int /\ \A j \in Indices : j \in Int
           /\ \A a \in DOMAIN out : out[a].problem \in Indices
           /\ \A q \in asked : q[1] \in Indices
<1> DEFINE S == [problem : Indices, time : Columns, acc : Columns]
<1>1. out \in Seq(S) BY DEF IInv, LinesInv
<1>2. \A a \in DOMAIN out : out[a] \in S
  <2> HIDE DEF S
  <2>1. QED BY <1>1, Elements
<1>3. \A a \in DOMAIN out : out[a].problem \in Indices BY <1>2
<1>4. QED BY <1>3, Listed DEF IInv, TypeOK, Answers

\* As long as nothing is printed, i stays and only this problem is asked about,
\* the lines remain what they were.
LEMMA LinesStay ==
    ASSUME IInv, UNCHANGED <<world, i, out>>, exit' = -1,
           asked' = asked \/ \E option, e : Ask(option, e)
    PROVE  LinesInv'
<1>1. \A j : j # i => Line(j)' = Line(j)
  <2>1. CASE asked' = asked
    BY <2>1 DEF world, Line, TimeColumn, AccColumn, ErrorColumn, Printed
  <2>2. CASE \E option, e : Ask(option, e) BY <2>2, AskChanges DEF world
  <2>3. QED BY <2>1, <2>2
<1>2. \A j : Expected(j)' <=> Expected(j) BY DEF Expected, TooLarge, world
<1>3. \A a \in DOMAIN out : out[a].problem # i
  BY Members DEF IInv, LinesInv
<1>4. QED BY <1>1, <1>2, <1>3 DEF IInv, LinesInv

\* Every statement of the loop keeps the invariant.
LEMMA EveryStatement == IInv /\ [Next]_vars => IInv'
<1> SUFFICES ASSUME IInv, [Next]_vars PROVE IInv'
  OBVIOUS
<1> USE Listed DEF Running, world
<1>1. CASE NextProblem
  <2>1. TypeOK' BY <1>1 DEF NextProblem, TypeOK, IInv
  <2>2. DoableInv' BY <1>1 DEF NextProblem, DoableInv, TypeOK, TooLarge, IInv
  <2>3. FreshInv'
    <3>1. \A q \in asked : q[1] \in Int BY Members
    <3>2. QED BY <1>1, <3>1 DEF NextProblem, FreshInv, TypeOK, IInv
  <2>4. ScriptInv' BY <1>1 DEF NextProblem, ScriptInv
  <2>5. \A j : Line(j)' = Line(j)
    BY <1>1 DEF NextProblem, Line, TimeColumn, ErrorColumn, AccColumn, Printed, Empty
  <2>6. LinesInv'
    <3>1. \A j : Expected(j)' <=> Expected(j)
      BY <1>1 DEF NextProblem, Expected, TooLarge
    <3>2. out' = out /\ exit' = -1 BY <1>1 DEF NextProblem
    <3>3. i' = i \/ (i' = i + 1 /\ ~Expected(i))
      BY <1>1 DEF NextProblem, Expected
    <3>4. QED BY <2>5, <3>1, <3>2, <3>3, Members DEF IInv, LinesInv, Columns, Empty
  <2>7. AsksOnlyDoable' BY <1>1 DEF NextProblem, AsksOnlyDoable, TooLarge, IInv
  <2>8. QED BY <2>1, <2>2, <2>3, <2>4, <2>6, <2>7 DEF IInv
<1>2. CASE CanDo
  <2>0. i \in Indices /\ <<i, "can-do", "good">> \in Answers
    BY <1>2 DEF CanDo, TypeOK, IInv, Answers
  <2>1. TypeOK' BY <1>2, <2>0 DEF CanDo, TypeOK, Ask, IInv
  <2>2. DoableInv' BY <1>2 DEF CanDo, DoableInv, TypeOK, TooLarge, IInv
  <2>3. FreshInv'
    <3>1. \A q \in asked' : /\ q[1] \in Int /\ q[1] <= i
                            /\ q[1] = i => q = <<i, "can-do", "good">>
      BY <1>2, <2>0, Members DEF CanDo, FreshInv, Ask, IInv
    <3>2. QED BY <1>2, <2>0, <3>1, Members DEF CanDo, FreshInv
  <2>4. ScriptInv' BY <1>2 DEF CanDo, ScriptInv
  <2>5. \A j : j # i => Line(j)' = Line(j) BY <1>2, AskChanges DEF CanDo
  <2>6. LinesInv'
    <3>1. \A j : Expected(j)' <=> Expected(j)
      BY <1>2 DEF CanDo, Expected, TooLarge
    <3>2. out' = out /\ exit' = -1 BY <1>2 DEF CanDo
    <3>3. i' = i \/ (i' = i + 1 /\ ~Expected(i))
      BY <1>2 DEF CanDo, Expected
    <3>4. \A a \in DOMAIN out : out[a].problem # i BY Members DEF IInv, LinesInv
    <3>5. QED BY <2>5, <3>1, <3>2, <3>3, <3>4, Members DEF IInv, LinesInv, Columns, Empty
  <2>7. AsksOnlyDoable'
    BY <1>2 DEF CanDo, AsksOnlyDoable, DoableInv, Ask, TooLarge, IInv
  <2>8. QED BY <2>1, <2>2, <2>3, <2>4, <2>6, <2>7 DEF IInv
<1>3. CASE Verify
  <2>0. i \in Indices /\ \A e \in Endings("verify") : <<i, "verify", e>> \in Answers
    BY <1>3 DEF Verify, TypeOK, IInv, Answers, Endings
  <2>1. TypeOK'
    BY <1>3, <2>0 DEF Verify, TypeOK, Ask, PipelineStatus, IInv
  <2>2. DoableInv' BY <1>3 DEF Verify, DoableInv, TooLarge, IInv
  <2>3. FreshInv' BY <1>3, <2>0 DEF Verify, FreshInv, Ask, IInv
  <2>4. ScriptInv'
    <3>1. \A q \in asked : q[1] = i => q[2] # "verify"
      BY <1>3 DEF Verify, FreshInv, IInv
    <3>2. CASE flags.verify
      <4>1. PICK e \in Endings("verify") :
                Ask("verify", e) /\ acc' = Column(e, <<"error", i>>)
        BY <1>3, <3>2 DEF Verify, PipelineStatus
      <4>2. Printed(i, "verify")' <=> e \in {"good", "late"}
        BY <1>3, <3>1, <4>1, FirstAnswer DEF Verify
      <4>3. acc' = ErrorColumn(i)' BY <1>3, <4>1, <4>2 DEF Verify, Column, ErrorColumn
      <4>4. QED BY <1>3, <4>3 DEF Verify, ScriptInv, IInv
    <3>3. CASE ~flags.verify
      <4>1. ~Printed(i, "verify") BY <3>1, NotAsked
      <4>2. acc' = ErrorColumn(i)'
        BY <1>3, <3>3, <4>1 DEF Verify, ErrorColumn, Printed
      <4>3. QED BY <1>3, <4>2 DEF Verify, ScriptInv, IInv
    <3>4. QED BY <3>2, <3>3
  <2>5. LinesInv' BY <1>3, LinesStay DEF Verify, PipelineStatus
  <2>6. AsksOnlyDoable'
    BY <1>3 DEF Verify, AsksOnlyDoable, DoableInv, Ask, TooLarge, IInv
  <2>7. QED BY <2>1, <2>2, <2>3, <2>4, <2>5, <2>6 DEF IInv
<1>4. CASE Speed
  <2>0. i \in Indices /\ \A e \in Endings("speed") : <<i, "speed", e>> \in Answers
    BY <1>4 DEF Speed, TypeOK, IInv, Answers, Endings
  <2>1. TypeOK' BY <1>4, <2>0 DEF Speed, TypeOK, Ask, IInv
  <2>2. DoableInv' BY <1>4 DEF Speed, DoableInv, TooLarge, IInv
  <2>3. FreshInv' BY <1>4, <2>0 DEF Speed, FreshInv, Ask, IInv
  <2>4. ScriptInv'
    <3>1. \A q \in asked : q[1] = i => q[2] # "speed"
      BY <1>4 DEF Speed, FreshInv, IInv
    <3>2. CASE flags.speed
      <4>1. PICK e \in Endings("speed") :
                /\ Ask("speed", e)
                /\ e # "hung" => time' = Column(e, <<"time", i>>)
                /\ pc' = IF e = "hung" THEN "waiting" ELSE "accuracy"
        BY <1>4, <3>2 DEF Speed, PipelineStatus
      <4>2. Printed(i, "speed")' <=> e \in {"good", "late"}
        BY <1>4, <3>1, <4>1, FirstAnswer DEF Speed
      <4>3. e # "hung" => time' = TimeColumn(i)'
        BY <1>4, <4>1, <4>2 DEF Speed, Column, TimeColumn
      <4>4. acc' = ErrorColumn(i)'
        BY <1>4, <4>1, AskChanges DEF Speed, ErrorColumn, ScriptInv, IInv
      <4>5. QED BY <1>4, <4>1, <4>3, <4>4 DEF Speed, ScriptInv, IInv
    <3>3. CASE ~flags.speed
      <4>1. ~Printed(i, "speed") BY <3>1, NotAsked
      <4>2. time' = TimeColumn(i)' /\ acc' = ErrorColumn(i)'
        BY <1>4, <3>3, <4>1 DEF Speed, TimeColumn, ErrorColumn, Printed, ScriptInv,
                                IInv
      <4>3. QED BY <1>4, <3>3, <4>2 DEF Speed, ScriptInv, IInv
    <3>4. QED BY <3>2, <3>3
  <2>5. LinesInv' BY <1>4, LinesStay DEF Speed
  <2>6. AsksOnlyDoable'
    BY <1>4 DEF Speed, AsksOnlyDoable, DoableInv, Ask, TooLarge, IInv
  <2>7. QED BY <2>1, <2>2, <2>3, <2>4, <2>5, <2>6 DEF IInv
<1>5. CASE Accuracy
  <2>0. /\ i \in Indices
        /\ \A e \in Endings("accuracy") : <<i, "accuracy", e>> \in Answers
    BY <1>5 DEF Accuracy, TypeOK, IInv, Answers, Endings
  <2>1. TypeOK' BY <1>5, <2>0 DEF Accuracy, TypeOK, Ask, IInv
  <2>2. DoableInv' BY <1>5 DEF Accuracy, DoableInv, TooLarge, IInv
  <2>3. FreshInv' BY <1>5, <2>0 DEF Accuracy, FreshInv, Ask, IInv
  <2>4. ScriptInv'
    <3>1. \A q \in asked : q[1] = i => q[2] # "accuracy"
      BY <1>5 DEF Accuracy, FreshInv, IInv
    <3>2. print' = "yes" <=> (flags.accuracy => List[i].oned)
      BY <1>5 DEF Accuracy, ScriptInv, IInv
    <3>3. CASE flags.accuracy /\ List[i].oned
      <4>1. PICK e \in Endings("accuracy") :
                Ask("accuracy", e) /\ acc' = Column(e, <<"accuracy", i>>)
        BY <1>5, <3>3 DEF Accuracy
      <4>2. Printed(i, "accuracy")' <=> e \in {"good", "late"}
        BY <1>5, <3>1, <4>1, FirstAnswer DEF Accuracy
      <4>3. acc' = AccColumn(i)'
        BY <1>5, <3>3, <4>1, <4>2 DEF Accuracy, Column, AccColumn
      <4>4. time' = TimeColumn(i)'
        BY <1>5, <4>1, AskChanges DEF Accuracy, TimeColumn, ScriptInv, IInv
      <4>5. QED BY <1>5, <3>2, <4>3, <4>4 DEF Accuracy, ScriptInv
    <3>4. CASE ~(flags.accuracy /\ List[i].oned)
      <4>1. print' = "yes" => acc' = AccColumn(i)'
        BY <1>5, <3>2, <3>4 DEF Accuracy, AccColumn, ErrorColumn, Printed, ScriptInv,
                                IInv
      <4>2. time' = TimeColumn(i)'
        BY <1>5, <3>4 DEF Accuracy, TimeColumn, Printed, ScriptInv, IInv
      <4>3. QED BY <1>5, <3>2, <4>1, <4>2 DEF Accuracy, ScriptInv
    <3>5. QED BY <3>3, <3>4
  <2>5. LinesInv' BY <1>5, LinesStay DEF Accuracy
  <2>6. AsksOnlyDoable'
    BY <1>5 DEF Accuracy, AsksOnlyDoable, DoableInv, Ask, TooLarge, IInv
  <2>7. QED BY <2>1, <2>2, <2>3, <2>4, <2>5, <2>6 DEF IInv
<1>6. CASE Echo
  <2>0. i \in Indices /\ i \in can /\ ~TooLarge(i) /\ i \in Int
    BY <1>6 DEF Echo, IInv, TypeOK, DoableInv
  <2>1. TypeOK' BY <1>6 DEF Echo, TypeOK, IInv
  <2>2. DoableInv' BY <1>6 DEF Echo, DoableInv, IInv
  <2>3. FreshInv'
    <3>1. \A q \in asked : q[1] \in Int BY Members
    <3>2. QED BY <1>6, <2>0, <3>1 DEF Echo, FreshInv, IInv
  <2>4. ScriptInv' BY <1>6 DEF Echo, ScriptInv
  <2>5. LinesInv'
    <3>1. /\ \A j : Line(j)' = Line(j) /\ Line(j).problem = j
          /\ \A j : Expected(j)' <=> Expected(j)
          /\ i' = i + 1 /\ exit' = -1 /\ Columns' = Columns
      BY <1>6 DEF Echo, Line, TimeColumn, AccColumn, ErrorColumn, Expected, TooLarge,
                  Printed, Columns
    <3>2. \A a \in DOMAIN out : /\ out[a].problem \in Indices /\ out[a].problem < i
                                /\ Expected(out[a].problem)
                                /\ out[a] = Line(out[a].problem)
      BY Members DEF IInv, LinesInv
    <3>3. CASE print = "yes"
      <4>1. Expected(i) BY <1>6, <2>0, <3>3 DEF Echo, Expected, IInv, ScriptInv
      <4>2. out' = Append(out, Line(i))
        BY <1>6, <3>3 DEF Echo, Line, IInv, ScriptInv
      <4> DEFINE S == [problem : Indices, time : Columns, acc : Columns]
      <4>3. out \in Seq(S) /\ Line(i) \in S
        <5>1. TimeColumn(i) \in Columns /\ AccColumn(i) \in Columns
          BY <2>0 DEF TimeColumn, AccColumn, ErrorColumn, Columns, Empty
        <5>2. QED BY <2>0, <5>1 DEF IInv, LinesInv, Line
      <4>4. S' = S BY <3>1
      <4> HIDE DEF S
      <4>5. /\ out' \in Seq(S') /\ DOMAIN out = 1 .. Len(out) /\ Len(out) \in Nat
            /\ DOMAIN out' = 1 .. Len(out) + 1
            /\ \A a \in DOMAIN out : out'[a] = out[a]
            /\ out'[Len(out) + 1] = Line(i)
        BY <4>2, <4>3, <4>4, OneMore
      <4>6. \A a \in DOMAIN out' : a \in DOMAIN out \/ a = Len(out) + 1 BY <4>5
      <4>7. i \in Int /\ Line(i).problem = i BY <2>0, <3>1
      <4>8. (\A a \in DOMAIN out : /\ out[a] = Line(out[a].problem)
                                   /\ out[a].problem < i
                                   /\ Expected(out[a].problem))'
        BY <3>1, <3>2, <4>1, <4>5, <4>6, <4>7
      <4>9. \A a, b \in DOMAIN out' : a < b => out'[a].problem < out'[b].problem
        <5> SUFFICES ASSUME NEW a \in DOMAIN out', NEW b \in DOMAIN out', a < b
                     PROVE  out'[a].problem < out'[b].problem
          OBVIOUS
        <5>1. a \in DOMAIN out BY <4>5, <4>6
        <5>2. CASE b \in DOMAIN out BY <4>5, <5>1, <5>2 DEF IInv, LinesInv
        <5>3. CASE b = Len(out) + 1 BY <3>2, <4>5, <4>7, <5>1, <5>3
        <5>4. QED BY <4>6, <5>2, <5>3
      <4>10. (\A j \in Indices : j < i /\ Expected(j) =>
                 \E a \in DOMAIN out : out[a].problem = j)'
        <5> SUFFICES ASSUME NEW j \in Indices, j < i + 1, Expected(j)
                     PROVE  \E a \in DOMAIN out' : out'[a].problem = j
          BY <3>1
        <5>1. CASE j = i BY <4>5, <4>7, <5>1
        <5>2. CASE j # i
          <6>1. PICK a \in DOMAIN out : out[a].problem = j
            BY <2>0, <5>2 DEF IInv, LinesInv
          <6>2. QED BY <4>5, <6>1
        <5>3. QED BY <5>1, <5>2
      <4>11. QED BY <3>1, <4>5, <4>8, <4>9, <4>10 DEF LinesInv, S
    <3>4. CASE print # "yes"
      <4>1. ~Expected(i) /\ out' = out
        BY <1>6, <2>0, <3>4 DEF Echo, Expected, IInv, ScriptInv
      <4>2. (\A a \in DOMAIN out : /\ out[a] = Line(out[a].problem)
                                   /\ out[a].problem < i
                                   /\ Expected(out[a].problem))'
        BY <2>0, <3>1, <3>2, <4>1
      <4>3. \A j \in Indices : j < i' /\ Expected(j)' =>
                \E a \in DOMAIN out' : out'[a].problem = j
        BY <2>0, <3>1, <4>1 DEF IInv, LinesInv
      <4>4. QED BY <3>1, <4>1, <4>2, <4>3 DEF IInv, LinesInv
    <3>5. QED BY <3>3, <3>4
  <2>6. AsksOnlyDoable' BY <1>6 DEF Echo, AsksOnlyDoable, TooLarge, IInv
  <2>7. QED BY <2>1, <2>2, <2>3, <2>4, <2>5, <2>6 DEF IInv
<1>7. CASE Finish
  <2>1. TypeOK' BY <1>7 DEF Finish, TypeOK, IInv
  <2>2. DoableInv' /\ FreshInv' /\ AsksOnlyDoable'
    BY <1>7 DEF Finish, DoableInv, FreshInv, AsksOnlyDoable, TooLarge, IInv
  <2>3. ScriptInv' BY <1>7 DEF Finish, ScriptInv
  <2>4. LinesInv'
    BY <1>7 DEF Finish, LinesInv, Line, TimeColumn, ErrorColumn, AccColumn, Printed,
                Columns, Expected, TooLarge, IInv
  <2>5. QED BY <2>1, <2>2, <2>3, <2>4 DEF IInv
<1>8. CASE UNCHANGED vars
  BY <1>8 DEF vars, IInv, TypeOK, DoableInv, FreshInv, ScriptInv, LinesInv,
              AsksOnlyDoable, TooLarge, TimeColumn, ErrorColumn, AccColumn, Printed,
              Columns, Line, Expected
<1>9. QED BY <1>1, <1>2, <1>3, <1>4, <1>5, <1>6, <1>7, <1>8 DEF Next, Program, Stopped

\* The invariant holds in every state of the script.
THEOREM Invariant == Spec => []IInv
<1>1. QED BY Initially, EveryStatement, PTL DEF Spec

\* The variables of the script keep their types, and the problem it is about
\* is one of the list wherever the script looks at it.
THEOREM TypeCorrect == Spec => []TypeOK
<1>1. IInv => TypeOK BY DEF IInv
<1>2. QED BY <1>1, Invariant, PTL

\* The script prints one line for each problem that the program can do, in the
\* order of the list.
THEOREM LinesComplete == Spec => []OneLineEach
<1>1. IInv => OneLineEach
  <2> SUFFICES ASSUME IInv PROVE OneLineEach
    OBVIOUS
  <2>1. exit = 0 => i = Len(List) + 1 BY Listed DEF IInv, TypeOK, LinesInv
  <2>2. exit = 0 => \A j \in Indices : j < i BY <2>1, Listed
  <2>3. QED BY <2>2 DEF IInv, LinesInv, OneLineEach
<1>2. QED BY <1>1, Invariant, PTL

\* A column of a line shows what the program printed in this run about the
\* problem of the line, if it printed anything, and otherwise nothing.
THEOREM ColumnsOwned == Spec => []ColumnsAreOwn
<1>1. IInv => ColumnsAreOwn
  <2> SUFFICES ASSUME IInv, NEW a \in DOMAIN out
               PROVE  /\ out[a].time = TimeColumn(out[a].problem)
                      /\ out[a].acc = AccColumn(out[a].problem)
    BY DEF ColumnsAreOwn, Shows, TimeColumn, AccColumn, ErrorColumn
  <2>1. out[a] = Line(out[a].problem) BY DEF IInv, LinesInv
  <2>2. QED BY <2>1 DEF Line
<1>2. QED BY <1>1, Invariant, PTL

\* The program is asked to compute only what it said it can do and what is not
\* larger than the limits of the command line.
THEOREM QuestionsAllowed == Spec => []AsksOnlyDoable
<1>1. IInv => AsksOnlyDoable BY DEF IInv
<1>2. QED BY <1>1, Invariant, PTL
=============================================================================
