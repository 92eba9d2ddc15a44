----------------------------- MODULE MakeBench -----------------------------
(***************************************************************************)
(* The make targets that build and measure: `make build` and `make run` at *)
(* the top, `make benchmark`, `make accuracy` and `make clean` in a build  *)
(* tree.  A directory that is measured gets a stamp file; the lines of     *)
(* every program are appended to one output file for the whole profile.    *)
(* The user may interrupt any of them at any line of a recipe and start    *)
(* it, or another one, again, and may edit the sources in between.         *)
(*                                                                         *)
(* The lines of a program (BenchDriver) are one element of the file here,  *)
(* and the stamp `benchmark` is that of the kind "speed".                  *)
(***************************************************************************)
EXTENDS Integers, Sequences, SequencesExt

CONSTANTS Dirs,         \* the enabled benchees, in the order of SUBDIRS
          Programs,     \* PRG: in each tree, the programs of each directory
          Precisions,   \* the build trees of the configuration, in order
          Kinds,        \* its kinds of measurement, in order
          MaxCommands   \* bound: how often the user types a command

AllKinds == {"accuracy", "speed"}

\* PRG names no program twice: they are the noinst_PROGRAMS of a Makefile.am.
ASSUME DirsAssumption == /\ Dirs \in Seq(STRING) /\ Precisions \in Seq(STRING)
                         /\ Programs \in [ToSet(Precisions) -> [ToSet(Dirs) -> Seq(STRING)]]
                         /\ \A p \in ToSet(Precisions), d \in ToSet(Dirs) :
                                IsInjective(Programs[p][d])
ASSUME KindsAssumption == Kinds \in Seq(AllKinds)
ASSUME MaxAssumption == MaxCommands \in Nat

VARIABLES builds,      \* <<tree, directory>>: where the programs can be built
          configured,  \* the build trees that have been configured
          stamps,      \* <<tree, kind, directory>>: stamps not older than PRG
          file,        \* for each kind, what is in the output file
          pc, todo,    \* what make does, and the targets it has not looked at
          programs,    \* the programs of the present target that are left
          trees,       \* the build trees `make build` has not come to
          command,     \* history: the last command, or "interrupted"
          messy,       \* history: the targets that may have lines twice
          lost,        \* history: the stamps whose lines have been removed
          typed        \* how many commands have been typed

sources == <<builds, configured>>
output == <<stamps, file, messy, lost>>
make == <<pc, todo, programs, trees>>
user == <<command, typed>>
vars == <<sources, output, make, user>>

Empty == [kind \in AllKinds |-> <<>>]

Places == ToSet(Precisions) \X ToSet(Dirs)

Init == /\ builds \in SUBSET Places
        /\ configured \in SUBSET ToSet(Precisions)
        /\ stamps = {} /\ file = Empty /\ messy = {} /\ lost = {}
        /\ pc = "prompt" /\ todo = <<>> /\ programs = <<>> /\ trees = <<>>
        /\ command = "none" /\ typed = 0

-----------------------------------------------------------------------------
Type(c) == /\ pc = "prompt" /\ typed < MaxCommands
           /\ typed' = typed + 1 /\ command' = c

Start(targets) == /\ pc' = "look" /\ todo' = targets
                  /\ UNCHANGED <<programs, trees>>

\* Stamps go or become older than their programs; the lines remain.
Unstamp(gone) == /\ stamps' = stamps \ gone /\ lost' = lost \ gone
                 /\ messy' = messy \cup (stamps \cap gone)
                 /\ UNCHANGED file

\* The targets of one kind in one build tree, and those of `make run`.
Targets(precision, kind) ==
    [d \in DOMAIN Dirs |-> <<precision, kind, Dirs[d]>>]
RunTargets ==
    FlattenSeq([p \in DOMAIN Precisions |->
        FlattenSeq([k \in DOMAIN Kinds |-> Targets(Precisions[p], Kinds[k])])])

\* make run: one step for each line of its recipe.  (The first one removes the
\* file that fpe.c writes about floating-point exceptions, which is not here.)
Run == /\ Type("run") /\ pc' = "rm accuracy"
       /\ UNCHANGED <<sources, output, todo, programs, trees>>

\* An output file is removed ...
RemoveFile(kind, next) ==
    /\ file' = [file EXCEPT ![kind] = <<>>]
    /\ messy' = {t \in messy : t[2] # kind}
    /\ lost' = lost \cup {s \in stamps : s[2] = kind}
    /\ pc' = next
    /\ UNCHANGED <<sources, stamps, todo, programs, trees, user>>

\* Mutant: the stamps of one build tree only.
StampsOfOneTree(kind) == {s \in stamps : s[2] = kind /\ s[1] = Precisions[1]}

\* ... and later the stamps of its kind, in all build trees.
StampsOf(kind) == {s \in stamps : s[2] = kind}

RemoveStamps(kind) ==
    /\ stamps' = stamps \ StampsOf(kind) /\ lost' = lost \ StampsOf(kind)
    /\ UNCHANGED <<sources, file, messy, user>>

RmAccuracy == pc = "rm accuracy" /\ RemoveFile("accuracy", "rm speed")
RmSpeed == pc = "rm speed" /\ RemoveFile("speed", "find accuracy")
FindAccuracy == /\ pc = "find accuracy" /\ RemoveStamps("accuracy")
                /\ pc' = "find benchmark" /\ UNCHANGED <<todo, programs, trees>>
FindBenchmark == /\ pc = "find benchmark" /\ RemoveStamps("speed")
                 /\ Start(RunTargets)

\* make -k benchmark, make -k accuracy in a build tree.
Make(precision, kind) ==
    /\ Type("make") /\ precision \in configured
    /\ Start(Targets(precision, kind))
    /\ UNCHANGED <<sources, output>>

\* make clean in a build tree removes the stamps and leaves the output file.
Clean(precision) ==
    /\ Type("clean") /\ precision \in configured
    /\ Unstamp({s \in stamps : s[1] = precision})
    /\ UNCHANGED <<sources, make>>

\* The user changes the sources of a directory: its programs may build or not,
\* and those that do are newer than the stamps when make comes to them.
Edit(dir) == /\ Type("edit")
             /\ \E some \in SUBSET (ToSet(Precisions) \X {dir}) :
                    builds' = {b \in builds : b[2] # dir} \cup some
             /\ Unstamp({s \in stamps : s[3] = dir})
             /\ UNCHANGED <<configured, make>>

-----------------------------------------------------------------------------
\* make build: each build tree of the configuration is emptied ...
Build == /\ Type("build") /\ pc' = "build" /\ trees' = Precisions
         /\ UNCHANGED <<sources, output, todo, programs>>

EmptyTree == /\ pc = "build" /\ trees # <<>>
             /\ configured' = configured \ {Head(trees)}
             /\ Unstamp({s \in stamps : s[1] = Head(trees)})
             /\ pc' = "configure"
             /\ UNCHANGED <<builds, todo, programs, trees, user>>

\* ... configured, and its programs are built (make -k fftinfo).  If some do
\* not build, the line of the recipe fails and the next tree is not come to.
Configure == /\ pc = "configure"
             /\ configured' = configured \cup {Head(trees)}
             /\ trees' = IF {Head(trees)} \X ToSet(Dirs) \subseteq builds
                         THEN Tail(trees) ELSE <<>>
             /\ pc' = "build"
             /\ UNCHANGED <<builds, output, todo, programs, user>>

-----------------------------------------------------------------------------
Target == Head(todo)

\* Mutant: the recipe does not depend on the stamp.
SkippedUnbuilt == \/ Target[1] \notin configured
                  \/ <<Target[1], Target[3]>> \notin builds

\* The recipe of the target is not run: there is no such build tree, its stamp
\* is newer than its programs, or (make -k) they do not build.
Skipped == \/ Target[1] \notin configured
           \/ Target \in stamps
           \/ <<Target[1], Target[3]>> \notin builds

Look == /\ pc = "look" /\ todo # <<>>
        /\ IF Skipped
           THEN todo' = Tail(todo) /\ UNCHANGED <<pc, programs>>
           ELSE /\ pc' = "measure" /\ programs' = Programs[Target[1]][Target[3]]
                /\ UNCHANGED todo
        /\ UNCHANGED <<sources, output, trees, user>>

\* $(BENCHMARK) ... | tee -a $(OUTPUT_FOLDER)/$(TEST_PROFILE_NAME).<kind>
Measure ==
    /\ pc = "measure" /\ programs # <<>>
    /\ file' = [file EXCEPT ![Target[2]] =
                    Append(@, <<Target[1], Target[3], Head(programs)>>)]
    /\ programs' = Tail(programs)
    /\ UNCHANGED <<sources, stamps, messy, lost, pc, todo, trees, user>>

\* Mutant: the stamp is written after the first program.
StampEarly == /\ pc = "measure" /\ Len(programs) < 2
              /\ stamps' = stamps \cup {Target}
              /\ pc' = "look" /\ todo' = Tail(todo) /\ programs' = <<>>
              /\ UNCHANGED <<sources, file, messy, lost, trees, user>>

\* echo done >$@
Stamp == /\ pc = "measure" /\ programs = <<>>
         /\ stamps' = stamps \cup {Target}
         /\ pc' = "look" /\ todo' = Tail(todo)
         /\ UNCHANGED <<sources, file, messy, lost, programs, trees, user>>

\* All targets have been looked at, or all trees built.
Return == /\ \/ pc = "look" /\ todo = <<>>
             \/ pc = "build" /\ trees = <<>>
          /\ pc' = "prompt"
          /\ UNCHANGED <<sources, output, todo, programs, trees, user>>

\* The user interrupts make, perhaps when lines have been appended for which
\* there will be no stamp.
Interrupt == /\ pc # "prompt"
             /\ messy' = messy \cup (IF pc = "measure" THEN {Target} ELSE {})
             /\ command' = "interrupted"
             /\ pc' = "prompt" /\ todo' = <<>> /\ programs' = <<>> /\ trees' = <<>>
             /\ UNCHANGED <<sources, stamps, file, lost, typed>>

Finished == pc = "prompt" /\ typed = MaxCommands /\ UNCHANGED vars

Next == \/ Run \/ RmAccuracy \/ RmSpeed \/ FindAccuracy \/ FindBenchmark
        \/ Build \/ EmptyTree \/ Configure
        \/ Look \/ Measure \/ Stamp \/ Return \/ Interrupt \/ Finished
        \/ \E p \in ToSet(Precisions) : Clean(p) \/ \E k \in AllKinds : Make(p, k)
        \/ \E d \in ToSet(Dirs) : Edit(d)
Spec == Init /\ [][Next]_vars

-----------------------------------------------------------------------------
LinesOf(precision, dir) ==
    {<<precision, dir, Programs[precision][dir][n]>> :
        n \in DOMAIN Programs[precision][dir]}

\* All that `make run` can measure.
RunLines(kind) ==
    IF kind \notin ToSet(Kinds) THEN {}
    ELSE UNION {LinesOf(b[1], b[2]) : b \in {b \in builds : b[1] \in configured}}

\* After an uninterrupted `make run` the output files hold the lines of every
\* program that builds once, for every build tree and kind there is, and no
\* others, whatever was made, built, edited, interrupted or cleaned before it.
RunMeasuresAllOnce ==
    (pc = "prompt" /\ command = "run") =>
        \A kind \in AllKinds :
            /\ IsInjective(file[kind])
            /\ ToSet(file[kind]) = RunLines(kind)

\* Making a target again does not measure again: a line comes twice only when
\* its own directory, in its own build tree, was interrupted in the middle or
\* lost its stamp to an edit, make clean or make build since the last make run.
NoLineTwice ==
    \A kind \in AllKinds : \A i, j \in DOMAIN file[kind] :
        (i # j /\ file[kind][i] = file[kind][j]) =>
            <<file[kind][i][1], kind, file[kind][i][2]>> \in messy

\* A directory with a stamp has been measured completely, and its lines are
\* in the output file, unless a make run has removed the file and was
\* interrupted before it removed the stamp.
StampsAreTrue ==
    \A s \in stamps \ lost : LinesOf(s[1], s[3]) \subseteq ToSet(file[s[2]])
=============================================================================
