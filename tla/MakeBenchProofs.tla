-------------------------- MODULE MakeBenchProofs --------------------------
(***************************************************************************)
(* What the stamp files and the output files of the make targets say of    *)
(* each other, for all directories, programs, build trees and kinds, and   *)
(* however often the user types a command or interrupts one.               *)
(***************************************************************************)
EXTENDS MakeBench, FiniteSets, WellFoundedInduction, TLAPS

AllPrograms == UNION {ToSet(Programs[p][d]) : p \in ToSet(Precisions), d \in ToSet(Dirs)}
AllTargets == ToSet(Precisions) \X AllKinds \X ToSet(Dirs)
AllLines == ToSet(Precisions) \X ToSet(Dirs) \X AllPrograms

TypeInv == /\ builds \subseteq Places /\ configured \subseteq ToSet(Precisions)
           /\ stamps \subseteq AllTargets /\ messy \subseteq AllTargets
           /\ lost \subseteq stamps
           /\ file \in [AllKinds -> Seq(AllLines)]
           /\ todo \in Seq(AllTargets) /\ programs \in Seq(AllPrograms)
           /\ trees \in Seq(ToSet(Precisions)) /\ (pc = "configure" => trees # <<>>)

\* The directory that is being measured has no stamp, and the programs that
\* have been run are those before the ones that are left.
Number == Len(Programs[Target[1]][Target[3]]) - Len(programs)
MeasuringInv ==
    pc = "measure" =>
        /\ todo # <<>> /\ ~Skipped
        /\ Number \in Nat
        /\ \A n \in DOMAIN programs : programs[n] = Programs[Target[1]][Target[3]][Number + n]
        /\ \A n \in 1 .. Number : <<Target[1], Target[3], Programs[Target[1]][Target[3]][n]>>
                                      \in ToSet(file[Target[2]])

\* Each line is one of its program; where no line may come twice it belongs to
\* a directory with a stamp or to the one that is being measured, and not to a
\* program still to be run.
Accounted(l, kind) ==
    \/ <<l[1], kind, l[2]>> \in stamps
    \/ <<l[1], kind, l[2]>> \in messy
    \/ /\ pc = "measure" /\ Target = <<l[1], kind, l[2]>>
       /\ \A n \in DOMAIN programs : programs[n] # l[3]
LinesInv ==
    \A kind \in AllKinds : \A l \in ToSet(file[kind]) :
        l \in LinesOf(l[1], l[2]) /\ Accounted(l, kind)

\* make run removes files and stamps line by line ...
RemovedInv ==
    /\ pc \in {"rm speed", "find accuracy", "find benchmark"} =>
           file["accuracy"] = <<>> /\ \A t \in messy : t[2] # "accuracy"
    /\ pc \in {"find accuracy", "find benchmark"} =>
           file["speed"] = <<>> /\ \A t \in messy : t[2] # "speed"
    /\ pc = "find benchmark" => \A s \in stamps : s[2] # "accuracy"

\* ... until nothing is left of what was there before; then each target that
\* can be built is done or still to be looked at.
Wanted == {t \in configured \X ToSet(Kinds) \X ToSet(Dirs) : <<t[1], t[3]>> \in builds}
RunInv ==
    /\ pc \in {"build", "configure"} => command # "run"
    /\ command = "run" /\ pc \in {"look", "measure", "prompt"} =>
        /\ messy = {} /\ lost = {}
        /\ stamps \subseteq Wanted
        /\ ToSet(todo) \subseteq ToSet(Precisions) \X ToSet(Kinds) \X ToSet(Dirs)
        /\ Wanted \subseteq stamps \cup ToSet(todo)
        /\ pc = "prompt" => todo = <<>>

IInv == /\ TypeInv /\ MeasuringInv /\ LinesInv /\ NoLineTwice /\ StampsAreTrue
        /\ RemovedInv /\ RunInv
-----------------------------------------------------------------------------
\* Induction over the natural numbers, with a set for the statement.
LEMMA Induction ==
    ASSUME NEW G, G \subseteq Nat, 0 \in G, \A n \in G : n + 1 \in G
    PROVE  G = Nat
<1> DEFINE R == OpToRel(<, Nat)
           T == Nat \ G
<1>1. IsWellFoundedOn(R, Nat) BY NatLessThanWellFounded
<1>2. \A x, y \in Nat : <<x, y>> \in R <=> x < y BY DEF OpToRel
<1> HIDE DEF R
<1>3. SUFFICES ASSUME T # {} PROVE FALSE
  OBVIOUS
<1>4. PICK m \in T : \A y \in T : <<y, m>> \notin R BY <1>1, <1>3, WFMin
<1>5. m \in Nat /\ m # 0 /\ m \notin G OBVIOUS
<1>6. m - 1 \in Nat /\ m - 1 < m BY <1>5
<1>7. m - 1 \in G BY <1>2, <1>4, <1>5, <1>6
<1>8. (m - 1) + 1 = m BY <1>5
<1>9. QED BY <1>5, <1>7, <1>8

\* Sequences and the sets of their elements.
LEMMA Elements ==
    ASSUME NEW S, NEW s \in Seq(S)
    PROVE  /\ Len(s) \in Nat /\ DOMAIN s = 1 .. Len(s)
           /\ \A n \in DOMAIN s : s[n] \in S
           /\ \A x : x \in ToSet(s) <=> \E n \in DOMAIN s : s[n] = x
           /\ ToSet(s) \subseteq S
BY DEF ToSet

\* The empty sequence.
LEMMA NoElements ==
    ToSet(<<>>) = {} /\ DOMAIN <<>> = {} /\ \A S : <<>> \in Seq(S)
<1>1. \A S : <<>> \in Seq(S) OBVIOUS
<1>2. QED BY <1>1 DEF ToSet

\* What Head and Tail take from a sequence that is not empty.
LEMMA HeadAndTail ==
    ASSUME NEW S, NEW s \in Seq(S), s # <<>>
    PROVE  /\ Head(s) \in S /\ Tail(s) \in Seq(S) /\ Head(s) = s[1]
           /\ Len(s) \in Nat \ {0} /\ Len(Tail(s)) = Len(s) - 1
           /\ DOMAIN s = 1 .. Len(s) /\ DOMAIN Tail(s) = 1 .. Len(s) - 1
           /\ \A n \in DOMAIN Tail(s) : Tail(s)[n] = s[n + 1]
           /\ ToSet(s) = {Head(s)} \cup ToSet(Tail(s))
<1>1. /\ Head(s) \in S /\ Tail(s) \in Seq(S) /\ Head(s) = s[1]
      /\ Len(s) \in Nat \ {0} /\ Len(Tail(s)) = Len(s) - 1
      /\ DOMAIN s = 1 .. Len(s) /\ DOMAIN Tail(s) = 1 .. Len(s) - 1
      /\ \A n \in DOMAIN Tail(s) : Tail(s)[n] = s[n + 1]
  OBVIOUS
<1>2. ASSUME NEW n \in DOMAIN s PROVE n = 1 \/ n - 1 \in DOMAIN Tail(s)
  BY <1>1
<1>3. \A n \in DOMAIN s : s[n] = Head(s) \/ s[n] \in ToSet(Tail(s))
  <2> TAKE n \in DOMAIN s
  <2>1. CASE n = 1 BY <1>1, <2>1
  <2>2. CASE n - 1 \in DOMAIN Tail(s)
    <3>1. Tail(s)[n - 1] = s[n] BY <1>1, <2>2
    <3>2. QED BY <2>2, <3>1 DEF ToSet
  <2>3. QED BY <1>2, <2>1, <2>2
<1>4. \A n \in DOMAIN Tail(s) : Tail(s)[n] \in ToSet(s)
  BY <1>1 DEF ToSet
<1>5. Head(s) \in ToSet(s) BY <1>1 DEF ToSet
<1>6. QED BY <1>1, <1>3, <1>4, <1>5 DEF ToSet

\* What Append adds to a sequence, and where an element can then come twice.
LEMMA OneMore ==
    ASSUME NEW S, NEW s \in Seq(S), NEW x \in S
    PROVE  /\ Append(s, x) \in Seq(S) /\ ToSet(Append(s, x)) = ToSet(s) \cup {x}
           /\ \A i, j \in DOMAIN Append(s, x) :
                  i # j /\ Append(s, x)[i] = Append(s, x)[j] =>
                      \/ /\ i \in DOMAIN s /\ j \in DOMAIN s
                         /\ Append(s, x)[i] = s[i] /\ s[i] = s[j]
                      \/ Append(s, x)[i] = x /\ x \in ToSet(s)
<1>1. /\ Append(s, x) \in Seq(S) /\ Len(s) \in Nat /\ DOMAIN s = 1 .. Len(s)
      /\ DOMAIN Append(s, x) = 1 .. Len(s) + 1
      /\ \A n \in DOMAIN s : Append(s, x)[n] = s[n]
      /\ Append(s, x)[Len(s) + 1] = x
  OBVIOUS
<1>2. \A n \in DOMAIN Append(s, x) : n \in DOMAIN s \/ n = Len(s) + 1 BY <1>1
<1>3. ToSet(Append(s, x)) = ToSet(s) \cup {x} BY <1>1, <1>2 DEF ToSet
<1>4. \A n \in DOMAIN s : s[n] \in ToSet(s) BY DEF ToSet
<1>5. ASSUME NEW i \in DOMAIN Append(s, x), NEW j \in DOMAIN Append(s, x),
             i # j, Append(s, x)[i] = Append(s, x)[j]
      PROVE  \/ /\ i \in DOMAIN s /\ j \in DOMAIN s
                /\ Append(s, x)[i] = s[i] /\ s[i] = s[j]
             \/ Append(s, x)[i] = x /\ x \in ToSet(s)
  <2>1. CASE i \in DOMAIN s /\ j \in DOMAIN s BY <1>1, <1>5, <2>1
  <2>2. CASE i \in DOMAIN s /\ j = Len(s) + 1 BY <1>1, <1>4, <1>5, <2>2
  <2>3. CASE i = Len(s) + 1 /\ j \in DOMAIN s BY <1>1, <1>4, <1>5, <2>3
  <2>4. QED BY <1>2, <1>5, <2>1, <2>2, <2>3
<1>6. QED BY <1>1, <1>3, <1>5

\* The elements of two sequences one after the other.
LEMMA TwoParts ==
    ASSUME NEW S, NEW s \in Seq(S), NEW t \in Seq(S)
    PROVE  s \o t \in Seq(S) /\ ToSet(s \o t) = ToSet(s) \cup ToSet(t)
<1>1. /\ DOMAIN s = 1 .. Len(s) /\ Len(s) \in Nat /\ s \o t \in Seq(S)
      /\ DOMAIN t = 1 .. Len(t) /\ Len(t) \in Nat
      /\ DOMAIN (s \o t) = 1 .. Len(s) + Len(t)
  OBVIOUS
<1>2. \A i \in DOMAIN (s \o t) : (s \o t)[i] = IF i <= Len(s) THEN s[i] ELSE t[i - Len(s)]
  BY <1>1
<1>3. \A i \in DOMAIN s : i \in DOMAIN (s \o t) /\ (s \o t)[i] = s[i]
  BY <1>1, <1>2
<1>4. \A i \in DOMAIN t : /\ Len(s) + i \in DOMAIN (s \o t)
                          /\ (s \o t)[Len(s) + i] = t[i]
  BY <1>1, <1>2
<1>5. ToSet(s \o t) \subseteq ToSet(s) \cup ToSet(t) BY <1>1, <1>2 DEF ToSet
<1>6. ToSet(s) \subseteq ToSet(s \o t) BY <1>3 DEF ToSet
<1>7. ToSet(t) \subseteq ToSet(s \o t) BY <1>4 DEF ToSet
<1>8. QED BY <1>1, <1>5, <1>6, <1>7

\* FlattenSeq is defined by recursion over the length; by induction there is
\* a function that satisfies its equation ...
LEMMA Flattened ==
    ASSUME NEW s, NEW n \in Nat
    PROVE  \E f : f = [i \in 1 .. n |-> IF i = 1 THEN s[i] ELSE f[i - 1] \o s[i]]
<1> DEFINE Solves(f, m) == f = [i \in 1 .. m |-> IF i = 1 THEN s[i] ELSE f[i - 1] \o s[i]]
           G == {m \in Nat : \E f : Solves(f, m)}
<1>1. 0 \in G
  <2>1. Solves([i \in 1 .. 0 |-> {}], 0) OBVIOUS
  <2>2. QED BY <2>1
<1>2. ASSUME NEW m \in G PROVE m + 1 \in G
  <2>1. PICK f : Solves(f, m) OBVIOUS
  <2> DEFINE g == [i \in 1 .. m + 1 |-> IF i = 1 THEN s[i] ELSE f[i - 1] \o s[i]]
  <2>2. \A i \in 1 .. m : f[i] = IF i = 1 THEN s[i] ELSE f[i - 1] \o s[i]
    BY <2>1
  <2>3. \A i \in 1 .. m + 1 : g[i] = IF i = 1 THEN s[i] ELSE f[i - 1] \o s[i]
    OBVIOUS
  <2>4. \A i \in 1 .. m : i \in 1 .. m + 1 BY <1>2
  <2>5. \A i \in 1 .. m : g[i] = f[i] BY <2>2, <2>3, <2>4
  <2>6. \A i \in 1 .. m + 1 : i # 1 => i - 1 \in 1 .. m BY <1>2
  <2>7. \A i \in 1 .. m + 1 : i # 1 => g[i - 1] = f[i - 1] BY <2>5, <2>6
  <2>8. g = [i \in 1 .. m + 1 |-> IF i = 1 THEN s[i] ELSE g[i - 1] \o s[i]]
    BY <2>7
  <2> HIDE DEF g
  <2>9. \E h : Solves(h, m + 1) BY <2>8
  <2>10. m + 1 \in Nat BY <1>2
  <2> HIDE DEF Solves
  <2>11. QED BY <2>9, <2>10
<1> HIDE DEF G
<1>3. G \subseteq Nat BY DEF G
<1>4. G = Nat BY <1>1, <1>2, <1>3, Induction
<1>5. n \in G BY <1>4
<1>6. QED BY <1>5 DEF G

\* ... and the result has the elements of all the parts.
LEMMA FlattenAll ==
    ASSUME NEW S, NEW s \in Seq(Seq(S))
    PROVE  /\ FlattenSeq(s) \in Seq(S)
           /\ \A x : x \in ToSet(FlattenSeq(s)) <=> \E i \in DOMAIN s : x \in ToSet(s[i])
<1>0. Len(s) \in Nat /\ DOMAIN s = 1 .. Len(s) /\ \A i \in DOMAIN s : s[i] \in Seq(S)
  OBVIOUS
<1>1. CASE Len(s) = 0
  <2>1. s = <<>> /\ FlattenSeq(s) = s BY <1>1 DEF FlattenSeq
  <2>2. <<>> \in Seq(S) /\ ToSet(<<>>) = {} BY DEF ToSet
  <2>3. FlattenSeq(s) \in Seq(S) /\ ToSet(FlattenSeq(s)) = {} BY <2>1, <2>2
  <2>4. DOMAIN s = {} BY <1>0, <1>1
  <2>5. QED BY <2>3, <2>4
<1>2. CASE Len(s) # 0
  <2> DEFINE f == CHOOSE g : g = [i \in 1 .. Len(s) |->
                                     IF i = 1 THEN s[i] ELSE g[i - 1] \o s[i]]
             Good(n) == n \in 1 .. Len(s) =>
                          /\ f[n] \in Seq(S)
                          /\ \A x : x \in ToSet(f[n]) <=> \E i \in 1 .. n : x \in ToSet(s[i])
             G == {n \in Nat : Good(n)}
  <2>1. f = [i \in 1 .. Len(s) |-> IF i = 1 THEN s[i] ELSE f[i - 1] \o s[i]]
    BY <1>0, Flattened
  <2>8. \A i \in 1 .. Len(s) : f[i] = IF i = 1 THEN s[i] ELSE f[i - 1] \o s[i]
    BY <2>1
  <2>2. FlattenSeq(s) = f[Len(s)] BY <1>2, Zenon DEF FlattenSeq
  <2> HIDE DEF f
  <2>3. 0 \in G OBVIOUS
  <2>4. ASSUME NEW n \in G PROVE n + 1 \in G
    <3> SUFFICES ASSUME n + 1 \in 1 .. Len(s) PROVE Good(n + 1)
      OBVIOUS
    <3>1. CASE n = 0
      <4>1. f[1] = s[1] BY <1>0, <1>2, <2>8
      <4>2. QED BY <1>0, <3>1, <4>1
    <3>2. CASE n # 0
      <4>1. f[n + 1] = f[n] \o s[n + 1]
        <5>1. n + 1 \in 1 .. Len(s) /\ n + 1 # 1 /\ (n + 1) - 1 = n BY <3>2
        <5>2. QED BY <2>8, <5>1
      <4>2. Good(n) /\ n \in 1 .. Len(s) BY <1>0, <3>2
      <4>3. f[n] \in Seq(S) /\ s[n + 1] \in Seq(S) BY <1>0, <4>2
      <4>4. /\ f[n + 1] \in Seq(S)
            /\ ToSet(f[n + 1]) = ToSet(f[n]) \cup ToSet(s[n + 1])
        BY <4>1, <4>3, TwoParts
      <4>5. \A x : (\E i \in 1 .. n + 1 : x \in ToSet(s[i])) <=>
                       (\E i \in 1 .. n : x \in ToSet(s[i])) \/ x \in ToSet(s[n + 1])
        OBVIOUS
      <4>6. QED BY <4>2, <4>4, <4>5
    <3>3. QED BY <3>1, <3>2
  <2>5. G = Nat
    <3> HIDE DEF G
    <3>1. G \subseteq Nat BY DEF G
    <3>2. QED BY <2>3, <2>4, <3>1, Induction
  <2>6. Good(Len(s)) BY <1>0, <2>5
  <2>7. Len(s) \in 1 .. Len(s) BY <1>0, <1>2
  <2>9. QED BY <1>0, <2>2, <2>6, <2>7
<1>3. QED BY <1>0, <1>1, <1>2

-----------------------------------------------------------------------------
\* The constants are sequences of what they should be.
LEMMA Constants ==
    /\ Dirs \in Seq(ToSet(Dirs)) /\ Precisions \in Seq(ToSet(Precisions))
    /\ Kinds \in Seq(AllKinds) /\ ToSet(Kinds) \subseteq AllKinds
    /\ \A p \in ToSet(Precisions), d \in ToSet(Dirs) :
           /\ IsInjective(Programs[p][d])
           /\ ToSet(Programs[p][d]) \subseteq AllPrograms
           /\ Programs[p][d] \in Seq(AllPrograms)
<1>1. ASSUME NEW S, NEW s \in Seq(S), NEW T, ToSet(s) \subseteq T PROVE s \in Seq(T)
  <2>1. Len(s) \in Nat /\ s = [i \in 1 .. Len(s) |-> s[i]] OBVIOUS
  <2>2. \A i \in 1 .. Len(s) : s[i] \in T BY <1>1 DEF ToSet
  <2>3. QED BY <2>1, <2>2
<1>2. ASSUME NEW p \in ToSet(Precisions), NEW d \in ToSet(Dirs)
      PROVE  Programs[p][d] \in Seq(STRING)
  BY <1>2, DirsAssumption
<1>3. \A p \in ToSet(Precisions), d \in ToSet(Dirs) : ToSet(Programs[p][d]) \subseteq AllPrograms
  BY DEF AllPrograms
<1>4. Dirs \in Seq(ToSet(Dirs)) /\ Precisions \in Seq(ToSet(Precisions))
  BY <1>1, DirsAssumption
<1>5. Kinds \in Seq(AllKinds) /\ ToSet(Kinds) \subseteq AllKinds
  BY KindsAssumption, Elements
<1>6. \A p \in ToSet(Precisions), d \in ToSet(Dirs) : Programs[p][d] \in Seq(AllPrograms)
  BY <1>1, <1>2, <1>3
<1>7. QED BY <1>3, <1>4, <1>5, <1>6, DirsAssumption

\* make benchmark goes through all directories, make run through all kinds and
\* all build trees as well.
LEMMA TargetsAll ==
    ASSUME NEW p \in ToSet(Precisions), NEW kind \in AllKinds
    PROVE  /\ Targets(p, kind) \in Seq(AllTargets)
           /\ ToSet(Targets(p, kind)) = {<<p, kind, d>> : d \in ToSet(Dirs)}
<1>1. Len(Dirs) \in Nat /\ DOMAIN Dirs = 1 .. Len(Dirs) BY Constants, Elements
<1>2. \A i \in DOMAIN Dirs : <<p, kind, Dirs[i]>> \in AllTargets
  BY DEF AllTargets, ToSet
<1>3. Targets(p, kind) \in Seq(AllTargets) BY <1>1, <1>2 DEF Targets
<1>4. ToSet(Targets(p, kind)) = {<<p, kind, d>> : d \in ToSet(Dirs)}
  BY DEF Targets, ToSet
<1>5. QED BY <1>3, <1>4

\* make run goes through every build tree, kind and directory, and through
\* nothing else.
LEMMA RunTargetsAll ==
    /\ RunTargets \in Seq(AllTargets)
    /\ ToSet(RunTargets) = ToSet(Precisions) \X ToSet(Kinds) \X ToSet(Dirs)
<1> DEFINE OfKind(p) == [k \in DOMAIN Kinds |-> Targets(Precisions[p], Kinds[k])]
           OfTree == [p \in DOMAIN Precisions |-> FlattenSeq(OfKind(p))]
<1>1. /\ \A p \in DOMAIN Precisions : Precisions[p] \in ToSet(Precisions)
      /\ \A k \in DOMAIN Kinds : Kinds[k] \in AllKinds /\ Kinds[k] \in ToSet(Kinds)
  BY Constants DEF ToSet
<1>2. ASSUME NEW p \in DOMAIN Precisions
      PROVE  /\ FlattenSeq(OfKind(p)) \in Seq(AllTargets)
             /\ \A x : x \in ToSet(FlattenSeq(OfKind(p))) <=>
                           \E k \in DOMAIN Kinds : x \in ToSet(Targets(Precisions[p], Kinds[k]))
  <2>1. Len(Kinds) \in Nat /\ DOMAIN Kinds = 1 .. Len(Kinds) BY Constants, Elements
  <2>2. \A k \in DOMAIN Kinds : Targets(Precisions[p], Kinds[k]) \in Seq(AllTargets)
    BY <1>1, TargetsAll
  <2>3. OfKind(p) \in Seq(Seq(AllTargets)) /\ DOMAIN OfKind(p) = DOMAIN Kinds
    BY <2>1, <2>2
  <2>4. \A k \in DOMAIN Kinds : OfKind(p)[k] = Targets(Precisions[p], Kinds[k])
    OBVIOUS
  <2> HIDE DEF OfKind
  <2>5. QED BY <2>3, <2>4, FlattenAll
<1>3. /\ OfTree \in Seq(Seq(AllTargets)) /\ DOMAIN OfTree = DOMAIN Precisions
      /\ \A p \in DOMAIN Precisions : OfTree[p] = FlattenSeq(OfKind(p))
  <2>1. Len(Precisions) \in Nat /\ DOMAIN Precisions = 1 .. Len(Precisions)
    BY Constants, Elements
  <2> HIDE DEF OfKind
  <2>2. QED BY <1>2, <2>1
<1>4. RunTargets = FlattenSeq(OfTree) BY DEF RunTargets
<1> HIDE DEF OfTree, OfKind
<1>5. /\ RunTargets \in Seq(AllTargets)
      /\ \A x : x \in ToSet(RunTargets) <=>
                    \E p \in DOMAIN Precisions : x \in ToSet(OfTree[p])
  BY <1>3, <1>4, FlattenAll
<1>6. ASSUME NEW x
      PROVE  x \in ToSet(RunTargets) <=>
                 \E p \in DOMAIN Precisions, k \in DOMAIN Kinds, d \in ToSet(Dirs) :
                     x = <<Precisions[p], Kinds[k], d>>
  <2>1. x \in ToSet(RunTargets) <=>
            \E p \in DOMAIN Precisions, k \in DOMAIN Kinds :
                x \in ToSet(Targets(Precisions[p], Kinds[k]))
    BY <1>2, <1>3, <1>5
  <2>2. \A p \in DOMAIN Precisions, k \in DOMAIN Kinds :
            x \in ToSet(Targets(Precisions[p], Kinds[k])) <=>
                \E d \in ToSet(Dirs) : x = <<Precisions[p], Kinds[k], d>>
    BY <1>1, TargetsAll
  <2>3. QED BY <2>1, <2>2
<1>7. \A x : x \in ToSet(Precisions) \X ToSet(Kinds) \X ToSet(Dirs) <=>
                 \E p \in DOMAIN Precisions, k \in DOMAIN Kinds, d \in ToSet(Dirs) :
                     x = <<Precisions[p], Kinds[k], d>>
  BY DEF ToSet
<1>8. QED BY <1>5, <1>6, <1>7

-----------------------------------------------------------------------------
\* The target make looks at is one of all targets.
LEMMA TargetTyped ==
    ASSUME TypeInv, todo # <<>>
    PROVE  /\ Target \in AllTargets /\ Target = <<Target[1], Target[2], Target[3]>>
           /\ Target[1] \in ToSet(Precisions) /\ Target[2] \in AllKinds
           /\ Target[3] \in ToSet(Dirs)
           /\ Tail(todo) \in Seq(AllTargets)
           /\ ToSet(todo) = {Target} \cup ToSet(Tail(todo))
<1>1. Target \in AllTargets /\ Tail(todo) \in Seq(AllTargets)
  BY HeadAndTail DEF TypeInv, Target
<1>2. ToSet(todo) = {Target} \cup ToSet(Tail(todo))
  BY HeadAndTail DEF TypeInv, Target
<1>3. QED BY <1>1, <1>2 DEF AllTargets

\* Before the first command there are neither stamps nor lines.
LEMMA Initially == Init => IInv
<1> SUFFICES ASSUME Init PROVE IInv
  OBVIOUS
<1>0. \A kind \in AllKinds : file[kind] = <<>> /\ ToSet(file[kind]) = {}
  BY DEF Init, Empty, ToSet
<1>1. TypeInv BY DEF Init, TypeInv, Empty
<1>2. MeasuringInv BY DEF Init, MeasuringInv
<1>3. LinesInv BY <1>0 DEF LinesInv
<1>4. NoLineTwice BY <1>0 DEF NoLineTwice
<1>5. StampsAreTrue BY DEF Init, StampsAreTrue
<1>6. RemovedInv /\ RunInv BY DEF Init, RemovedInv, RunInv
<1>7. QED BY <1>1, <1>2, <1>3, <1>4, <1>5, <1>6 DEF IInv

\* A step that is not one of the measuring ones, and leaves the stamps and the
\* lines as they are.
LEMMA OutputUnchanged ==
    ASSUME IInv, UNCHANGED output, pc # "measure"
    PROVE  LinesInv' /\ NoLineTwice' /\ StampsAreTrue'
<1> USE DEF output
<1>1. \A l, kind : Accounted(l, kind) => Accounted(l, kind)' BY DEF Accounted
<1>2. LinesInv' BY <1>1 DEF IInv, LinesInv
<1>3. NoLineTwice' /\ StampsAreTrue' BY DEF IInv, NoLineTwice, StampsAreTrue
<1>4. QED BY <1>2, <1>3

\* Where a stamp goes, its lines stay and its target becomes messy.
LEMMA UnstampKeeps ==
    ASSUME IInv, NEW gone, Unstamp(gone), pc # "measure"
    PROVE  /\ stamps' \subseteq AllTargets /\ messy' \subseteq AllTargets
           /\ lost' \subseteq stamps' /\ file' = file
           /\ LinesInv' /\ NoLineTwice' /\ StampsAreTrue'
<1> USE DEF Unstamp
<1>1. /\ stamps' \subseteq AllTargets /\ messy' \subseteq AllTargets
      /\ lost' \subseteq stamps' /\ file' = file
  BY DEF IInv, TypeInv
<1>2. \A l, kind : Accounted(l, kind) => Accounted(l, kind)' BY DEF Accounted
<1>3. LinesInv' BY <1>2 DEF IInv, LinesInv
<1>4. NoLineTwice' BY DEF IInv, NoLineTwice
<1>5. StampsAreTrue' BY DEF IInv, StampsAreTrue
<1>6. QED BY <1>1, <1>3, <1>4, <1>5

\* make run and make build are typed.
LEMMA StartKeeps == ASSUME IInv, Run \/ Build PROVE IInv'
<1> USE DEF Run, Build, Type
<1>1. TypeInv' BY Constants DEF IInv, TypeInv, output, sources
<1>2. MeasuringInv' BY DEF MeasuringInv
<1>3. LinesInv' /\ NoLineTwice' /\ StampsAreTrue' BY OutputUnchanged
<1>4. RemovedInv' /\ RunInv' BY DEF RemovedInv, RunInv
<1>5. QED BY <1>1, <1>2, <1>3, <1>4 DEF IInv

\* make run removes an output file.
LEMMA RemoveFileKeeps == ASSUME IInv, RmAccuracy \/ RmSpeed PROVE IInv'
<1>1. PICK kind \in AllKinds, next \in {"rm speed", "find accuracy"} :
          /\ RemoveFile(kind, next)
          /\ \/ pc = "rm accuracy" /\ kind = "accuracy" /\ next = "rm speed"
             \/ pc = "rm speed" /\ kind = "speed" /\ next = "find accuracy"
  BY DEF RmAccuracy, RmSpeed, AllKinds
<1> USE DEF RemoveFile
<1>2. /\ file'[kind] = <<>> /\ file' \in [AllKinds -> Seq(AllLines)]
      /\ \A k \in AllKinds \ {kind} : file'[k] = file[k]
  <2>1. file' = [file EXCEPT ![kind] = <<>>] BY <1>1
  <2>2. file \in [AllKinds -> Seq(AllLines)] BY DEF IInv, TypeInv
  <2>3. <<>> \in Seq(AllLines) BY NoElements, Zenon
  <2>4. QED BY <2>1, <2>2, <2>3
<1>3. TypeInv' BY <1>1, <1>2 DEF IInv, TypeInv, sources
<1>4. MeasuringInv' BY <1>1 DEF MeasuringInv
<1>5. ToSet(file'[kind]) = {} /\ DOMAIN file'[kind] = {} BY <1>2, NoElements
<1>6. LinesInv'
  <2>1. \A l : \A k \in AllKinds \ {kind} : Accounted(l, k) => Accounted(l, k)'
    BY <1>1 DEF Accounted
  <2>2. QED BY <1>2, <1>5, <2>1 DEF IInv, LinesInv
<1>7. NoLineTwice'
  <2>1. \A k \in AllKinds \ {kind} : \A a, b : <<a, k, b>> \in messy => <<a, k, b>> \in messy'
    BY <1>1
  <2>2. QED BY <1>2, <1>5, <2>1 DEF IInv, NoLineTwice
<1>8. StampsAreTrue'
  <2>1. \A s \in stamps' \ lost' : s[2] # kind /\ s \in stamps \ lost /\ s[2] \in AllKinds
    BY <1>1 DEF IInv, TypeInv, AllTargets
  <2>2. QED BY <1>2, <2>1 DEF IInv, StampsAreTrue
<1>9. RemovedInv' BY <1>1, <1>2 DEF IInv, RemovedInv, AllKinds
<1>10. RunInv' BY <1>1 DEF RunInv
<1>11. QED BY <1>3, <1>4, <1>6, <1>7, <1>8, <1>9, <1>10 DEF IInv

\* ... and then the stamps; with the last of them nothing is left, and the
\* targets of make run are all still to be looked at.
LEMMA RemoveStampsKeeps == ASSUME IInv, FindAccuracy \/ FindBenchmark PROVE IInv'
<1>1. PICK kind \in AllKinds :
          /\ RemoveStamps(kind)
          /\ \/ /\ pc = "find accuracy" /\ kind = "accuracy"
                /\ pc' = "find benchmark" /\ UNCHANGED <<todo, programs, trees>>
             \/ pc = "find benchmark" /\ kind = "speed" /\ Start(RunTargets)
  BY DEF FindAccuracy, FindBenchmark, AllKinds
<1> USE DEF RemoveStamps, Start
<1>2. /\ pc' \in {"find benchmark", "look"} /\ file' = file /\ messy' = messy
      /\ builds' = builds /\ configured' = configured /\ command' = command
      /\ stamps' = {s \in stamps : s[2] # kind} /\ lost' = {s \in lost : s[2] # kind}
  <2>1. lost \subseteq stamps BY DEF IInv, TypeInv
  <2>2. QED BY <1>1, <2>1 DEF sources, user, StampsOf
<1>3. todo' \in Seq(AllTargets) /\ programs' = programs /\ trees' = trees
  BY <1>1, RunTargetsAll DEF IInv, TypeInv
<1>4. TypeInv' BY <1>2, <1>3 DEF IInv, TypeInv
<1>5. MeasuringInv' BY <1>2 DEF MeasuringInv
<1>6. file = [k \in AllKinds |-> <<>>] /\ messy = {}
  <2>1. \A t \in messy : t[2] \in AllKinds BY DEF IInv, TypeInv, AllTargets
  <2>2. file["accuracy"] = <<>> /\ file["speed"] = <<>> /\ messy = {}
    BY <1>1, <2>1 DEF IInv, RemovedInv, AllKinds
  <2>3. QED BY <2>2 DEF IInv, TypeInv, AllKinds
<1>7. LinesInv' /\ NoLineTwice'
  <2>1. \A k \in AllKinds : ToSet(file'[k]) = {} /\ DOMAIN file'[k] = {}
    BY <1>2, <1>6, NoElements
  <2>2. QED BY <2>1 DEF LinesInv, NoLineTwice
<1>8. StampsAreTrue' BY <1>2 DEF IInv, StampsAreTrue
<1>9. RemovedInv' BY <1>1, <1>2 DEF IInv, RemovedInv
<1>10. RunInv'
  <2>1. CASE pc' = "find benchmark" BY <2>1 DEF RunInv
  <2>2. CASE pc' = "look"
    <3>1. kind = "speed" /\ todo' = RunTargets /\ pc = "find benchmark" BY <1>1, <2>2
    <3>2. \A s \in stamps : s[2] \in {"speed"}
      BY <3>1 DEF IInv, RemovedInv, TypeInv, AllTargets, AllKinds
    <3>3. stamps' = {} /\ lost' = {} BY <1>2, <1>4, <3>1, <3>2 DEF TypeInv
    <3>4. Wanted' \subseteq ToSet(RunTargets)
      BY <1>2, RunTargetsAll DEF Wanted, IInv, TypeInv
    <3>5. QED BY <1>2, <1>6, <2>2, <3>1, <3>3, <3>4, RunTargetsAll DEF RunInv
  <2>3. QED BY <1>2, <2>1, <2>2
<1>11. QED BY <1>4, <1>5, <1>7, <1>8, <1>9, <1>10 DEF IInv

\* make benchmark and make accuracy in a build tree.
LEMMA MakeKeeps ==
    ASSUME IInv, NEW p \in ToSet(Precisions), NEW kind \in AllKinds, Make(p, kind)
    PROVE  IInv'
<1> USE DEF Start, Make, Type
<1>1. TypeInv' BY TargetsAll DEF IInv, TypeInv, output, sources
<1>2. MeasuringInv' BY DEF MeasuringInv
<1>3. LinesInv' /\ NoLineTwice' /\ StampsAreTrue' BY OutputUnchanged
<1>4. RemovedInv' /\ RunInv' BY DEF RemovedInv, RunInv
<1>5. QED BY <1>1, <1>2, <1>3, <1>4 DEF IInv

\* make clean in a build tree, and the user editing a directory.
LEMMA CleanKeeps ==
    ASSUME IInv, \/ \E p \in ToSet(Precisions) : Clean(p)
                 \/ \E d \in ToSet(Dirs) : Edit(d)
    PROVE  IInv'
<1>1. PICK gone : /\ Unstamp(gone) /\ pc = "prompt" /\ UNCHANGED make
                  /\ configured' = configured /\ builds' \subseteq Places
                  /\ command' \in {"clean", "edit"}
  <2>1. builds \subseteq Places BY DEF IInv, TypeInv
  <2>2. CASE \E p \in ToSet(Precisions) : Clean(p)
    BY <2>1, <2>2 DEF Clean, Type, sources
  <2>3. CASE \E d \in ToSet(Dirs) : Edit(d)
    BY <2>1, <2>3 DEF Edit, Type, Places
  <2>4. QED BY <2>2, <2>3
<1> USE DEF make
<1>2. TypeInv' BY <1>1, UnstampKeeps DEF IInv, TypeInv
<1>3. MeasuringInv' BY <1>1 DEF MeasuringInv
<1>4. LinesInv' /\ NoLineTwice' /\ StampsAreTrue' BY <1>1, UnstampKeeps
<1>5. RemovedInv' /\ RunInv' BY <1>1 DEF RemovedInv, RunInv
<1>6. QED BY <1>2, <1>3, <1>4, <1>5 DEF IInv

\* make build empties a build tree, and configures it.
LEMMA BuildKeeps == ASSUME IInv, EmptyTree \/ Configure PROVE IInv'
<1>1. /\ pc \in {"build", "configure"} /\ pc' \in {"build", "configure"} /\ trees # <<>>
      /\ builds' = builds /\ UNCHANGED <<todo, programs, command>>
  BY DEF EmptyTree, Configure, user, IInv, TypeInv
<1>2. Head(trees) \in ToSet(Precisions) /\ Tail(trees) \in Seq(ToSet(Precisions))
  BY <1>1, HeadAndTail DEF IInv, TypeInv
<1>3. /\ configured' \subseteq ToSet(Precisions) /\ trees' \in Seq(ToSet(Precisions))
      /\ pc' = "configure" => trees' # <<>>
  <2>1. configured \subseteq ToSet(Precisions) /\ trees \in Seq(ToSet(Precisions))
    BY DEF IInv, TypeInv
  <2>2. <<>> \in Seq(ToSet(Precisions)) OBVIOUS
  <2>3. CASE EmptyTree BY <1>1, <2>1, <2>3 DEF EmptyTree
  <2>4. CASE Configure BY <1>2, <2>1, <2>2, <2>4 DEF Configure
  <2>5. QED BY <2>3, <2>4
<1>4. (\E gone : Unstamp(gone)) \/ UNCHANGED output
  BY DEF EmptyTree, Configure
<1>5. /\ stamps' \subseteq AllTargets /\ messy' \subseteq AllTargets
      /\ lost' \subseteq stamps' /\ file' = file
      /\ LinesInv' /\ NoLineTwice' /\ StampsAreTrue'
  <2>1. CASE \E gone : Unstamp(gone) BY <1>1, <2>1, UnstampKeeps
  <2>2. CASE UNCHANGED output
    BY <1>1, <2>2, OutputUnchanged DEF output, IInv, TypeInv
  <2>3. QED BY <1>4, <2>1, <2>2
<1>6. TypeInv' BY <1>1, <1>3, <1>5 DEF IInv, TypeInv
<1>7. MeasuringInv' BY <1>1 DEF MeasuringInv
<1>8. RemovedInv' /\ RunInv' BY <1>1 DEF IInv, RemovedInv, RunInv
<1>9. QED BY <1>5, <1>6, <1>7, <1>8 DEF IInv

\* make looks at the next target.
LEMMA LookKeeps == ASSUME IInv, Look PROVE IInv'
<1> USE DEF Look, sources, output, user
<1>0. TypeInv /\ todo # <<>> /\ pc = "look" BY DEF IInv
<1>1. TypeInv'
  <2>1. Programs[Target[1]][Target[3]] \in Seq(AllPrograms) BY <1>0, TargetTyped, Constants
  <2>2. QED BY <1>0, <2>1, TargetTyped DEF TypeInv
<1>2. MeasuringInv'
  <2>1. CASE pc' = "measure"
    <3>1. /\ todo' = todo /\ Target' = Target /\ ~Skipped
          /\ programs' = Programs[Target[1]][Target[3]]
      BY <1>0, <2>1 DEF Target
    <3>8. ~Skipped' BY <3>1 DEF Skipped
    <3>2. Len(programs') \in Nat BY <1>1, Elements DEF TypeInv
    <3>3. Number' = 0 BY <3>1, <3>2 DEF Number
    <3>4. \A n \in DOMAIN programs' : Number' + n = n
      <4>1. \A n \in DOMAIN programs' : n \in Nat BY <1>1, Elements DEF TypeInv
      <4>2. QED BY <3>3, <4>1
    <3>5. \A n \in DOMAIN programs' : programs'[n] = Programs[Target'[1]][Target'[3]][Number' + n]
      <4> TAKE n \in DOMAIN programs'
      <4>1. Number' + n = n BY <3>4
      <4>2. programs'[n] = Programs[Target[1]][Target[3]][n] BY <3>1
      <4>3. QED BY <3>1, <4>1, <4>2
    <3>6. \A n \in 1 .. Number' : FALSE BY <3>3
    <3>7. QED BY <1>0, <3>1, <3>3, <3>5, <3>6, <3>8 DEF MeasuringInv
  <2>2. QED BY <2>1 DEF MeasuringInv
<1>3. LinesInv' /\ NoLineTwice' /\ StampsAreTrue' BY <1>0, OutputUnchanged
<1>4. RemovedInv' BY <1>0 DEF RemovedInv
<1>5. RunInv'
  <2>1. ToSet(todo) = {Target} \cup ToSet(Tail(todo))
    BY <1>0, TargetTyped
  <2>2. todo' = todo \/ (todo' = Tail(todo) /\ (Target \notin Wanted \/ Target \in stamps))
    BY DEF Skipped, Wanted
  <2>3. Wanted' = Wanted /\ pc' \in {"look", "measure"} BY <1>0 DEF Wanted
  <2>4. QED BY <1>0, <2>1, <2>2, <2>3 DEF IInv, RunInv
<1>6. QED BY <1>1, <1>2, <1>3, <1>4, <1>5 DEF IInv

\* A program is run and its lines are appended.
LEMMA MeasureKeeps == ASSUME IInv, Measure PROVE IInv'
<1> USE DEF Measure, sources, user
<1>17. PICK line : line = <<Target[1], Target[3], Head(programs)>> OBVIOUS
<1>18. PICK kind0 : kind0 = Target[2] OBVIOUS
<1>0. TypeInv /\ pc = "measure" /\ todo # <<>> /\ programs # <<>>
  BY DEF IInv, MeasuringInv
<1>1. /\ Target \in AllTargets /\ Target = <<Target[1], kind0, Target[3]>>
      /\ Target[1] \in ToSet(Precisions) /\ kind0 \in AllKinds /\ Target[3] \in ToSet(Dirs)
  BY <1>0, <1>18, TargetTyped
<1>2. /\ Head(programs) \in AllPrograms /\ Tail(programs) \in Seq(AllPrograms)
      /\ Head(programs) = programs[1] /\ 1 \in DOMAIN programs
      /\ Len(programs) \in Nat \ {0} /\ Len(programs') = Len(programs) - 1
      /\ DOMAIN programs = 1 .. Len(programs)
      /\ DOMAIN programs' = 1 .. Len(programs) - 1
      /\ \A n \in DOMAIN programs' : programs'[n] = programs[n + 1]
  <2>1. programs \in Seq(AllPrograms) BY <1>0 DEF TypeInv
  <2>2. QED BY <1>0, <2>1, HeadAndTail
<1>3. line \in AllLines BY <1>1, <1>2, <1>17 DEF AllLines
<1>4. /\ file[kind0] \in Seq(AllLines)
      /\ file' = [file EXCEPT ![kind0] = Append(file[kind0], line)]
  BY <1>0, <1>1, <1>17, <1>18 DEF TypeInv
<1>5. /\ Append(file[kind0], line) \in Seq(AllLines)
      /\ ToSet(Append(file[kind0], line)) = ToSet(file[kind0]) \cup {line}
      /\ \A i, j \in DOMAIN Append(file[kind0], line) :
             i # j /\ Append(file[kind0], line)[i] = Append(file[kind0], line)[j] =>
                 \/ /\ i \in DOMAIN file[kind0] /\ j \in DOMAIN file[kind0]
                    /\ Append(file[kind0], line)[i] = file[kind0][i]
                    /\ file[kind0][i] = file[kind0][j]
                 \/ /\ Append(file[kind0], line)[i] = line
                    /\ line \in ToSet(file[kind0])
  BY <1>3, <1>4, OneMore
<1>6. /\ ToSet(file'[kind0]) = ToSet(file[kind0]) \cup {line}
      /\ \A kind \in AllKinds \ {kind0} : file'[kind] = file[kind]
      /\ file' \in [AllKinds -> Seq(AllLines)]
      /\ file'[kind0] = Append(file[kind0], line)
  BY <1>0, <1>1, <1>4, <1>5 DEF TypeInv
<1>7. /\ Target' = Target /\ ~Skipped /\ ~Skipped'
      /\ stamps' = stamps /\ pc' = pc /\ todo' = todo /\ messy' = messy
      /\ Number \in Nat
      /\ \A n \in DOMAIN programs : programs[n] = Programs[Target[1]][Target[3]][Number + n]
      /\ \A n \in 1 .. Number : <<Target[1], Target[3], Programs[Target[1]][Target[3]][n]>>
                                      \in ToSet(file[kind0])
  BY <1>0, <1>18 DEF IInv, MeasuringInv, Target, Skipped
<1>8. /\ Programs[Target[1]][Target[3]] \in Seq(AllPrograms) /\ IsInjective(Programs[Target[1]][Target[3]])
      /\ Len(Programs[Target[1]][Target[3]]) \in Nat
      /\ DOMAIN Programs[Target[1]][Target[3]] = 1 .. Len(Programs[Target[1]][Target[3]])
  BY <1>1, Constants, Elements
<1>9. Number' = Number + 1 /\ Number' <= Len(Programs[Target[1]][Target[3]])
  BY <1>2, <1>7, <1>8 DEF Number
<1>10. line = <<Target[1], Target[3], Programs[Target[1]][Target[3]][Number + 1]>>
  BY <1>2, <1>7, <1>17
<1>11. TypeInv' BY <1>0, <1>2, <1>6 DEF TypeInv
<1>12. MeasuringInv'
  <2>1. \A n \in DOMAIN programs' : programs'[n] = Programs[Target[1]][Target[3]][Number' + n]
    <3> TAKE n \in DOMAIN programs'
    <3>1. n \in Nat /\ n + 1 \in DOMAIN programs BY <1>2
    <3>2. Number + (n + 1) = Number' + n BY <1>7, <1>9, <3>1
    <3>3. QED BY <1>2, <1>7, <3>1, <3>2
  <2>2. \A n \in 1 .. Number' : <<Target[1], Target[3], Programs[Target[1]][Target[3]][n]>>
                                      \in ToSet(file'[kind0])
    <3>1. \A n \in 1 .. Number' : n \in 1 .. Number \/ n = Number + 1 BY <1>7, <1>9
    <3>2. QED BY <1>6, <1>7, <1>10, <3>1
  <2>3. Target'[2] = kind0 /\ Target'[1] = Target[1] /\ Target'[3] = Target[3]
    BY <1>7, <1>18
  <2>4. Number' \in Nat BY <1>7, <1>9
  <2>5. QED BY <1>0, <1>7, <2>1, <2>2, <2>3, <2>4 DEF MeasuringInv
<1>13. LinesInv'
  <2>1. \A n \in DOMAIN programs' : programs'[n] # Head(programs)
    <3> SUFFICES ASSUME NEW n \in DOMAIN programs' PROVE programs'[n] # Head(programs)
      OBVIOUS
    <3>1. n + 1 \in DOMAIN programs /\ n + 1 # 1 /\ n \in Nat BY <1>2
    <3>2. /\ programs'[n] = Programs[Target[1]][Target[3]][Number + (n + 1)]
          /\ Head(programs) = Programs[Target[1]][Target[3]][Number + 1]
      BY <1>2, <1>7, <3>1
    <3>3. /\ Number + (n + 1) \in DOMAIN Programs[Target[1]][Target[3]]
          /\ Number + 1 \in DOMAIN Programs[Target[1]][Target[3]]
      <4>1. Number + Len(programs) = Len(Programs[Target[1]][Target[3]])
        BY <1>2, <1>8 DEF Number
      <4>2. n + 1 \in 1 .. Len(programs) BY <1>2, <3>1
      <4>3. QED BY <1>2, <1>7, <1>8, <4>1, <4>2
    <3>4. Number + (n + 1) # Number + 1 BY <1>7, <3>1
    <3>5. QED BY <1>8, <3>2, <3>3, <3>4 DEF IsInjective
  <2>2. \A l, kind : Accounted(l, kind) => Accounted(l, kind)'
    BY <1>2, <1>7 DEF Accounted
  <2>3. line \in LinesOf(line[1], line[2]) /\ Accounted(line, kind0)'
    <3>1. Number + 1 \in DOMAIN Programs[Target[1]][Target[3]] BY <1>2, <1>7, <1>8 DEF Number
    <3>2. line \in LinesOf(line[1], line[2]) BY <1>10, <3>1 DEF LinesOf
    <3>3. Target' = <<line[1], kind0, line[2]>> BY <1>1, <1>7, <1>17
    <3>4. line[3] = Head(programs) BY <1>17
    <3>5. QED BY <1>0, <1>7, <2>1, <3>2, <3>3, <3>4 DEF Accounted
  <2>4. QED
    <3> SUFFICES ASSUME NEW kind \in AllKinds, NEW l \in ToSet(file'[kind])
                 PROVE  l \in LinesOf(l[1], l[2]) /\ Accounted(l, kind)'
      BY DEF LinesInv, LinesOf
    <3>1. CASE l \in ToSet(file[kind]) BY <2>2, <3>1 DEF IInv, LinesInv
    <3>2. CASE kind = kind0 /\ l = line BY <2>3, <3>2
    <3>3. QED BY <1>6, <3>1, <3>2
<1>19. NoLineTwice'
  <2>1. line \in ToSet(file[kind0]) => <<line[1], kind0, line[2]>> \in messy
    <3> SUFFICES ASSUME line \in ToSet(file[kind0])
                 PROVE  <<line[1], kind0, line[2]>> \in messy
      OBVIOUS
    <3>1. Accounted(line, kind0) BY <1>1 DEF IInv, LinesInv
    <3>2. <<line[1], kind0, line[2]>> = Target /\ line[3] = programs[1]
      BY <1>1, <1>2, <1>17
    <3>3. Target \notin stamps BY <1>7 DEF Skipped
    <3>4. QED BY <1>2, <3>1, <3>2, <3>3 DEF Accounted
  <2>2. SUFFICES ASSUME NEW kind \in AllKinds, NEW i \in DOMAIN file'[kind],
                        NEW j \in DOMAIN file'[kind], i # j,
                        file'[kind][i] = file'[kind][j]
                 PROVE  <<file'[kind][i][1], kind, file'[kind][i][2]>> \in messy
    BY <1>7 DEF NoLineTwice
  <2>3. CASE kind # kind0
    <3>1. file'[kind] = file[kind] BY <1>6, <2>3
    <3>2. QED BY <2>2, <3>1 DEF IInv, NoLineTwice
  <2>4. CASE kind = kind0
    <3>1. CASE /\ i \in DOMAIN file[kind0] /\ j \in DOMAIN file[kind0]
               /\ file'[kind0][i] = file[kind0][i] /\ file[kind0][i] = file[kind0][j]
      BY <1>1, <2>2, <2>4, <3>1 DEF IInv, NoLineTwice
    <3>2. CASE file'[kind0][i] = line /\ line \in ToSet(file[kind0])
      BY <2>1, <2>4, <3>2
    <3>3. QED BY <1>5, <1>6, <2>2, <2>4, <3>1, <3>2
  <2>5. QED BY <2>3, <2>4
<1>14. StampsAreTrue'
  <2>1. \A kind \in AllKinds : ToSet(file[kind]) \subseteq ToSet(file'[kind])
    BY <1>6
  <2>2. \A s \in stamps : s[2] \in AllKinds BY <1>0 DEF TypeInv, AllTargets
  <2>3. QED BY <1>7, <2>1, <2>2 DEF IInv, StampsAreTrue, LinesOf
<1>15. RemovedInv' /\ RunInv' BY <1>0, <1>7 DEF IInv, RemovedInv, RunInv, Wanted
<1>16. QED BY <1>11, <1>12, <1>13, <1>19, <1>14, <1>15 DEF IInv

\* All programs of the directory have been run.
LEMMA StampKeeps == ASSUME IInv, Stamp PROVE IInv'
<1> USE DEF Stamp, sources, user
<1>0. TypeInv /\ pc = "measure" /\ todo # <<>> /\ programs = <<>> /\ ~Skipped
  BY DEF IInv, MeasuringInv
<1>1. /\ Target \in AllTargets /\ Target = <<Target[1], Target[2], Target[3]>>
      /\ Target[3] \in ToSet(Dirs) /\ Tail(todo) \in Seq(AllTargets)
      /\ ToSet(todo) = {Target} \cup ToSet(Tail(todo))
  BY <1>0, TargetTyped
<1>2. TypeInv' BY <1>0, <1>1 DEF TypeInv
<1>3. MeasuringInv' BY DEF MeasuringInv
<1>4. LinesInv' /\ NoLineTwice'
  <2>1. \A l, kind : Accounted(l, kind) => Accounted(l, kind)' BY DEF Accounted
  <2>2. QED BY <2>1 DEF IInv, LinesInv, NoLineTwice
<1>5. StampsAreTrue'
  <2>1. LinesOf(Target[1], Target[3]) \subseteq ToSet(file[Target[2]])
    <3>1. /\ Len(Programs[Target[1]][Target[3]]) \in Nat
          /\ DOMAIN Programs[Target[1]][Target[3]] = 1 .. Len(Programs[Target[1]][Target[3]])
      BY <1>1, Constants, Elements
    <3>2. Number = Len(Programs[Target[1]][Target[3]]) BY <1>0, <3>1 DEF Number
    <3>3. QED BY <1>0, <3>1, <3>2 DEF IInv, MeasuringInv, LinesOf
  <2>2. QED BY <2>1 DEF IInv, StampsAreTrue, LinesOf
<1>6. RemovedInv' /\ RunInv'
  <2>1. command = "run" => Target \in Wanted
    BY <1>0, <1>1 DEF IInv, RunInv, Skipped, Wanted
  <2>2. Wanted' = Wanted BY DEF Wanted
  <2>3. QED BY <1>0, <1>1, <2>1, <2>2 DEF IInv, RemovedInv, RunInv
<1>7. QED BY <1>2, <1>3, <1>4, <1>5, <1>6 DEF IInv

\* The end of a command, and an interruption.
LEMMA ReturnKeeps == ASSUME IInv, Return PROVE IInv'
<1> USE DEF Return, sources, user
<1>1. TypeInv' BY DEF IInv, TypeInv, output
<1>2. MeasuringInv' BY DEF MeasuringInv
<1>3. LinesInv' /\ NoLineTwice' /\ StampsAreTrue' BY OutputUnchanged
<1>4. RemovedInv' /\ RunInv' BY DEF IInv, RemovedInv, RunInv, Wanted, output
<1>5. QED BY <1>1, <1>2, <1>3, <1>4 DEF IInv

\* The user interrupts make, in the middle of a directory or between two.
LEMMA InterruptKeeps == ASSUME IInv, Interrupt PROVE IInv'
<1> USE DEF Interrupt, sources
<1>1. TypeInv'
  <2>1. pc = "measure" => Target \in AllTargets
    BY TargetTyped DEF IInv, MeasuringInv
  <2>2. QED BY <2>1 DEF IInv, TypeInv
<1>2. MeasuringInv' BY DEF MeasuringInv
<1>3. LinesInv'
  <2>1. \A l, kind : Accounted(l, kind) => Accounted(l, kind)' BY DEF Accounted
  <2>2. QED BY <2>1 DEF IInv, LinesInv
<1>4. NoLineTwice' /\ StampsAreTrue' BY DEF IInv, NoLineTwice, StampsAreTrue
<1>5. RemovedInv' /\ RunInv' BY DEF RemovedInv, RunInv
<1>6. QED BY <1>1, <1>2, <1>3, <1>4, <1>5 DEF IInv

\* In every reachable state the invariant holds: what the stamp files and the
\* output files say of each other, at every point of every command.
THEOREM Invariant == Spec => []IInv
<1>1. IInv /\ [Next]_vars => IInv'
  <2> SUFFICES ASSUME IInv, [Next]_vars PROVE IInv'
    OBVIOUS
  <2>1. CASE UNCHANGED vars
    <3> USE <2>1 DEF vars, sources, output, make, user, IInv
    <3>1. TypeInv' BY DEF TypeInv
    <3>2. MeasuringInv' BY DEF MeasuringInv, Number, Target, Skipped
    <3>3. LinesInv'
      <4>1. \A l, kind : Accounted(l, kind)' <=> Accounted(l, kind)
        BY DEF Accounted, Target
      <4>2. QED BY <4>1 DEF LinesInv
    <3>4. NoLineTwice' /\ StampsAreTrue' BY DEF NoLineTwice, StampsAreTrue
    <3>5. RemovedInv' /\ RunInv' BY DEF RemovedInv, RunInv, Wanted
    <3>6. QED BY <3>1, <3>2, <3>3, <3>4, <3>5
  <2>2. CASE Next
    BY <2>1, <2>2, StartKeeps, RemoveFileKeeps, RemoveStampsKeeps, MakeKeeps, CleanKeeps,
       BuildKeeps, LookKeeps, MeasureKeeps, StampKeeps, ReturnKeeps, InterruptKeeps
       DEF Next, Finished
  <2>3. QED BY <2>1, <2>2
<1>2. QED BY Initially, <1>1, PTL DEF Spec

\* A directory with a stamp has all its lines in the output file, unless a make
\* run has removed the file and was interrupted before it removed the stamp.
THEOREM StampsTrue == Spec => []StampsAreTrue
<1>1. IInv => StampsAreTrue BY DEF IInv
<1>2. QED BY <1>1, Invariant, PTL

\* A line comes twice only where its own directory was interrupted in the
\* middle or lost its stamp since the output file was removed.
THEOREM LinesOnce == Spec => []NoLineTwice
<1>1. IInv => NoLineTwice BY DEF IInv
<1>2. QED BY <1>1, Invariant, PTL

\* An uninterrupted make run leaves the lines of all programs, once each, and
\* nothing else.
THEOREM RunComplete == Spec => []RunMeasuresAllOnce
<1>1. ASSUME IInv, pc = "prompt", command = "run", NEW kind \in AllKinds
      PROVE  /\ IsInjective(file[kind])
             /\ ToSet(file[kind]) = RunLines(kind)
  <2> DEFINE Measured == UNION {LinesOf(b[1], b[2]) : b \in {b \in builds : b[1] \in configured}}
  <2>1. /\ messy = {} /\ lost = {} /\ configured \subseteq ToSet(Precisions)
        /\ stamps \subseteq Wanted /\ ToSet(todo) = {}
        /\ Wanted \subseteq stamps \cup ToSet(todo)
    BY <1>1 DEF IInv, TypeInv, RunInv, ToSet
  <2>11. IsInjective(file[kind])
    BY <1>1, <2>1 DEF IInv, NoLineTwice, IsInjective
  <2>2. \A l \in ToSet(file[kind]) : /\ l \in LinesOf(l[1], l[2])
                                     /\ <<l[1], kind, l[2]>> \in Wanted
    BY <1>1, <2>1 DEF IInv, LinesInv, Accounted
  <2>3. \A l \in ToSet(file[kind]) : /\ l \in LinesOf(l[1], l[2]) /\ kind \in ToSet(Kinds)
                                     /\ <<l[1], l[2]>> \in builds /\ l[1] \in configured
    BY <2>1, <2>2 DEF Wanted
  <2>4. kind \notin ToSet(Kinds) => ToSet(file[kind]) = {} BY <2>3
  <2>5. ToSet(file[kind]) \subseteq Measured
    <3>1. ASSUME NEW l \in ToSet(file[kind]) PROVE l \in Measured
      <4> DEFINE b == <<l[1], l[2]>>
      <4>1. b \in builds /\ b[1] \in configured /\ l \in LinesOf(b[1], b[2])
        BY <2>3, <3>1
      <4>2. QED BY <4>1
    <3>2. QED BY <3>1
  <2>6. ASSUME kind \in ToSet(Kinds), NEW b \in builds, b[1] \in configured
        PROVE  LinesOf(b[1], b[2]) \subseteq ToSet(file[kind])
    <3>1. b = <<b[1], b[2]>> /\ b[2] \in ToSet(Dirs)
      BY <1>1, <2>6 DEF IInv, TypeInv, Places
    <3>2. <<b[1], kind, b[2]>> \in stamps \ lost BY <2>1, <2>6, <3>1 DEF Wanted
    <3>3. QED BY <1>1, <3>2 DEF IInv, StampsAreTrue
  <2>7. kind \in ToSet(Kinds) => Measured \subseteq ToSet(file[kind]) BY <2>6
  <2>8. kind \in ToSet(Kinds) => RunLines(kind) = Measured BY DEF RunLines
  <2>9. kind \notin ToSet(Kinds) => RunLines(kind) = {} BY DEF RunLines
  <2> HIDE DEF Measured
  <2>10. QED BY <2>11, <2>4, <2>5, <2>7, <2>8, <2>9
<1>2. IInv => RunMeasuresAllOnce BY <1>1 DEF RunMeasuresAllOnce
<1>3. QED BY <1>2, Invariant, PTL
=============================================================================
