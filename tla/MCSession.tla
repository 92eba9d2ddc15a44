----------------------------- MODULE MCSession -----------------------------
(***************************************************************************)
(* Argument lists for TLC: problems that differ in everything the commands *)
(* look at, and lists of up to two commands.                               *)
(***************************************************************************)
EXTENDS Session

P(parses, doable, inPlace, sign, complex, rank, vector, n, pow2) ==
    [parses |-> parses, doable |-> doable, inPlace |-> inPlace,
     sign |-> sign, complex |-> complex, rank |-> rank, vector |-> vector,
     n |-> n, pow2 |-> pow2]

MCProblems ==
    {P(FALSE, FALSE, FALSE, -1, TRUE, 1, FALSE, 1, TRUE),   \* not a problem
     P(TRUE, FALSE, FALSE, -1, TRUE, 1, FALSE, 8, TRUE),    \* can_do refuses
     P(TRUE, TRUE, TRUE, -1, TRUE, 2, FALSE, 64, TRUE),     \* icf8x8
     P(TRUE, TRUE, FALSE, 1, FALSE, 1, TRUE, 8, TRUE),      \* orb8v2
     P(TRUE, TRUE, FALSE, -1, FALSE, 1, FALSE, 8, TRUE),    \* orf8
     P(TRUE, TRUE, TRUE, -1, TRUE, 1, FALSE, 6, FALSE),     \* icf6
     P(TRUE, TRUE, FALSE, 1, TRUE, 1, FALSE, 9, FALSE)}     \* ocb9

MCCommands == [op : Ops, p : MCProblems]

MCAllLists == {<<c>> : c \in MCCommands}
                  \cup {<<c, d>> : c \in MCCommands, d \in MCCommands}

MCArgv == {l \in MCAllLists : AccuracyOnce(l)}

\* Two --accuracy options in one command line, as the option parser allows.
MCAccuracyTwice == {l \in MCAllLists : \A i \in DOMAIN l : l[i].op = "accuracy"}
=============================================================================
