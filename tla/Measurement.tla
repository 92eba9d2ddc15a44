---------------------------- MODULE Measurement ----------------------------
(***************************************************************************)
(* What a benchmark promises to whoever reads its figures, independent of  *)
(* how the figures are obtained: the plan is set up once, and afterwards   *)
(* one batch of Repeat measurements is published, all taken with the same  *)
(* number of iterations and each of them at least TimeMin long.  Nothing   *)
(* is published before that and nothing is ever published twice.           *)
(***************************************************************************)
EXTENDS Integers

CONSTANTS Repeat,      \* how many measurements a batch has
          TimeMin,     \* the shortest interval that may be published
          IterLimit    \* batches run fewer iterations than this

VARIABLES phase,       \* "preparing", "measuring" or "published"
          batch        \* the published measurements

mvars == <<phase, batch>>

Slots == 0 .. Repeat - 1

NoBatch == [elapsed |-> [s \in Slots |-> 0], iter |-> 0]

GoodBatch == {b \in [elapsed : [Slots -> Int], iter : Int] :
                 /\ b.iter \in 1 .. IterLimit - 1
                 /\ \A s \in Slots : b.elapsed[s] >= TimeMin}

MInit == phase = "preparing" /\ batch = NoBatch

Prepare == phase = "preparing" /\ phase' = "measuring" /\ UNCHANGED batch

\* TLC evaluates the membership and never enumerates GoodBatch.
Publish == /\ phase = "measuring"
           /\ phase' = "published"
           /\ batch' \in GoodBatch

MNext == Prepare \/ Publish

MSpec == MInit /\ [][MNext]_mvars
=============================================================================
