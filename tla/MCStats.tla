------------------------------ MODULE MCStats ------------------------------
(***************************************************************************)
(* Small timings for TLC: a negative one, which speed() never passes on    *)
(* but mkstat would accept, zero, and two positive ones.                   *)
(***************************************************************************)
EXTENDS Stats

MCTiming == {-1, 0, 2, 3}
=============================================================================
