--------------------------- MODULE MCBenchDriver ---------------------------
(***************************************************************************)
(* A list with one- and two-dimensional problems, some beyond the maximum, *)
(* and every combination of the options the script can be given.           *)
(***************************************************************************)
EXTENDS BenchDriver

MCList == <<[oned |-> TRUE, points |-> 16], [oned |-> TRUE, points |-> 32],
            [oned |-> FALSE, points |-> 32], [oned |-> TRUE, points |-> 8]>>

\* --accuracy and --verify-only switch the timing off; it is never switched on.
MCFlags == [verify : BOOLEAN, speed : BOOLEAN, accuracy : BOOLEAN,
            keepGoing : BOOLEAN]
              \ [verify : BOOLEAN, speed : {TRUE}, accuracy : {TRUE},
                 keepGoing : BOOLEAN]
=============================================================================
