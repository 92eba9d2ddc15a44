---------------------------- MODULE MCSpeedLoop ----------------------------
(***************************************************************************)
(* Values for TLC that a configuration file cannot write.                  *)
(***************************************************************************)
EXTENDS SpeedLoop

\* A negative value and one no timing reaches: junk the scan would act upon.
MCJunk == {-1, 9}
MCSetupTimes == {0, 2}
\* Adjustments in both directions, large enough to turn a timing negative.
MCBothWays == {-3, 2}
\* A routine that is too fast for the limit, and one that is not.
MCCosts == {0, 1}
=============================================================================
