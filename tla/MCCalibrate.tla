---------------------------- MODULE MCCalibrate ----------------------------
(***************************************************************************)
(* calibrate() alone, for TLC.  Ending is the only thing that it does not  *)
(* do by itself.                                                           *)
(***************************************************************************)
EXTENDS Calibrate

\* Fast and slow machines with a clock of one microsecond.
MCMachines == [rate : {30, 100}, tick : {1}]
=============================================================================
