---------------------------- MODULE MCErrorNorm ----------------------------
(***************************************************************************)
(* Small numbers for TLC, NaN among them.                                  *)
(***************************************************************************)
EXTENDS ErrorNorm

MCRealNaN == {0, 1, NaN}
=============================================================================
