---------------------------- MODULE MCMakeBench ----------------------------
(***************************************************************************)
(* Two directories and two build trees for TLC; one directory has a        *)
(* Fortran program that exists in double precision only.  Both kinds.      *)
(***************************************************************************)
EXTENDS MakeBench

MCDirs == <<"ooura", "kissfft">>
MCPrograms == [single |-> [ooura |-> <<"doit_sg">>, kissfft |-> <<"doit">>],
               double |-> [ooura |-> <<"doit_sg", "doit_sgf">>, kissfft |-> <<"doit">>]]
MCPrecisions == <<"single", "double">>
MCKinds == <<"accuracy", "speed">>
=============================================================================
