----------------------------- MODULE MCHistory ------------------------------
(***************************************************************************)
(* The instances of MCController, with the history variables.              *)
(***************************************************************************)
EXTENDS MCController, DefenceHistory
=============================================================================
