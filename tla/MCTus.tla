------------------------------- MODULE MCTus -------------------------------
(***************************************************************************)
(* The threads of tus.c for model checking: the constants are given in the *)
(* configurations.                                                         *)
(***************************************************************************)
EXTENDS Tus
=============================================================================
