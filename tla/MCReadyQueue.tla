---------------------------- MODULE MCReadyQueue ----------------------------
(***************************************************************************)
(* The ring for model checking: its size is given in the configuration.    *)
(***************************************************************************)
EXTENDS ReadyQueue
=============================================================================
