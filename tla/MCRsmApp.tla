------------------------------ MODULE MCRsmApp ------------------------------
(***************************************************************************)
(* The demo with its five types and the experiment with four and six, each *)
(* without and with avoidance.                                             *)
(***************************************************************************)
EXTENDS RsmApp

CommandLines ==
  [demo : {TRUE}, avoid : BOOLEAN, numr : {5}]
    \cup [demo : {FALSE}, avoid : BOOLEAN, numr : {4, 6}]
=============================================================================
