------------------------------- MODULE MCRsm -------------------------------
(***************************************************************************)
(* Small instances of the resource manager.                                *)
(***************************************************************************)
EXTENDS Rsm, TLC

CONSTANTS r1, r2

OneEach == (r1 :> 1) @@ (r2 :> 1)
TwoOfOne == r1 :> 2

Symmetry == Permutations(Pid) \cup Permutations(Res)

\* All processes have been forked before the first call.
ForkedInit ==
  /\ g = Fresh
  /\ status = [p \in Pid |-> "live"]
  /\ local = [p \in Pid |-> NoApid]
  /\ blocked = [p \in Pid |-> NoApid]

ForkedSpec == ForkedInit /\ [][Next]_vars
=============================================================================
