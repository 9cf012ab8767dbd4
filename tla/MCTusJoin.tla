----------------------------- MODULE MCTusJoin -----------------------------
(***************************************************************************)
(* A history variable for tus_join: whether the thread a join was called   *)
(* for has been reaped by another joiner since the call.                   *)
(***************************************************************************)
EXTENDS Tus

VARIABLE reaped

JoinInit == Init /\ reaped = [t \in Tid |-> FALSE]

Reaped(target) == ~ Is(target, "NONE") /\ threads'[target].state = "NONE"

JoinNext ==
  /\ Next
  /\ reaped' =
       [t \in Tid |->
          LET target == threads[t].joining
          IN  /\ target # 0
              /\ threads'[t].joining = target
              /\ reaped[t] \/ Reaped(target)]

JoinSpec == JoinInit /\ [][JoinNext]_<<vars, reaped>>

\* README.md: "tus_join() waits cooperatively by repeatedly yielding until the target
\* thread reaches the ended state."  So when its loop looks the target up again
\* and the thread it was called for is gone, it must not find another to wait for.
JoinWaitsForItsTarget ==
  pc = "join" /\ reaped[current_tid] => Is(threads[current_tid].joining, "NONE")
=============================================================================
