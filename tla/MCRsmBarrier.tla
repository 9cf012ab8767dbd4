---------------------------- MODULE MCRsmBarrier ----------------------------
(***************************************************************************)
(* The resource manager with a record of the ids that were ever registered *)
(* to look for the barrier that Project3/README.txt line 85 describes.     *)
(***************************************************************************)
EXTENDS MCRsm

VARIABLE registered   \* the ids some process has started under

BarrierInit == Init /\ registered = {}

BarrierNext == Next /\ registered' = registered \cup {i \in Proc : Active(g', i)}

BarrierSpec == BarrierInit /\ [][BarrierNext]_<<vars, registered>>

\* "A barrier semaphore delays requests until all processes have registered":
\* no id holds an instance before every id has been registered.
BarrierHolds == (\E i \in Proc : g.allocation[i] # Zero) => registered = Proc
=============================================================================
