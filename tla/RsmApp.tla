------------------------------- MODULE RsmApp -------------------------------
(***************************************************************************)
(* The two programs over the resource manager: the demo (myapp.c) and the  *)
(* scalability experiment (myapp_modified.c).  A parent initialises the    *)
(* manager, forks three children that make a fixed sequence of calls and   *)
(* ignore what the calls return, and looks for a deadlock until it kills   *)
(* or reaps them.  Every sleep of the programs is a delay of any length.   *)
(***************************************************************************)
EXTENDS Iteration, Integers, SequencesExt

CONSTANTS
  Programs,  \* command lines: [demo, avoid, numr], which program and its arguments
  Looks      \* turns of the demo's monitor loop, 14 in the code

ASSUME RsmAppAssumption ==
  /\ Programs \subseteq [demo : BOOLEAN, avoid : BOOLEAN, numr : Nat \ (0 .. 3)]
  /\ Looks \in Nat \ {0}

NUMP == 3
Child == 0 .. NUMP - 1
Parent == NUMP
Pids == Child \cup {Parent}

VARIABLES
  run,       \* the command line
  g, status, local, blocked,   \* the manager, see Rsm
  at,        \* the call each child makes next, counted in its script
  main,      \* the parent: [pc, i, look, reported, all_done]
  reaped,    \* the children the parent has waited for
  shm        \* whether the shared-memory object exists

manager == <<g, status, local, blocked>>
vars == <<run, manager, at, main, reaped, shm>>

Rsm(p) == INSTANCE Rsm WITH
  N <- NUMP, Res <- 0 .. p.numr - 1, Exist <- [j \in 0 .. p.numr - 1 |-> 1],
  Avoid <- p.avoid, Cap <- 1, Deaths <- NUMP, Pid <- Pids, NoPid <- -1

-----------------------------------------------------------------------------
(* What the children do.                                                   *)

build_claim_range(start, span, numr) == {(start + k) % numr : k \in 0 .. span - 1}

\* One turn of the loop over the types.
NextType(claim) ==
  [ l \in [i : Nat, order : Seq(Nat)] |->
      [ i     |-> l.i + 1,
        order |-> IF l.i \in claim THEN Append(l.order, l.i) ELSE l.order ] ]

build_order_from_claim(claim, numr) ==
  Iterate(NextType(claim), [i |-> 0, order |-> <<>>], numr).order

reverse_order(arr) == Reverse(arr)

rotate_left(arr, k) == [j \in DOMAIN arr |-> arr[((j - 1 + k) % Len(arr)) + 1]]

Span(numr) == IF numr \div 2 < 2 THEN 2 ELSE numr \div 2

\* The types child i of the experiment asks for, in its order.
ScaledOrder(i, numr) ==
  LET From(start) == build_order_from_claim(build_claim_range(start, Span(numr), numr), numr)
      upper == From(numr \div 2)
  IN  CASE i = 0 -> From(0)
        [] i = 1 -> reverse_order(From(numr \div 4))
        [] i = 2 -> rotate_left(upper, Len(upper) \div 2)

\* Mutant: the second child of the demo asks for a type it has not claimed.
DemoOrderUnclaimed(i) == <<<<0, 1>>, <<1, 2>>, <<2, 3>>>>[i + 1]

DemoOrder(i) == <<<<0, 1>>, <<1, 0>>, <<2, 3>>>>[i + 1]

Call(name, types) == [call |-> name, types |-> types]

OneByOne(name, order) == [k \in DOMAIN order |-> Call(name, {order[k]})]

\* The demo's third child releases both its types in one call.
Script(p, i) ==
  LET order == IF p.demo THEN DemoOrder(i) ELSE ScaledOrder(i, p.numr)
      claim == IF p.demo THEN Range(<<<<0, 1>>, <<0, 1>>, <<2, 3>>>>[i + 1]) ELSE Range(order)
  IN  <<Call("start", {})>>
      \o (IF p.avoid THEN <<Call("claim", claim)>> ELSE <<>>)
      \o OneByOne("request", order)
      \o (IF p.demo /\ i = 2 THEN <<Call("release", Range(order))>>
          ELSE OneByOne("release", order))
      \o <<Call("ended", {})>>

Scripts == [p \in Programs |-> [i \in Child |-> Script(p, i)]]

Units(p, types) == [j \in 0 .. p.numr - 1 |-> IF j \in types THEN 1 ELSE 0]

\* The call at the child's place in its script, as the library handles it.
Handled(p, i, c) ==
  LET v == Units(p, c.types)
  IN  \/ c.call = "start" /\ Rsm(p)!rsm_process_started(i, i)
      \/ c.call = "claim" /\ Rsm(p)!rsm_claim(i, i, v)
      \/ c.call = "request" /\ (Rsm(p)!RequestGranted(i, i, v) \/ Rsm(p)!RequestWaits(i, i, v))
      \/ c.call = "release" /\ Rsm(p)!rsm_release(i, i, v)
      \/ c.call = "ended" /\ Rsm(p)!rsm_process_ended(i, i)

\* A call that is refused changes nothing, and the child goes on as if it had not been.
Refused(p, i, c) ==
  LET v == Units(p, c.types)
  IN  /\ \/ c.call = "claim" /\ Rsm(p)!ClaimRefused(g, i, v)
         \/ c.call = "request" /\ Rsm(p)!RequestRefused(g, i, v)
         \/ c.call = "release" /\ Rsm(p)!ReleaseRefused(g, i, v)
      /\ Rsm(p)!RefusedCall(i, i, v)

ChildCalls(p, i) ==
  /\ run = p
  /\ at[i] <= Len(Scripts[p][i])
  /\ Handled(p, i, Scripts[p][i][at[i]]) \/ Refused(p, i, Scripts[p][i][at[i]])
  /\ at' = [at EXCEPT ![i] = IF blocked'[i] = i THEN @ ELSE @ + 1]
  /\ UNCHANGED <<run, main, reaped, shm>>

ChildWakes(p, i) ==
  /\ run = p
  /\ Rsm(p)!Wake(i, i)
  /\ at' = [at EXCEPT ![i] = @ + 1]
  /\ UNCHANGED <<run, main, reaped, shm>>

ChildExits(p, i) ==
  /\ run = p
  /\ at[i] > Len(Scripts[p][i])
  /\ Rsm(p)!Die(i)
  /\ UNCHANGED <<run, at, main, reaped, shm>>

ChildStep(p, i) == ChildCalls(p, i) \/ ChildWakes(p, i) \/ ChildExits(p, i)

-----------------------------------------------------------------------------
(* The parent.                                                             *)

At(p, pc) == run = p /\ main.pc = pc

\* rsm_init does not take over an object that is there already.
rsm_init(p) ==
  /\ At(p, "init")
  /\ shm' = TRUE
  /\ main' = [main EXCEPT !.pc = IF shm THEN "refused" ELSE "fork"]
  /\ UNCHANGED <<run, manager, at, reaped>>

ForkChild(p) ==
  /\ At(p, "fork")
  /\ Rsm(p)!Fork(Parent, main.i)
  /\ main' = IF main.i + 1 < NUMP THEN [main EXCEPT !.i = @ + 1]
                                  ELSE [main EXCEPT !.i = 0, !.pc = "look"]
  /\ UNCHANGED <<run, at, reaped, shm>>

\* Mutant: the demo makes one turn too many.
NextLookLate(p, m) ==
  IF ~ p.demo THEN [m EXCEPT !.pc = "look"]
  ELSE IF m.look + 1 <= Looks THEN [m EXCEPT !.pc = "look", !.look = @ + 1]
  ELSE [m EXCEPT !.pc = "reap"]

\* The loop goes on, or, for the demo, ends after its last turn.
NextLook(p, m) ==
  IF ~ p.demo THEN [m EXCEPT !.pc = "look"]
  ELSE IF m.look + 1 < Looks THEN [m EXCEPT !.pc = "look", !.look = @ + 1]
  ELSE [m EXCEPT !.pc = "reap"]

\* Mutant: all_done keeps the value of the turn before.
CheckAgain(m) == [m EXCEPT !.pc = "check"]

Check(m) == [m EXCEPT !.pc = "check", !.all_done = TRUE]

\* One turn of the monitor, up to the place where it has used the result of
\* rsm_detection.  The library has unlocked by then.
Look(p) ==
  LET found == Rsm(p)!Deadlocked(g) # {}
      told == [main EXCEPT !.reported = TRUE]
  IN  /\ At(p, "look")
      /\ main' =
           IF found /\ ~ main.reported THEN
             IF ~ p.avoid THEN [told EXCEPT !.pc = "kill"]
             ELSE IF p.demo THEN NextLook(p, told)
             ELSE Check(told)
           ELSE IF ~ p.demo \/ (p.avoid /\ ~ found) THEN Check(main)
           ELSE NextLook(p, main)
      /\ UNCHANGED <<run, manager, at, reaped, shm>>

\* waitpid(pids[i], NULL, WNOHANG): 0 only for a child that is still alive.
CheckChild(p) ==
  LET alive == status[main.i] # "dead"
      m == [main EXCEPT !.all_done = @ /\ ~ alive]
  IN  /\ At(p, "check")
      /\ reaped' = IF alive THEN reaped ELSE reaped \cup {main.i}
      /\ main' = IF main.i + 1 < NUMP THEN [m EXCEPT !.i = @ + 1]
                 ELSE IF m.all_done THEN [m EXCEPT !.i = 0, !.pc = "reap"]
                 ELSE NextLook(p, [m EXCEPT !.i = 0])
      /\ UNCHANGED <<run, manager, at, shm>>

\* The parent kills every child, whether it is deadlocked or not.
KillChild(p) ==
  /\ At(p, "kill")
  /\ \/ Rsm(p)!Die(main.i)
     \/ status[main.i] = "dead" /\ UNCHANGED manager
  /\ main' = IF main.i + 1 < NUMP THEN [main EXCEPT !.i = @ + 1]
                                  ELSE [main EXCEPT !.i = 0, !.pc = "reap"]
  /\ UNCHANGED <<run, at, reaped, shm>>

ReapChild(p) ==
  /\ At(p, "reap")
  /\ status[main.i] = "dead"
  /\ reaped' = reaped \cup {main.i}
  /\ main' = IF main.i + 1 < NUMP THEN [main EXCEPT !.i = @ + 1]
                                  ELSE [main EXCEPT !.i = 0, !.pc = "destroy"]
  /\ UNCHANGED <<run, manager, at, shm>>

rsm_destroy(p) ==
  /\ At(p, "destroy")
  /\ shm' = FALSE
  /\ main' = [main EXCEPT !.pc = "done"]
  /\ UNCHANGED <<run, manager, at, reaped>>

ParentStep(p) ==
  \/ rsm_init(p) \/ ForkChild(p) \/ Look(p) \/ CheckChild(p)
  \/ KillChild(p) \/ ReapChild(p) \/ rsm_destroy(p)

-----------------------------------------------------------------------------
Init ==
  /\ run \in Programs
  /\ \E p \in Programs : run = p /\ Rsm(p)!Init /\ status[Parent] = "live"
  /\ at = [i \in Child |-> 1]
  /\ main = [pc |-> "init", i |-> 0, look |-> 0, reported |-> FALSE, all_done |-> TRUE]
  /\ reaped = {}
  /\ shm \in BOOLEAN

Next == \E p \in Programs : ParentStep(p) \/ \E i \in Child : ChildStep(p, i)

\* A child is not blocked, or it has been posted.
CanGoOn(i) == status[i] = "live" /\ (blocked[i] = i => g.process_sem[i] > 0)

\* The parent and every child that can go on do so: a process is not held up for
\* ever by the scheduler, and a sleep ends.  For the children this is weak fairness
\* with CanGoOn, which is when ChildStep is enabled, in place of ENABLED: TLC would
\* run the loops of the manager once more for every ENABLED.
Fairness ==
  /\ WF_vars(\E p \in Programs : ParentStep(p))
  /\ \A i \in Child :
       []<> ~ CanGoOn(i) \/ []<> <<\E p \in Programs : ChildStep(p, i)>>_vars

Spec == Init /\ [][Next]_vars /\ Fairness

-----------------------------------------------------------------------------
(* Properties.                                                             *)

\* The places of the children in their scripts and the fields of the parent stay in
\* their types, and so does the manager under these callers.
TypeOK ==
  /\ \A p \in Programs :
       run = p => Rsm(p)!TypeOK /\ \A i \in Child : at[i] \in 1 .. Len(Scripts[p][i]) + 1
  /\ run \in Programs
  /\ main \in [ pc : {"init", "refused", "fork", "look", "check", "kill", "reap",
                       "destroy", "done"},
                i : Child, look : 0 .. Looks - 1, reported : BOOLEAN, all_done : BOOLEAN ]
  /\ reaped \subseteq {i \in Child : status[i] = "dead"}
  /\ shm \in BOOLEAN

\* The types child i holds after its first n calls, if none of them was refused.
Types(p, i, n, name) ==
  UNION {Scripts[p][i][k].types : k \in {k \in 1 .. n : Scripts[p][i][k].call = name}}

Answered(i) == IF blocked[i] = i /\ ~ g.waiting[i] THEN at[i] ELSE at[i] - 1

\* The children ignore what the calls return and print "acquired" all the same: they
\* are right to.  In every order of their steps a living child holds exactly what
\* its script has acquired and not yet released.
AcquiredIsHeld ==
  \A p \in Programs : run = p => \A i \in Child :
    LET n == Answered(i)
    IN  status[i] = "live" =>
          g.allocation[i] = Units(p, Types(p, i, n, "request") \ Types(p, i, n, "release"))

\* The parent acts on the result of a detection that may be old: the children went
\* on.  While it kills, the deadlock it kills for is still there; with avoidance
\* it kills nobody; and the demo signals no pid it has already waited for.
KilledOnlyWhenStuck ==
  \A p \in Programs : At(p, "kill") =>
    /\ ~ p.avoid
    /\ \E D \in SUBSET Child : Rsm(p)!Stuck(g, D, g.request)
    /\ p.demo => main.i \notin reaped

\* The parent has left nothing behind, no child and no shared-memory object, or it
\* was refused and has left the object of the other run where it was.
CleanEnd ==
  \/ main.pc = "refused" /\ shm
  \/ main.pc = "done" /\ reaped = Child /\ ~ shm

\* The demo without avoidance has stopped looking, and now waits for children that
\* wait for each other.
MissedDeadlock ==
  \E p \in Programs :
    At(p, "reap") /\ p.demo /\ ~ p.avoid /\ ~ main.reported /\ Rsm(p)!Deadlocked(g) # {}

\* Every run comes to a clean end: with avoidance because all children finish,
\* without because a deadlock is found and ended.  The one exception is a deadlock
\* that forms after the last of the demo's turns.
MainEnds == <>[](CleanEnd \/ MissedDeadlock)
=============================================================================
