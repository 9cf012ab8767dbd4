-------------------------------- MODULE Rsm --------------------------------
(***************************************************************************)
(* The resource manager of Project3 (rsm.c): N registered processes share  *)
(* the instances of the resource types Res through a structure in POSIX    *)
(* shared memory.  Every library call runs its handler between             *)
(* lock_state() and unlock_state(), so a call is one action; only the wait *)
(* for process_sem[apid], taken after the unlock, is a step of its own.    *)
(***************************************************************************)
EXTENDS Iteration, Integers, FiniteSets

CONSTANTS
  N,       \* process_count: the application ids are 0 .. N-1
  Res,     \* the resource types
  Exist,   \* existing instances of each type
  Avoid,   \* avoid_enabled
  Cap,     \* bound on the entries of the vectors callers pass
  Deaths,  \* bound on the number of processes that exit or are killed
  Pid,     \* operating-system processes
  NoPid    \* the -1 of apid_to_pid

ASSUME RsmAssumption ==
  /\ N \in Nat \ {0}
  /\ Exist \in [Res -> Nat]
  /\ Avoid \in BOOLEAN
  /\ Cap \in Nat
  /\ Deaths \in Nat
  /\ NoPid \notin Pid

VARIABLES
  g,        \* the shared structure, g_state
  status,   \* life of each process: "unborn", "live" or "dead"
  local,    \* g_local_apid of each process, its cached application id
  blocked   \* the id whose semaphore a process waits on, NoApid if none

vars == <<g, status, local, blocked>>

Proc == 0 .. N - 1
NoApid == -1

-----------------------------------------------------------------------------
(* Vectors over the resource types.                                        *)

Zero == [j \in Res |-> 0]
Vector == [Res -> 0 .. Cap]

a \oplus b == [j \in Res |-> a[j] + b[j]]
a \ominus b == [j \in Res |-> a[j] - b[j]]
a \preceq b == \A j \in Res : a[j] <= b[j]

-----------------------------------------------------------------------------
(* The shared structure.  The bits started[] and active[] of the code are  *)
(* written together with apid_to_pid[] in every handler, so an id is       *)
(* started and active exactly when it has a pid.                           *)

Matrix == [Proc -> [Res -> Nat]]

State ==
  [ available      : [Res -> Nat],
    allocation     : Matrix,
    request        : Matrix,
    max_demand     : Matrix,
    need           : Matrix,
    apid_to_pid    : [Proc -> Pid \cup {NoPid}],
    claimed        : [Proc -> BOOLEAN],
    requested_once : [Proc -> BOOLEAN],
    waiting        : [Proc -> BOOLEAN],
    process_sem    : [Proc -> Nat] ]

Fresh ==   \* what rsm_init leaves
  [ available      |-> Exist,
    allocation     |-> [i \in Proc |-> Zero],
    request        |-> [i \in Proc |-> Zero],
    max_demand     |-> [i \in Proc |-> Zero],
    need           |-> [i \in Proc |-> Zero],
    apid_to_pid    |-> [i \in Proc |-> NoPid],
    claimed        |-> [i \in Proc |-> FALSE],
    requested_once |-> [i \in Proc |-> FALSE],
    waiting        |-> [i \in Proc |-> FALSE],
    process_sem    |-> [i \in Proc |-> 0] ]

Active(s, i) == s.apid_to_pid[i] # NoPid

NextProc(i) == IF i = N - 1 THEN 0 ELSE i + 1

-----------------------------------------------------------------------------
(* The loop shared by is_safe and rsm_detection: visit the processes in a  *)
(* circle, finish one whose want fits in work, and add what it holds to    *)
(* work.  Every pass but the last finishes a process, so N passes of N     *)
(* visits are enough to reach the point where a pass finishes none.        *)

Sweep == [i : Proc, work : [Res -> Int], finish : [Proc -> BOOLEAN]]

Visit(want, held) ==
  [ l \in Sweep |->
      IF ~ l.finish[l.i] /\ want[l.i] \preceq l.work
      THEN [ i      |-> NextProc(l.i),
             work   |-> l.work \oplus held[l.i],
             finish |-> [l.finish EXCEPT ![l.i] = TRUE] ]
      ELSE [l EXCEPT !.i = NextProc(l.i)] ]

\* Mutant: one pass over the processes instead of passes until none finishes.
ReduceOnce(work, finish, want, held) ==
  Iterate(Visit(want, held), [i |-> 0, work |-> work, finish |-> finish], N).finish

Reduce(work, finish, want, held) ==
  Iterate(Visit(want, held), [i |-> 0, work |-> work, finish |-> finish], N * N).finish

\* Mutant: the request is not taken off the need of the process that makes it.
is_safe_whole_need(s, apid, req) ==
  /\ req \preceq s.available
  /\ \A i \in Proc : Reduce(s.available \ominus req, [k \in Proc |-> ~ Active(s, k)],
                          s.need, [s.allocation EXCEPT ![apid] = @ \oplus req])[i]

\* is_safe: could everyone finish if apid were given req?
is_safe(s, apid, req) ==
  /\ req \preceq s.available
  /\ \A i \in Proc :
       Reduce(s.available \ominus req,
              [k \in Proc |-> ~ Active(s, k)],
              [s.need EXCEPT ![apid] = @ \ominus req],
              [s.allocation EXCEPT ![apid] = @ \oplus req])[i]

\* Mutant: processes that hold nothing are not set aside.
DeadlockedOrWaiting(s) ==
  LET finish == Reduce(s.available, [i \in Proc |-> ~ Active(s, i)], s.request, s.allocation)
  IN  {i \in Proc : ~ finish[i]}

\* Mutant: whoever cannot be served at once counts as deadlocked.
DeadlockedNow(s) == {i \in Proc : s.waiting[i] /\ ~ (s.request[i] \preceq s.available)}

\* rsm_detection: the processes it counts as deadlocked.
Deadlocked(s) ==
  LET finish == Reduce(s.available,
                       [i \in Proc |-> ~ Active(s, i) \/ s.allocation[i] = Zero],
                       s.request, s.allocation)
  IN  {i \in Proc : ~ finish[i]}

-----------------------------------------------------------------------------
(* Granting, and try_satisfy_waiting.                                      *)

Granted(s, i, req) ==
  [s EXCEPT !.available     = @ \ominus req,
            !.allocation[i] = @ \oplus req,
            !.need[i]       = IF Avoid THEN @ \ominus req ELSE @,
            !.request[i]    = Zero]

\* Mutant: a request is granted whenever the instances are there.
GrantableIfAvailable(s, i, req) == req \preceq s.available

Grantable(s, i, req) ==
  /\ req \preceq s.available
  /\ Avoid => is_safe(s, i, req)

\* Mutant: the waiter is granted but its semaphore is not posted.
SatisfiedSilently(s, i) == [Granted(s, i, s.request[i]) EXCEPT !.waiting[i] = FALSE]

\* The waiter i is given what it asked for and its semaphore is posted.
Satisfied(s, i) ==
  [Granted(s, i, s.request[i]) EXCEPT !.waiting[i] = FALSE, !.process_sem[i] = @ + 1]

CanSatisfy(s, i) ==
  s.waiting[i] /\ Active(s, i) /\ Grantable(s, i, s.request[i])

Scan ==
  [ l \in [s : State, i : Proc] |->
      [ s |-> IF CanSatisfy(l.s, l.i) THEN Satisfied(l.s, l.i) ELSE l.s,
        i |-> NextProc(l.i) ] ]

\* Mutant: the scan stops before the last process.
TrySatisfyButLast(s) == Iterate(Scan, [s |-> s, i |-> 0], N - 1).s

TrySatisfy(s) == Iterate(Scan, [s |-> s, i |-> 0], N * N).s

-----------------------------------------------------------------------------
(* The library calls, as functions of the shared structure.                *)

Started(s, i, p) ==
  [s EXCEPT !.apid_to_pid[i]    = p,
            !.claimed[i]        = FALSE,
            !.requested_once[i] = FALSE,
            !.waiting[i]        = FALSE,
            !.request[i]        = Zero]

\* Mutant: the id is cleared without giving back what it holds.
EndedKeeping(s, i) ==
  [s EXCEPT !.allocation[i] = Zero, !.request[i] = Zero, !.max_demand[i] = Zero,
            !.need[i] = Zero, !.waiting[i] = FALSE, !.apid_to_pid[i] = NoPid,
            !.claimed[i] = FALSE, !.requested_once[i] = FALSE]

Ended(s, i) ==
  [s EXCEPT !.available         = @ \oplus s.allocation[i],
            !.allocation[i]     = Zero,
            !.request[i]        = Zero,
            !.max_demand[i]     = Zero,
            !.need[i]           = Zero,
            !.waiting[i]        = FALSE,
            !.apid_to_pid[i]    = NoPid,
            !.claimed[i]        = FALSE,
            !.requested_once[i] = FALSE]

ClaimRefused(s, i, claim) ==
  Avoid /\ (s.claimed[i] \/ s.requested_once[i] \/ ~ (claim \preceq Exist))

Claimed(s, i, claim) ==
  [s EXCEPT !.max_demand[i] = claim, !.need[i] = claim, !.claimed[i] = TRUE]

\* Mutant: the request is not compared with what exists.
RequestRefusedByClaim(s, i, req) ==
  Avoid /\ (~ s.claimed[i] \/ ~ (req \preceq s.need[i]))

\* Mutant: the request is not compared with the need.
RequestRefusedByExistence(s, i, req) == ~ (req \preceq Exist)

RequestRefused(s, i, req) ==
  \/ ~ (req \preceq Exist)
  \/ Avoid /\ (~ s.claimed[i] \/ ~ (req \preceq s.need[i]))

\* rsm_request records the request before it decides.
Requested(s, i, req) ==
  [s EXCEPT !.requested_once[i] = TRUE, !.request[i] = req]

ReleaseRefused(s, i, rel) == ~ (rel \preceq s.allocation[i])

\* Mutant: the need of the releasing process does not grow.
ReleasedForGood(s, i, rel) ==
  [s EXCEPT !.available = @ \oplus rel, !.allocation[i] = @ \ominus rel]

Released(s, i, rel) ==
  [s EXCEPT !.available     = @ \oplus rel,
            !.allocation[i] = @ \ominus rel,
            !.need[i]       = IF Avoid THEN @ \oplus rel ELSE @]

-----------------------------------------------------------------------------
(* The processes.                                                          *)

Init ==
  /\ g = Fresh
  /\ \E p \in Pid : status = [q \in Pid |-> IF q = p THEN "live" ELSE "unborn"]
  /\ local = [p \in Pid |-> NoApid]
  /\ blocked = [p \in Pid |-> NoApid]

\* A process that can make a call.
Running(p) == status[p] = "live" /\ blocked[p] = NoApid

\* current_apid_locked: the cached id if it is still this process's, otherwise
\* the first id that is.
Mine(p) == {i \in Proc : g.apid_to_pid[i] = p}

\* Mutant: the cached id is trusted without a look at the pid.
CurrentApidCached(p) ==
  IF local[p] # NoApid \/ Mine(p) = {} THEN local[p]
  ELSE CHOOSE i \in Mine(p) : \A k \in Mine(p) : i <= k

CurrentApid(p) ==
  IF local[p] \in Mine(p) THEN local[p]
  ELSE IF Mine(p) = {} THEN NoApid
  ELSE CHOOSE i \in Mine(p) : \A k \in Mine(p) : i <= k

\* A call that finds its caller's id caches it.
Calls(p, i) ==
  /\ Running(p)
  /\ CurrentApid(p) = i
  /\ local' = [local EXCEPT ![p] = i]

Fork(p, child) ==
  /\ Running(p)
  /\ status[child] = "unborn"
  /\ status' = [status EXCEPT ![child] = "live"]
  /\ local' = [local EXCEPT ![child] = local[p]]
  /\ UNCHANGED <<g, blocked>>

\* exit, or SIGKILL: what the process holds stays allocated to its id.
Die(p) ==
  /\ status[p] = "live"
  /\ Cardinality({q \in Pid : status[q] = "dead"}) < Deaths
  /\ status' = [status EXCEPT ![p] = "dead"]
  /\ blocked' = [blocked EXCEPT ![p] = NoApid]
  /\ UNCHANGED <<g, local>>

rsm_process_started(p, i) ==
  /\ Running(p)
  /\ ~ Active(g, i)
  /\ g' = Started(g, i, p)
  /\ local' = [local EXCEPT ![p] = i]
  /\ UNCHANGED <<status, blocked>>

\* Mutant: the waiters are not looked at when a process ends.
rsm_process_ended_quietly(p, i) ==
  /\ Running(p)
  /\ CurrentApid(p) = i
  /\ g' = Ended(g, i)
  /\ local' = [local EXCEPT ![p] = NoApid]
  /\ UNCHANGED <<status, blocked>>

rsm_process_ended(p, i) ==
  /\ Running(p)
  /\ CurrentApid(p) = i
  /\ g' = TrySatisfy(Ended(g, i))
  /\ local' = [local EXCEPT ![p] = NoApid]
  /\ UNCHANGED <<status, blocked>>

\* Without avoidance a claim is accepted and ignored.
rsm_claim(p, i, claim) ==
  /\ Calls(p, i)
  /\ ~ ClaimRefused(g, i, claim)
  /\ g' = IF Avoid THEN Claimed(g, i, claim) ELSE g
  /\ UNCHANGED <<status, blocked>>

RequestGranted(p, i, req) ==
  /\ Calls(p, i)
  /\ ~ RequestRefused(g, i, req)
  /\ Grantable(g, i, req)
  /\ g' = Granted(Requested(g, i, req), i, req)
  /\ UNCHANGED <<status, blocked>>

RequestWaits(p, i, req) ==
  /\ Calls(p, i)
  /\ ~ RequestRefused(g, i, req)
  /\ ~ Grantable(g, i, req)
  /\ g' = [Requested(g, i, req) EXCEPT !.waiting[i] = TRUE]
  /\ blocked' = [blocked EXCEPT ![p] = i]
  /\ UNCHANGED status

\* sem_wait(&process_sem[apid]) returns and the request call with it.
Wake(p, i) ==
  /\ status[p] = "live"
  /\ blocked[p] = i
  /\ g.process_sem[i] > 0
  /\ g' = [g EXCEPT !.process_sem[i] = @ - 1]
  /\ blocked' = [blocked EXCEPT ![p] = NoApid]
  /\ UNCHANGED <<status, local>>

rsm_release(p, i, rel) ==
  /\ Calls(p, i)
  /\ ~ ReleaseRefused(g, i, rel)
  /\ g' = TrySatisfy(Released(g, i, rel))
  /\ UNCHANGED <<status, blocked>>

\* A call refused after the caller's id was found.
RefusedCall(p, i, v) ==
  /\ Calls(p, i)
  /\ ClaimRefused(g, i, v) \/ RequestRefused(g, i, v) \/ ReleaseRefused(g, i, v)
  /\ UNCHANGED <<g, status, blocked>>

Next ==
  \E p \in Pid :
    \/ \E child \in Pid : Fork(p, child)
    \/ Die(p)
    \/ \E i \in Proc :
         \/ rsm_process_started(p, i)
         \/ rsm_process_ended(p, i)
         \/ Wake(p, i)
         \/ \E v \in Vector :
              \/ rsm_claim(p, i, v)
              \/ RequestGranted(p, i, v)
              \/ RequestWaits(p, i, v)
              \/ rsm_release(p, i, v)
              \/ RefusedCall(p, i, v)

Spec == Init /\ [][Next]_vars

-----------------------------------------------------------------------------
(* Properties.                                                             *)

\* The shared structure and the processes stay in their types.  No quantity ever
\* goes below zero, although every handler subtracts vectors without a check of
\* its own.
TypeOK ==
  /\ g \in State
  /\ status \in [Pid -> {"unborn", "live", "dead"}]
  /\ local \in [Pid -> Proc \cup {NoApid}]
  /\ blocked \in [Pid -> Proc \cup {NoApid}]

\* Instances are neither lost nor made, whichever calls grant, release, end or
\* die: what is available and what the ids hold add up to what exists.
Conserves(s) ==
  \A j \in Res :
    s.available[j] + Total([i \in Proc |-> s.allocation[i][j]], N) = Exist[j]

Conserved == Conserves(g)

\* What is free, or held by ids outside D.
Free(s, D) ==
  [ j \in Res |->
      s.available[j] + Total([i \in Proc |-> IF i \in D THEN 0 ELSE s.allocation[i][j]], N) ]

\* The members of D wait for each other: none could have what it wants even
\* if every id outside D gave back all it holds.
Stuck(s, D, want) ==
  /\ D # {}
  /\ \A i \in D : Active(s, i) /\ ~ (want[i] \preceq Free(s, D))

Safe(s) == \A D \in SUBSET Proc : ~ Stuck(s, D, s.need)

\* Avoidance keeps its promise over any sequence of calls: no set of processes
\* could deadlock by asking for all they still may.
SafeState == Avoid => Safe(g)

\* The bookkeeping of a claim: what an id holds and what it still may ask for
\* add up to its claim, and an id that has not claimed holds and may ask for
\* nothing.
Ledger(s) ==
  \A i \in Proc :
    /\ s.allocation[i] \oplus s.need[i] = s.max_demand[i]
    /\ ~ s.claimed[i] => s.max_demand[i] = Zero
    /\ s.request[i] \preceq s.need[i]

NeedLedger == Avoid => Ledger(g)

\* try_satisfy_waiting leaves nothing behind: between calls no waiter could be
\* granted.  Releases and ends, which make room, are followed by a scan; grants,
\* claims and new waiters make none.
NoMissedGrant == \A i \in Proc : ~ CanSatisfy(g, i)

\* A waiter is neither forgotten nor woken twice: the owner of an id is blocked
\* on it exactly while its request waits or its one post is pending.
NoLostWakeup ==
  \A i \in Proc :
    LET p == g.apid_to_pid[i]
        pending == g.waiting[i] \/ g.process_sem[i] > 0
    IN  /\ g.process_sem[i] <= IF g.waiting[i] THEN 0 ELSE 1
        /\ ~ Active(g, i) => ~ pending
        /\ Active(g, i) => (status[p] = "live" => (blocked[p] = i <=> pending))

\* Only a process itself gives up what it holds: while it is blocked in a
\* request, nothing another process does takes an instance from it.
BlockedKeeps ==
  [][ \A p \in Pid : \A i \in Proc :
        blocked[p] = i /\ blocked'[p] = i =>
          g.allocation[i] \preceq g'.allocation[i] /\ g'.apid_to_pid[i] = p ]_vars

\* With avoidance the manager never brings everyone to a stop: if any id is
\* active, some active id is not waiting.  An id whose process was killed outside a
\* request stays registered and counts as one that is not waiting.
SomeoneRuns ==
  Avoid /\ (\E i \in Proc : Active(g, i))
    => \E i \in Proc : Active(g, i) /\ ~ g.waiting[i]

\* The loop of is_safe decides what it is meant to decide, for every request
\* that could be tried in this state.
IsSafeExact ==
  Avoid => \A i \in Proc : \A v \in Vector :
    Active(g, i) /\ v \preceq g.need[i] /\ v \preceq g.available
      => (is_safe(g, i, v) <=> Safe(Granted(g, i, v)))

\* rsm_detection counts exactly the processes of the largest set of holders that
\* wait for each other.
DetectionExact ==
  Deadlocked(g) =
    UNION {D \in SUBSET {i \in Proc : g.allocation[i] # Zero} : Stuck(g, D, g.request)}

\* A deadlock the detection reports is real: no later call resolves it, because
\* its members cannot call and nobody else can serve them.
DeadlockStable == [][Deadlocked(g) \subseteq Deadlocked(g')]_vars

\* A wait that can never end is reported.  The manager lets an id ask for more than
\* the others could ever give back; such a waiter must then be counted as
\* deadlocked, it must not hang unseen.
HopelessIsReported ==
  \A i \in Proc :
    g.waiting[i] /\ ~ (g.request[i] \oplus g.allocation[i] \preceq Exist)
      => i \in Deadlocked(g)
=============================================================================
