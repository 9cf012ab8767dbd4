-------------------------------- MODULE Tus --------------------------------
(***************************************************************************)
(* The user-level threads of Project2 (tus.c).  Threads are cooperative:   *)
(* only the current one executes, and a library call runs undisturbed      *)
(* until it calls setcontext.  So a step is the code between two points    *)
(* where control passes from one thread's stack to another's, or from the  *)
(* library back to the thread's own code.                                  *)
(*                                                                         *)
(* Calls the library refuses without touching its state (a second          *)
(* tus_init, a bad id, a full table) are steps that change nothing.        *)
(***************************************************************************)
EXTENDS Integers, Sequences, SequencesExt

CONSTANTS
  MaxThreads,  \* TUS_MAXTHREADS
  Fcfs,        \* sched_alg is ALG_FCFS; otherwise ALG_RANDOM
  Directed     \* threads also call tus_yield with the id of a thread

ASSUME TusAssumption ==
  /\ MaxThreads \in Nat \ {0}
  /\ Fcfs \in BOOLEAN
  /\ Directed \in BOOLEAN

VARIABLES
  threads,      \* the TCB of every id
  ready_q,      \* the ready queue, head first
  current_tid,
  pc            \* what the current thread executes next, see below

vars == <<threads, ready_q, current_tid, pc>>

Tid == 1 .. MaxThreads
TUS_ANY == 0
Stub == -1

-----------------------------------------------------------------------------
(* A TCB, with the part of the thread's stack the library depends on:      *)
(* saved is where the saved context continues, Stub for a thread that has  *)
(* not run, otherwise the argument of the tus_yield it is in; joining is   *)
(* the target of the tus_join loop around that yield, 0 if there is none.  *)
(* Of yield_result only its being TUS_ERROR or a tid matters.              *)

TCB ==
  [ state       : {"NONE", "READY", "RUNNING", "ENDED"},
    resume_flag : BOOLEAN,
    yielded     : BOOLEAN,
    saved       : {Stub, TUS_ANY} \cup Tid,
    joining     : 0 .. MaxThreads ]

NewTcb(s) ==
  [state |-> s, resume_flag |-> FALSE, yielded |-> FALSE, saved |-> Stub, joining |-> 0]

NoTcb == NewTcb("NONE")   \* no slot of threads[] has this id

\* state T_ENDED and resume_flag 0; the rest of the TCB and the stack of a thread
\* that has ended are not looked at again and left out.
EndedTcb == NewTcb("ENDED")

\* The current thread runs its own code, is about to continue at its saved
\* context, is about to test the condition of tus_join's loop, or the process
\* has called exit(0).
Pc == {"app", "context", "join", "exited"}

Is(t, s) == threads[t].state = s

\* pick_next_tid_by_sched: the places of q it may take the next thread from.
Picks(q) == IF Fcfs THEN {1} ELSE 1 .. Len(q)

\* rq_remove_tid: the place of the first entry for t, 0 if there is none.
PlaceOf(q, t) ==
  IF \E k \in 1 .. Len(q) : q[k] = t
  THEN CHOOSE k \in 1 .. Len(q) : q[k] = t /\ \A m \in 1 .. k - 1 : q[m] # t
  ELSE 0

Init ==   \* tus_init
  /\ threads = [t \in Tid |-> IF t = 1 THEN NewTcb("RUNNING") ELSE NoTcb]
  /\ ready_q = <<>>
  /\ current_tid = 1
  /\ pc = "app"

-----------------------------------------------------------------------------
(* tus_yield, from the point where getcontext returns.  Here th is threads *)
(* as the call has changed it so far.                                      *)

\* Mutant: tus_join tests its condition once, as an if would.
ReturnFromJoinToo(t, th, ok) ==
  /\ pc' = "app"
  /\ threads' = IF ok THEN th ELSE [th EXCEPT ![t].joining = 0]
  /\ UNCHANGED current_tid

\* tus_yield returns to the thread's code, or to tus_join, which gives up on an
\* error and otherwise tests its condition again.
Return(t, th, ok) ==
  /\ pc' = IF th[t].joining # 0 /\ ok THEN "join" ELSE "app"
  /\ threads' = IF ok THEN th ELSE [th EXCEPT ![t].joining = 0]
  /\ UNCHANGED current_tid

\* Mutant: the next thread is left ready.
SwitchToReady(next, th) ==
  /\ threads' = th
  /\ current_tid' = next
  /\ pc' = "context"

\* setcontext
SwitchTo(next, th) ==
  /\ threads' = [th EXCEPT ![next].state = "RUNNING"]
  /\ current_tid' = next
  /\ pc' = "context"

\* The caller waits in the queue for its next turn.
Waiting(t, th) == [th EXCEPT ![t].yielded = TRUE, ![t].state = "READY"]

YieldFails(t, th) ==
  /\ Return(t, [th EXCEPT ![t].resume_flag = FALSE], FALSE)
  /\ UNCHANGED ready_q

\* Mutant: the caller is pushed at the front of the queue.
YieldToAnyFront(t, th) ==
  LET q == <<t>> \o ready_q
  IN  \E k \in Picks(q) :
        /\ ready_q' = RemoveAt(q, k)
        /\ SwitchTo(q[k], Waiting(t, th))

YieldToAny(t, th) ==
  IF Len(ready_q) >= MaxThreads
  THEN YieldFails(t, th)
  ELSE LET q == Append(ready_q, t)
       IN  \E k \in Picks(q) :
             /\ ready_q' = RemoveAt(q, k)
             /\ SwitchTo(q[k], Waiting(t, th))

\* Mutant: the target stays in the queue.
YieldToThreadQueued(t, target, th) ==
  IF target = t
  THEN /\ Return(t, [th EXCEPT ![t].yielded = TRUE, ![t].resume_flag = FALSE], TRUE)
       /\ UNCHANGED ready_q
  ELSE IF th[target].state # "READY"
       THEN YieldFails(t, th)
       ELSE /\ ready_q' = Append(ready_q, t)
            /\ SwitchTo(target, Waiting(t, th))

YieldToThread(t, target, th) ==
  IF target = t
  THEN /\ Return(t, [th EXCEPT ![t].yielded = TRUE, ![t].resume_flag = FALSE], TRUE)
       /\ UNCHANGED ready_q
  ELSE LET k == PlaceOf(ready_q, target)
       IN  IF th[target].state # "READY" \/ k = 0
           THEN YieldFails(t, th)
           ELSE /\ ready_q' = Append(RemoveAt(ready_q, k), t)
                /\ SwitchTo(target, Waiting(t, th))

\* Mutant: resume_flag is not cleared when the thread is resumed.
AfterGetcontextSticky(t, arg, th) ==
  IF th[t].resume_flag
  THEN /\ Return(t, [th EXCEPT ![t].state = "RUNNING"], th[t].yielded)
       /\ UNCHANGED ready_q
  ELSE LET flagged == [th EXCEPT ![t].resume_flag = TRUE]
       IN  IF arg = TUS_ANY THEN YieldToAny(t, flagged)
                            ELSE YieldToThread(t, arg, flagged)

AfterGetcontext(t, arg, th) ==
  IF th[t].resume_flag
  THEN /\ Return(t, [th EXCEPT ![t].resume_flag = FALSE, ![t].state = "RUNNING"],
                 th[t].yielded)
       /\ UNCHANGED ready_q
  ELSE LET flagged == [th EXCEPT ![t].resume_flag = TRUE]
       IN  IF arg = TUS_ANY THEN YieldToAny(t, flagged)
                            ELSE YieldToThread(t, arg, flagged)

Yield(t, arg) == AfterGetcontext(t, arg, [threads EXCEPT ![t].saved = arg])

-----------------------------------------------------------------------------
(* The steps of the current thread.                                        *)

At(t, p) == current_tid = t /\ pc = p

\* Mutant: a new thread is put at the front of the queue.
tus_create_thread_front(t) ==
  /\ At(t, "app")
  /\ \E new \in Tid :
       /\ Is(new, "NONE")
       /\ \A lower \in 1 .. new - 1 : ~ Is(lower, "NONE")
       /\ threads' = [threads EXCEPT ![new] = NewTcb("READY")]
       /\ ready_q' = <<new>> \o ready_q
  /\ UNCHANGED <<current_tid, pc>>

tus_create_thread(t) ==
  /\ At(t, "app")
  /\ \E new \in Tid :
       /\ Is(new, "NONE")
       /\ \A lower \in 1 .. new - 1 : ~ Is(lower, "NONE")
       /\ IF Len(ready_q) >= MaxThreads
          THEN UNCHANGED <<threads, ready_q>>
          ELSE /\ threads' = [threads EXCEPT ![new] = NewTcb("READY")]
               /\ ready_q' = Append(ready_q, new)
  /\ UNCHANGED <<current_tid, pc>>

tus_yield(t, arg) ==
  /\ At(t, "app")
  /\ Yield(t, arg)

\* What setcontext jumped to: stub, which calls the thread's function, or the
\* second return of getcontext.
Resume(t) ==
  /\ At(t, "context")
  /\ IF threads[t].saved = Stub
     THEN pc' = "app" /\ UNCHANGED <<threads, ready_q, current_tid>>
     ELSE AfterGetcontext(t, threads[t].saved, threads)

\* Mutant: the process also terminates when the main thread exits.
tus_exit_with_main(t) ==
  /\ At(t, "app")
  /\ LET ended == [threads EXCEPT ![t] = EndedTcb]
     IN  IF ready_q = <<>> \/ t = 1
         THEN threads' = ended /\ pc' = "exited" /\ UNCHANGED <<ready_q, current_tid>>
         ELSE \E k \in Picks(ready_q) :
                /\ ready_q' = RemoveAt(ready_q, k)
                /\ SwitchTo(ready_q[k], ended)

\* Called by the thread, or by stub when the thread's function returns.
tus_exit(t) ==
  /\ At(t, "app")
  /\ LET ended == [threads EXCEPT ![t] = EndedTcb]
     IN  IF ready_q = <<>>
         THEN threads' = ended /\ pc' = "exited" /\ UNCHANGED <<ready_q, current_tid>>
         ELSE \E k \in Picks(ready_q) :
                /\ ready_q' = RemoveAt(ready_q, k)
                /\ SwitchTo(ready_q[k], ended)

tus_join(t, target) ==
  /\ At(t, "app")
  /\ target # t /\ ~ Is(target, "NONE")
  /\ threads' = [threads EXCEPT ![t].joining = target]
  /\ pc' = "join"
  /\ UNCHANGED <<ready_q, current_tid>>

\* Mutant: the loop waits for the target to be gone, not ended.
JoinLoopUntilGone(t) ==
  /\ At(t, "join")
  /\ IF Is(threads[t].joining, "NONE")
     THEN /\ threads' = [threads EXCEPT ![t].joining = 0]
          /\ pc' = "app"
          /\ UNCHANGED <<ready_q, current_tid>>
     ELSE Yield(t, TUS_ANY)

\* One turn of the loop of tus_join: the target is looked up by its id again.
JoinLoop(t) ==
  /\ At(t, "join")
  /\ LET target == threads[t].joining
     IN  CASE Is(target, "NONE") ->
                /\ threads' = [threads EXCEPT ![t].joining = 0]
                /\ pc' = "app"
                /\ UNCHANGED <<ready_q, current_tid>>
           [] Is(target, "ENDED") ->
                /\ threads' = [threads EXCEPT ![t].joining = 0, ![target] = NoTcb]
                /\ pc' = "app"
                /\ UNCHANGED <<ready_q, current_tid>>
           [] OTHER -> Yield(t, TUS_ANY)

\* Mutant: a cancelled thread is not taken out of the queue.
tus_cancel_queued(t, target) ==
  /\ At(t, "app")
  /\ target # t /\ ~ Is(target, "NONE") /\ ~ Is(target, "ENDED")
  /\ threads' = [threads EXCEPT ![target] = EndedTcb]
  /\ UNCHANGED <<ready_q, current_tid, pc>>

\* Mutant: the last entry of the queue is moved into the place of the cancelled one.
tus_cancel_swapping(t, target) ==
  /\ At(t, "app")
  /\ target # t /\ Is(target, "READY")
  /\ LET k == PlaceOf(ready_q, target)
         n == Len(ready_q)
     IN  ready_q' = [j \in 1 .. n - 1 |-> IF j = k THEN ready_q[n] ELSE ready_q[j]]
  /\ threads' = [threads EXCEPT ![target] = EndedTcb]
  /\ UNCHANGED <<current_tid, pc>>

tus_cancel(t, target) ==
  /\ At(t, "app")
  /\ target # t /\ ~ Is(target, "NONE") /\ ~ Is(target, "ENDED")
  /\ LET k == PlaceOf(ready_q, target)
     IN  /\ Is(target, "READY") => k # 0
         /\ ready_q' = IF Is(target, "READY") THEN RemoveAt(ready_q, k) ELSE ready_q
  /\ threads' = [threads EXCEPT ![target] = EndedTcb]
  /\ UNCHANGED <<current_tid, pc>>

Next ==
  \E t \in Tid :
    \/ tus_create_thread(t)
    \/ tus_yield(t, TUS_ANY)
    \/ \E target \in Tid : Directed /\ tus_yield(t, target)
    \/ Resume(t)
    \/ tus_exit(t)
    \/ \E target \in Tid : tus_join(t, target)
    \/ JoinLoop(t)
    \/ \E target \in Tid : tus_cancel(t, target)

Spec == Init /\ [][Next]_vars

\* The threads take their turns: library code runs on, and every thread, whatever
\* it calls in between, sooner or later yields to any thread or exits.  This is
\* what "cooperative" asks of the program that uses the library.
Fairness ==
  \A t \in Tid :
    /\ WF_vars(Resume(t) \/ JoinLoop(t))
    /\ SF_vars(tus_yield(t, TUS_ANY) \/ tus_exit(t))

FairSpec == Spec /\ Fairness

-----------------------------------------------------------------------------
(* Properties.                                                             *)

\* The types of the library's state.  A running join has a target, a thread in its
\* own code is not in a join, and a thread that has not run is in no call.
TypeOK ==
  /\ threads \in [Tid -> TCB]
  /\ ready_q \in Seq(Tid)
  /\ current_tid \in Tid
  /\ pc \in Pc
  /\ pc = "join" => threads[current_tid].joining # 0
  /\ pc = "app" => threads[current_tid].joining = 0
  /\ \A t \in Tid :
       Is(t, "READY") \/ At(t, "context")
         => (threads[t].saved = Stub => threads[t].joining = 0)

\* State and queue, changed separately by create, yield, cancel, exit and join, always
\* agree: the queue holds every ready thread once and nothing else, so that no
\* thread is lost, resumed twice, or resumed after its stack is gone.
Queued(t) == \E k \in 1 .. Len(ready_q) : ready_q[k] = t

QueueExact ==
  /\ \A t \in Tid : Is(t, "READY") <=> Queued(t)
  /\ \A j, k \in 1 .. Len(ready_q) : ready_q[j] = ready_q[k] => j = k

\* Exactly the current thread is running.
OneRunning == \A t \in Tid : Is(t, "RUNNING") <=> t = current_tid /\ pc # "exited"

\* resume_flag tells the two returns of getcontext apart: it is set exactly while the
\* thread is suspended inside tus_yield.  Were it set at a call, the yield would
\* return without giving up the processor; were it clear at a resume, the
\* resumed thread would yield again.
FlagExact ==
  \A t \in Tid :
    threads[t].resume_flag <=>
      threads[t].saved # Stub /\ (Is(t, "READY") \/ At(t, "context"))

\* The process terminates when the last thread that has not ended exits, and not
\* while any other could still run.
LastThreadExits ==
  pc = "exited" <=> \A t \in Tid : Is(t, "NONE") \/ Is(t, "ENDED")

\* The queue always has a place for the current thread, although tus_yield pushes
\* before it pops: rq_push does not fail.
Room == pc # "exited" => Len(ready_q) < MaxThreads

\* Threads that wait do not overtake each other, whichever thread leaves the
\* queue in front of, behind or between them, and however the queue is rebuilt.
Before(q, t, u) == PlaceOf(q, t) # 0 /\ PlaceOf(q, t) < PlaceOf(q, u)

OrderKept ==
  [][ \A t, u \in Tid :
        Before(ready_q, t, u) /\ PlaceOf(ready_q', t) # 0 /\ PlaceOf(ready_q', u) # 0
          => Before(ready_q', t, u) ]_vars

\* Under FCFS, and without directed yields, every ready thread runs or is cancelled.
ReadyRuns == \A t \in Tid : Is(t, "READY") ~> ~ Is(t, "READY")

\* A join whose target has ended notices it, however the turns fall: the joiner
\* returns, unless it is cancelled or another joiner reaps the target.
JoinReturns ==
  \A t, target \in Tid :
    threads[t].joining = target /\ Is(target, "ENDED")
      ~> threads[t].joining # target \/ Is(t, "ENDED") \/ ~ Is(target, "ENDED")

\* The library keeps what Cooperative promises.
Abstract ==
  INSTANCE Cooperative WITH
    Id <- Tid, NoId <- 0, InOrder <- Fcfs,
    line <- ready_q,
    running <- IF pc = "exited" THEN 0 ELSE current_tid,
    ended <- {t \in Tid : Is(t, "ENDED")}

ImplementsCooperative == Abstract!Spec
=============================================================================
