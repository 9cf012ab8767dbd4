------------------------------ MODULE ReadyQueue ------------------------------
(***************************************************************************)
(* The ready queue of Project2 (tus.c): a ring of TUS_MAXTHREADS cells with *)
(* a head, a tail and a size.  Removal and the random choice pop all       *)
(* entries into an array and push the rest again, so that the queue moves  *)
(* round the ring.  Tus takes the queue as a sequence; here it is shown to *)
(* be one.                                                                 *)
(***************************************************************************)
EXTENDS Iteration, Integers, Sequences, SequencesExt

CONSTANT MaxThreads   \* TUS_MAXTHREADS

ASSUME ReadyQueueAssumption == MaxThreads \in Nat \ {0}

VARIABLES
  rq,    \* the ring: ready_q, rq_head, rq_tail, rq_size
  ret    \* what the last operation returned

vars == <<rq, ret>>

Tid == 1 .. MaxThreads
TUS_SUCCESS == 0
TUS_ERROR == -1
Cell == 0 .. MaxThreads - 1

Ring ==
  [ready_q : [Cell -> Tid \cup {0}], head : Cell, tail : Cell, size : 0 .. MaxThreads]

Empty == [ready_q |-> [c \in Cell |-> 0], head |-> 0, tail |-> 0, size |-> 0]

\* The entries, head first.
Entries(r) == [k \in 1 .. r.size |-> r.ready_q[(r.head + k - 1) % MaxThreads]]

-----------------------------------------------------------------------------
(* The operations on the ring.                                             *)

\* Mutant: the tail does not wrap until it has left the ring.
rq_push_late(r, t) ==
  IF r.size >= MaxThreads THEN r
  ELSE [r EXCEPT !.ready_q[r.tail] = t, !.tail = (@ + 1) % (MaxThreads + 1), !.size = @ + 1]

rq_push(r, t) ==
  IF r.size >= MaxThreads THEN r
  ELSE [r EXCEPT !.ready_q[r.tail] = t, !.tail = (@ + 1) % MaxThreads, !.size = @ + 1]

rq_pop(r) ==
  IF r.size = 0 THEN r
  ELSE [r EXCEPT !.head = (@ + 1) % MaxThreads, !.size = @ - 1]

rq_push_front(r, t) ==
  IF r.size >= MaxThreads THEN r
  ELSE LET head == (r.head - 1 + MaxThreads) % MaxThreads
       IN  [r EXCEPT !.head = head, !.ready_q[head] = t, !.size = @ + 1]

Drained(r) == Iterate([l \in Ring |-> rq_pop(l)], r, r.size)

\* The loop that pushes what is left in temp[].
PushFirst(l) ==
  IF l.temp = <<>> THEN l
  ELSE [ring |-> rq_push(l.ring, Head(l.temp)), temp |-> Tail(l.temp)]

Refilled(r, temp) ==
  Iterate([l \in [ring : Ring, temp : Seq(Tid \cup {0})] |-> PushFirst(l)],
          [ring |-> r, temp |-> temp], Len(temp)).ring

\* Mutant: the entry after the k-th is left out.
WithoutNext(r, k) == Refilled(Drained(r), RemoveAt(Entries(r), (k % r.size) + 1))

\* All entries are popped into temp[], and pushed again but for the k-th.
Without(r, k) == Refilled(Drained(r), RemoveAt(Entries(r), k))

-----------------------------------------------------------------------------

Init == rq = Empty /\ ret = TUS_SUCCESS   \* rq_init

\* A thread enters the queue once.
Absent(t) == \A k \in 1 .. rq.size : Entries(rq)[k] # t

Full == rq.size >= MaxThreads

Push(t) ==
  /\ Absent(t)
  /\ rq' = rq_push(rq, t)
  /\ ret' = IF Full THEN TUS_ERROR ELSE TUS_SUCCESS

PushFront(t) ==
  /\ Absent(t)
  /\ rq' = rq_push_front(rq, t)
  /\ ret' = IF Full THEN TUS_ERROR ELSE TUS_SUCCESS

\* rq_pop, and pick_next_tid_by_sched under FCFS.
Pop ==
  /\ rq' = rq_pop(rq)
  /\ ret' = IF rq.size = 0 THEN TUS_ERROR ELSE rq.ready_q[rq.head]

\* pick_next_tid_by_sched under RANDOM, with idx = k - 1.
PickRandom ==
  \E k \in 1 .. rq.size : rq' = Without(rq, k) /\ ret' = Entries(rq)[k]

rq_remove_tid(t) ==
  IF Absent(t)
  THEN rq' = Refilled(Drained(rq), Entries(rq)) /\ ret' = TUS_ERROR
  ELSE /\ \E k \in 1 .. rq.size : Entries(rq)[k] = t /\ rq' = Without(rq, k)
       /\ ret' = TUS_SUCCESS

Next ==
  \/ Pop
  \/ PickRandom
  \/ \E t \in Tid : Push(t) \/ PushFront(t) \/ rq_remove_tid(t)

Spec == Init /\ [][Next]_vars

-----------------------------------------------------------------------------
(* Properties.                                                             *)

\* The indices stay in the ring and agree: rq_tail is rq_size cells after rq_head,
\* also after a removal has moved the whole queue round the ring.
TypeOK ==
  /\ rq \in Ring
  /\ rq.tail = (rq.head + rq.size) % MaxThreads

\* The ring is a queue: whatever its position in the array and however far it has
\* wrapped, every operation does to the entries, and returns, what it does in Fifo.
Queue == INSTANCE Fifo WITH Id <- Tid, line <- Entries(rq), ret <- ret

ImplementsFifo == Queue!Spec
=============================================================================
