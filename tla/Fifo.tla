-------------------------------- MODULE Fifo --------------------------------
(***************************************************************************)
(* What tus.c expects of its ready queue: a line of different threads.     *)
(* Each operation returns the thread it took, or whether it succeeded.     *)
(***************************************************************************)
EXTENDS Integers, Sequences, SequencesExt

CONSTANT Id

VARIABLES line, ret

vars == <<line, ret>>

SUCCESS == 0
ERROR == -1

Waits(t) == \E k \in 1 .. Len(line) : line[k] = t

Init == line = <<>> /\ ret = SUCCESS

Put(t) == ~ Waits(t) /\ line' = Append(line, t) /\ ret' = SUCCESS

PutFirst(t) == ~ Waits(t) /\ line' = <<t>> \o line /\ ret' = SUCCESS

TakeFirst == line # <<>> /\ line' = Tail(line) /\ ret' = Head(line)

TakeAny == \E k \in 1 .. Len(line) : line' = RemoveAt(line, k) /\ ret' = line[k]

Drop(t) == \E k \in 1 .. Len(line) : line[k] = t /\ line' = RemoveAt(line, k) /\ ret' = SUCCESS

Fail == line = <<>> /\ ret' = ERROR /\ UNCHANGED line

FailToDrop(t) == ~ Waits(t) /\ ret' = ERROR /\ UNCHANGED line

Next ==
  \/ TakeFirst
  \/ TakeAny
  \/ Fail
  \/ \E t \in Id : Put(t) \/ PutFirst(t) \/ Drop(t) \/ FailToDrop(t)

Spec == Init /\ [][Next]_vars
=============================================================================
