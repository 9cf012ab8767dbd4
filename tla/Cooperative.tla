----------------------------- MODULE Cooperative -----------------------------
(***************************************************************************)
(* What the users of tus.c are promised, without contexts, flags or loops: *)
(* one thread runs, the others that have not ended wait in a line, and the *)
(* running thread alone decides when the next one has its turn.  A thread  *)
(* that has ended keeps its id until another thread reaps it.              *)
(***************************************************************************)
EXTENDS Integers, Sequences, SequencesExt

CONSTANTS
  Id,       \* thread ids
  NoId,     \* nobody runs: the process has terminated
  InOrder   \* the first in line is next; otherwise anyone in line

VARIABLES line, running, ended

vars == <<line, running, ended>>

InLine(t) == \E k \in 1 .. Len(line) : line[k] = t

Candidates(q) == IF InOrder THEN {1} ELSE 1 .. Len(q)

Init ==
  /\ line = <<>>
  /\ running \in Id
  /\ ended = {}

\* A new thread takes an id nobody has and the last place.
Create ==
  /\ running # NoId
  /\ \E t \in Id :
       /\ t # running /\ t \notin ended /\ ~ InLine(t)
       /\ line' = Append(line, t)
  /\ UNCHANGED <<running, ended>>

\* The running thread goes to the end of the line, from which the next is taken.
Yield ==
  /\ running # NoId
  /\ LET q == Append(line, running)
     IN  \E k \in Candidates(q) : line' = RemoveAt(q, k) /\ running' = q[k]
  /\ UNCHANGED ended

\* The running thread changes places with one of its choice.
YieldTo ==
  /\ running # NoId
  /\ \E k \in 1 .. Len(line) :
       /\ line' = Append(RemoveAt(line, k), running)
       /\ running' = line[k]
  /\ UNCHANGED ended

Exit ==
  /\ running # NoId
  /\ ended' = ended \cup {running}
  /\ IF line = <<>>
     THEN running' = NoId /\ UNCHANGED line
     ELSE \E k \in Candidates(line) : line' = RemoveAt(line, k) /\ running' = line[k]

Cancel ==
  /\ running # NoId
  /\ \E k \in 1 .. Len(line) :
       /\ line' = RemoveAt(line, k)
       /\ ended' = ended \cup {line[k]}
  /\ UNCHANGED running

Reap ==
  /\ running # NoId
  /\ \E t \in ended : ended' = ended \ {t}
  /\ UNCHANGED <<line, running>>

Next == Create \/ Yield \/ YieldTo \/ Exit \/ Cancel \/ Reap

Spec == Init /\ [][Next]_vars
=============================================================================
