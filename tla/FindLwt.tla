------------------------------ MODULE FindLwt ------------------------------
(***************************************************************************)
(* The word index of several files with one thread per file (findlwt.c):   *)
(* every worker fills an array of its own, and main joins the workers and  *)
(* merges the arrays.                                                      *)
(***************************************************************************)
EXTENDS WordIndex

VARIABLES
  files,    \* the input
  worker,   \* what each worker does next: [pc, t], t counts the words it has read
  results,  \* the result of each worker: [arr, ok]
  main,     \* what main does next: [pc, i]
  out       \* the output file

vars == <<files, worker, results, main, out>>

-----------------------------------------------------------------------------
(* The workers, which end with the process.                                *)

WorkerAt(i, pc) ==
  /\ main.pc \notin {"done", "failed"}
  /\ worker[i].pc = pc

OpenFile(i) ==
  /\ WorkerAt(i, "open")
  /\ results' = [results EXCEPT ![i].ok = files[i].found]
  /\ worker' = [worker EXCEPT ![i].pc = IF files[i].found THEN "read" ELSE "returned"]
  /\ UNCHANGED <<files, main, out>>

\* The next word of the file, pushed if it counts.
ReadToken(i) ==
  LET t == worker[i].t + 1
  IN  /\ WorkerAt(i, "read")
      /\ t <= Len(files[i].tokens)
      /\ results' = [results EXCEPT ![i].arr = @ \o Occurrences(i, <<files[i].tokens[t]>>)]
      /\ worker' = [worker EXCEPT ![i].t = t]
      /\ UNCHANGED <<files, main, out>>

WorkerReturn(i) ==
  /\ WorkerAt(i, "read")
  /\ worker[i].t = Len(files[i].tokens)
  /\ worker' = [worker EXCEPT ![i].pc = "returned"]
  /\ UNCHANGED <<files, results, main, out>>

WorkerStep(i) == OpenFile(i) \/ ReadToken(i) \/ WorkerReturn(i)

-----------------------------------------------------------------------------
(* The main thread.                                                        *)

At(pc) == main.pc = pc

NextOf(pc, then) ==
  main' = IF main.i < N THEN [pc |-> pc, i |-> main.i + 1] ELSE [pc |-> then, i |-> 1]

CreateWorker ==
  /\ At("create")
  /\ results' = [results EXCEPT ![main.i] = [arr |-> <<>>, ok |-> FALSE]]
  /\ worker' = [worker EXCEPT ![main.i].pc = "open"]
  /\ NextOf("create", "join")
  /\ UNCHANGED <<files, out>>

\* Mutant: main does not wait for a worker that has a file to read.
JoinableOpen(i) == worker[i].pc # "open"

Joinable(i) == worker[i].pc = "returned"

JoinWorker ==
  /\ At("join")
  /\ Joinable(main.i)
  /\ NextOf("join", "merge")
  /\ UNCHANGED <<files, worker, results, out>>

Merged == FlattenSeq([i \in File |-> IF results[i].ok THEN results[i].arr ELSE <<>>])

WriteOutput ==
  /\ At("merge")
  /\ out' = Output(Merged)
  /\ main' = [pc |-> "done", i |-> 1]
  /\ UNCHANGED <<files, worker, results>>

\* pthread_create fails, or the output cannot be opened: main returns, and the workers
\* end with it.
MainFails ==
  /\ At("create") \/ At("merge")
  /\ main' = [pc |-> "failed", i |-> 1]
  /\ UNCHANGED <<files, worker, results, out>>

MainStep == CreateWorker \/ JoinWorker \/ WriteOutput

-----------------------------------------------------------------------------
Start ==
  /\ worker = [i \in File |-> [pc |-> "unborn", t |-> 0]]
  /\ results = [i \in File |-> [arr |-> <<>>, ok |-> FALSE]]
  /\ main = [pc |-> "create", i |-> 1]
  /\ out = <<>>

Next == MainStep \/ MainFails \/ \E i \in File : WorkerStep(i)

\* Every thread that can run does.
Fairness == WF_vars(MainStep) /\ \A i \in File : WF_vars(WorkerStep(i))

-----------------------------------------------------------------------------
(* Properties.                                                             *)

Returned == main.pc \in {"done", "failed"}

\* Whatever order the workers run in, the output of a run that does not fail is the
\* index of the files, of odd words too, and a missing file counts as an empty one.
ThreadsIndex == At("done") => IsIndex(out, files)
=============================================================================
