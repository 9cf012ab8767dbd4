------------------------------- MODULE MCFind -------------------------------
(***************************************************************************)
(* Both programs on the same files: findlwp, and when all its processes    *)
(* have ended, findlwt.                                                    *)
(***************************************************************************)
EXTENDS FindLwp

VARIABLES worker, results, main, threadsOut

threadVars == <<worker, results, main, threadsOut>>

Threads == INSTANCE FindLwt WITH out <- threadsOut

\* Words 1 and 2 are plain and 3 is too short; 4 and 5 have a vertical tab inside, with
\* text or digits behind it.
Lengths == <<2, 2, 1, 3, 3>>
Cuts == <<<<Text(1)>>, <<Text(2)>>, <<Text(3)>>, <<Text(1), Text(2)>>, <<Text(1), Number(7)>>>>

File_(tokens) == [found |-> TRUE, tokens |-> [n \in DOMAIN tokens |->
                    [word |-> tokens[n][1], lineNo |-> tokens[n][2]]]]

Missing == [found |-> FALSE, tokens |-> <<>>]

SmallInputs ==
  { <<File_(<<<<2, 1>>, <<1, 1>>>>), Missing, File_(<<<<1, 1>>>>)>>,
    <<File_(<<<<1, 2>>>>), File_(<<>>), File_(<<<<1, 1>>, <<3, 1>>, <<1, 1>>>>)>>,
    <<File_(<<<<4, 1>>>>), File_(<<<<1, 2>>>>), File_(<<<<5, 1>>>>)>> }

AllInit == Init /\ Threads!Start

\* findlwp is through, and findlwt may run.
Turn == Ended /\ UNCHANGED vars

Lwp(A) == A /\ UNCHANGED threadVars
Lwt(A) == Turn /\ A

AllNext ==
  \/ Lwp(ForkChild) \/ Lwp(CloseWrite) \/ Lwp(Select) \/ Lwp(\E i \in ready : ReadPipe(i))
  \/ Lwp(WriteOutput) \/ Lwp(WaitChild) \/ Lwp(ParentFails) \/ Lwp(SelectFails)
  \/ \E i \in File :
       \/ Lwp(CloseInherited(i)) \/ Lwp(ReadFile(i)) \/ Lwp(WriteChunk(i))
       \/ Lwp(ChildExit(i)) \/ Lwp(Killed(i))
       \/ Lwt(Threads!OpenFile(i)) \/ Lwt(Threads!ReadToken(i)) \/ Lwt(Threads!WorkerReturn(i))
  \/ Lwt(Threads!CreateWorker) \/ Lwt(Threads!JoinWorker) \/ Lwt(Threads!WriteOutput)
  \/ Lwt(Threads!MainFails)

AllFairness ==
  /\ WF_vars(Lwp(ParentStep))
  /\ \A i \in File : WF_vars(Lwp(ChildStep(i)))
  /\ WF_threadVars(Lwt(Threads!MainStep))
  /\ \A i \in File : WF_threadVars(Lwt(Threads!WorkerStep(i)))

AllSpec == AllInit /\ [][AllNext]_<<vars, threadVars>> /\ AllFairness

ThreadsIndex == Threads!ThreadsIndex

\* Both programs end, however their processes and threads are scheduled: the processes
\* as Ends says, and then the threads.
BothEnd == <>[]((Ended /\ Threads!Returned) \/ Hung)
=============================================================================
