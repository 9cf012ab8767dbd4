\* Three threads (a joiner, its target and one more) under FCFS without directed
\* yields, which could starve the head of the queue; the threads are cooperative.
\* CHECK_DEADLOCK FALSE: after exit(0) nothing happens.
CONSTANTS
  MaxThreads = 3
  Fcfs = TRUE
  Directed = FALSE
SPECIFICATION FairSpec
CHECK_DEADLOCK FALSE
PROPERTIES ReadyRuns JoinReturns ImplementsCooperative
