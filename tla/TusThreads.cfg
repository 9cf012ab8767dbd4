\* Four threads (so that the queue has a first, a middle and a last entry), the
\* random scheduler, which may do all the FCFS one does, and directed yields.
\* CHECK_DEADLOCK FALSE: after exit(0) nothing happens.
CONSTANTS
  MaxThreads = 4
  Fcfs = FALSE
  Directed = TRUE
SPECIFICATION Spec
CHECK_DEADLOCK FALSE
INVARIANTS TypeOK QueueExact OneRunning FlagExact LastThreadExits Room
PROPERTY OrderKept
