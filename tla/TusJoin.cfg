\* Three threads suffice: two joiners of the same target.
CONSTANTS
  MaxThreads = 3
  Fcfs = TRUE
  Directed = FALSE
SPECIFICATION JoinSpec
CHECK_DEADLOCK FALSE
INVARIANT JoinWaitsForItsTarget
