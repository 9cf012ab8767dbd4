SPECIFICATION Spec
CONSTANTS
  Programs <- CommandLines
  Looks = 3
INVARIANTS TypeOK AcquiredIsHeld KilledOnlyWhenStuck
PROPERTIES MainEnds
\* the parent returns from main
CHECK_DEADLOCK FALSE
