SPECIFICATION Spec
CONSTANTS
  N = 3
  r1 = r1
  r2 = r2
  Res = {r1, r2}
  Exist <- OneEach
  Avoid = FALSE
  Cap = 2
  Deaths = 1
  Pid = {p1, p2, p3}
  NoPid = NoPid
SYMMETRY Symmetry
INVARIANTS Conserved NoMissedGrant DetectionExact HopelessIsReported
PROPERTIES BlockedKeeps DeadlockStable
\* every process may exit, and a process may wait for one that never answers
CHECK_DEADLOCK FALSE
