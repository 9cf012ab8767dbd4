SPECIFICATION BarrierSpec
CONSTANTS
  N = 2
  r1 = r1
  r2 = r2
  Res = {r1, r2}
  Exist <- OneEach
  Avoid = FALSE
  Cap = 2
  Deaths = 2
  Pid = {p1, p2}
  NoPid = NoPid
SYMMETRY Symmetry
INVARIANTS BarrierHolds
\* every process may exit, and a process may wait for one that never answers
CHECK_DEADLOCK FALSE
