SPECIFICATION ForkedSpec
CONSTANTS
  N = 3
  r1 = r1
  r2 = r2
  Res = {r1}
  Exist <- TwoOfOne
  Avoid = TRUE
  Cap = 2
  Deaths = 1
  Pid = {p1, p2, p3}
  NoPid = NoPid
SYMMETRY Symmetry
INVARIANTS TypeOK NeedLedger IsSafeExact SafeState NoMissedGrant SomeoneRuns NoLostWakeup
\* every process may exit, and a process may wait for one that never answers
CHECK_DEADLOCK FALSE
