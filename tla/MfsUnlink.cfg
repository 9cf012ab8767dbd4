CONSTANTS
  Thread = {t1}
  f = f
  g = g
  Name = {f, g}
  Unit = {f, g}
  Request <- MCRequest
  BlockSize = 2
  BlockCount = 4
  IndexSize = 2
  InodeCount = 3
  EntryCount = 2
  MaxCrashes = 1
  TornUnlink = TRUE
  None = None
SPECIFICATION Spec
INVARIANT MapsToAllocated
