CONSTANTS
  Thread = {t1, t2}
  f = f
  g = g
  Name = {f, g}
  Unit = {f, g}
  Request <- MCRequest
  BlockSize = 2
  BlockCount = 4
  IndexSize = 2
  InodeCount = 3
  EntryCount = 2
  MaxCrashes = 0
  TornUnlink = FALSE
  None = None
SPECIFICATION Spec
PROPERTY OverwritesNothing
