SPECIFICATION AllSpec
CONSTANTS
  N = 3
  K = 2
  Word = {1, 2, 3, 4, 5}
  Strlen <- Lengths
  Inputs <- SmallInputs
  DataLengths = {2, 3, 5}
  Capacity = 5
  Pieces <- Cuts
  MaxFaults = 1
INVARIANTS TypeOK StreamIntact ImplementsIndex ThreadsIndex
PROPERTIES BothEnd
\* both programs end
CHECK_DEADLOCK FALSE
