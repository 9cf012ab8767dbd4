\* Four cells: a queue of two or three entries lies in every position, wrapped and not.
CONSTANT MaxThreads = 4
SPECIFICATION Spec
INVARIANT TypeOK
PROPERTY ImplementsFifo
