SPECIFICATION FairSpec
CONSTANTS
  a = a
  b = b
  None = None
  Threads <- TwoThreads
  Kinds <- AllKinds
  Dnodes <- SomeDnodes
  Programs <- SomePrograms
  Top = 4096
  Low = 1024
  Limit = 1536
  Quantum = 4
  Spare = 16
  Least = 8
  HeapSegment = 8
  Room = 8
INVARIANTS NothingOverlaps RootsWhole
PROPERTY AllocationReturns
CHECK_DEADLOCK FALSE
