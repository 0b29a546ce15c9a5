SPECIFICATION FairSpec
CONSTANTS
  a = a
  b = b
  c = c
  None = None
  Threads <- ThreeThreads
  MaxDepth = 2
  MaxBodies = 3
  MaxAsks = 2
INVARIANT OwedIsNoted
PROPERTIES GCDisabledInBody OwedIsPaid
CHECK_DEADLOCK FALSE
