SPECIFICATION FairSpec
CONSTANTS
  a = a
  b = b
  c = c
  None = None
  Threads <- ThreeThreads
  Starters <- TwoThreads
  Deferrers <- Second
  HaveTLS = FALSE
  MaxTraps = 3
INVARIANTS WorldStopped CountsBalance LockOwnersRun
PROPERTY StopCompletes
CHECK_DEADLOCK FALSE
