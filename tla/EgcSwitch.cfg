SPECIFICATION Spec
CONSTANTS
  a = a
  b = b
  r = r
  s = s
  None = None
  Threads <- TwoThreads
  Roots <- OneRoot
  Statics = 1
  Dynamics = 6
  WordBits = 2
  IndexSpan = 2
  Quantum = 2
  Young = 1
  G1 = 2
  G2 = 3
  Allocators <- TwoThreads
  Storers <- Second
  Unlocked <- Second
  Elements = {}
  Switchers <- First
  Survivors = 0
  MaxWork = 5
INVARIANT MemoizationIsComplete
CHECK_DEADLOCK FALSE
