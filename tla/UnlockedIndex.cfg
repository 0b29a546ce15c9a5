SPECIFICATION Spec
CONSTANTS
  a = a
  b = b
  r = r
  s = s
  None = None
  Threads <- TwoThreads
  Roots <- OneRoot
  Statics = 2
  Dynamics = 4
  WordBits = 1
  IndexSpan = 1
  Quantum = 2
  Young = 1
  G1 = 2
  G2 = 3
  Allocators <- First
  Storers <- TwoThreads
  Unlocked <- TwoThreads
  Elements = {}
  Switchers = {}
  Survivors = 1
  MaxWork = 2
INVARIANT StaticRefsIndexed
CHECK_DEADLOCK FALSE
