SPECIFICATION Spec
CONSTANTS
  a = a
  b = b
  r = r
  s = s
  None = None
  Threads <- TwoThreads
  Roots <- OneRoot
  Statics = 1
  Dynamics = 4
  WordBits = 2
  IndexSpan = 2
  Quantum = 2
  Young = 1
  G1 = 2
  G2 = 3
  Allocators <- First
  Storers <- Second
  Unlocked <- Second
  Elements <- OneRoot
  Switchers = {}
  Survivors = 0
  MaxWork = 3
PROPERTY ListHoldsElement
CHECK_DEADLOCK FALSE
