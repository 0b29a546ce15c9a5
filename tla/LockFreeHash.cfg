SPECIFICATION FairSpec
CONSTANTS
  putter = putter
  putter2 = putter2
  remover = remover
  reader = reader
  k1 = k1
  k2 = k2
  v1 = v1
  v2 = v2
  None = None
  Free = Free
  Deleted = Deleted
  Rehashing = Rehashing
  Putters <- TwoPutters
  Removers <- OneRemover
  Readers <- OneReader
  Keys <- OneKey
  Values <- TwoValues
  MinSize = 3
  RehashSize = 1
  Slack = 2
  MaxAddress = 2
  MaxCalls = 2
  CollectInWindow = FALSE
INVARIANTS CountIsRight RoomIsThere
PROPERTIES ImplementsMap EveryCallReturns
CHECK_DEADLOCK FALSE
