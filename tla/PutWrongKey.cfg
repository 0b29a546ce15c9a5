SPECIFICATION Spec
CONSTANTS
  putter = putter
  putter2 = putter2
  remover = remover
  reader = reader
  k1 = k1
  k2 = k2
  v1 = v1
  v2 = v2
  None = None
  Free = Free
  Deleted = Deleted
  Rehashing = Rehashing
  Putters <- TwoPutters
  Removers <- Nobody
  Readers <- Nobody
  Keys <- TwoKeys
  Values <- TwoValues
  MinSize = 3
  RehashSize = 1
  Slack = 2
  MaxAddress = 3
  MaxCalls = 2
  CollectInWindow = FALSE
PROPERTIES OthersKeepTheirValue
CHECK_DEADLOCK FALSE
