SPECIFICATION FairSpec
CONSTANTS
  putter = putter
  remover = remover
  reader = reader
  reader2 = reader2
  k1 = k1
  k2 = k2
  v1 = v1
  v2 = v2
  None = None
  Free = Free
  Deleted = Deleted
  Zero = Zero
  Putters <- OnePutter
  Removers <- OneRemover
  Clearers <- OneRemover
  Readers <- TwoReaders
  Keys <- TwoKeys
  Values <- TwoValues
  MinSize = 1
  RehashSize = 1
  Slack = 2
  MaxAddress = 3
  MaxCalls = 3
  PromotedFirst = TRUE
  CollectInWindow = FALSE
INVARIANTS InhibitionBalanced TableInOrder
PROPERTIES ImplementsMap EveryCallReturns
CHECK_DEADLOCK FALSE
