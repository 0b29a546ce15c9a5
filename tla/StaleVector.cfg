SPECIFICATION Spec
CONSTANTS
  putter = putter
  remover = remover
  reader = reader
  reader2 = reader2
  k1 = k1
  k2 = k2
  v1 = v1
  v2 = v2
  None = None
  Free = Free
  Deleted = Deleted
  Zero = Zero
  Putters <- OnePutter
  Removers <- Nobody
  Clearers <- Nobody
  Readers <- TwoReaders
  Keys <- TwoKeys
  Values <- OneValue
  MinSize = 1
  RehashSize = 1
  Slack = 2
  MaxAddress = 3
  MaxCalls = 3
  PromotedFirst = FALSE
  CollectInWindow = FALSE
PROPERTIES FindsTheEntry
CHECK_DEADLOCK FALSE
