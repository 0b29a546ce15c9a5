SPECIFICATION FairSpec
CONSTANTS
  t1 = t1
  t2 = t2
  t3 = t3
  NoThread = NoThread
  Thread <- ThreeThreads
  Impls <- Both
  Tries <- AllTries
  WasFreeArg = TRUE
  MaxDepth = 2
  MaxLeaks = 1
INVARIANTS ArrivalsAccounted
PROPERTIES ImplementsMutex FreeLockTaken
