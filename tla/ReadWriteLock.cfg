SPECIFICATION FairSpec
CONSTANTS
  t1 = t1
  t2 = t2
  t3 = t3
  NoThread = NoThread
  Thread <- Threads
  WriterPromotes = FALSE
  MaxDepth = 2
  MaxAborts = 1
INVARIANTS WriterExcludes SleepersCovered
PROPERTIES SleepersWake
