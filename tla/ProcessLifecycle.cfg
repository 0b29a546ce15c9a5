SPECIFICATION FairSpec
CONSTANTS
  owner = owner
  other = other
  Clients <- BothClients
  Enablers <- Owner
  MaxRequests = 5
  MaxTcrs = 2
INVARIANTS StateTellsTruth OneRightToActivate
PROPERTIES EnablerMeetsReset AcceptedTaken
CHECK_DEADLOCK FALSE
