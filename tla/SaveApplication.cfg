SPECIFICATION PortSpec
CONSTANTS
  Programs <- SmallPrograms
  ReadonlyRoom = 8
  Biases <- Distances
  WordBits = 2
INVARIANTS LinksRestorable MarksTheReachable GraphSurvives MovedKeysFlagged
PROPERTY CollectionEnds
CHECK_DEADLOCK FALSE
