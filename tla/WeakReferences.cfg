SPECIFICATION Spec
CONSTANTS
  Layouts <- AllLayouts
  RootChoices <- Roots
  MaxWork = 1
  MaxCollections = 2
INVARIANTS MarksTheAlive EntriesOfTheAlive ReferencesHold FreedWhenUnused
CHECK_DEADLOCK FALSE
