SPECIFICATION OneFairSpec
CONSTANTS
  Window = 3
  Total = 8
INVARIANTS
  NothingStranded
  DecidedInOrder
PROPERTIES
  ImplementsLog
  EveryWriteChosen
CHECK_DEADLOCK FALSE
