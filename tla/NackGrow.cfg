SPECIFICATION Spec
CONSTANTS
  N = 5
  LeaseMaster = 0
  Request = {r1, r2, r3}
  NoRequest = NoRequest
  Writes <- MasterWrites
  Recover = TRUE
  Window = 2
  Length = 3
  LogWindow = 0
  Lossy = FALSE
  Mortal = {1}
  MaxSlot = 3
  MaxRound = 2
SYMMETRY Symmetry
INVARIANTS
  LearnedIsChosen
PROPERTIES
  ImplementsLog
CHECK_DEADLOCK FALSE
