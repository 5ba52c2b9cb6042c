SPECIFICATION RestartSpec
CONSTANTS
  N = 3
  LeaseMaster = 0
  Request = {r1, r2, r3}
  NoRequest = NoRequest
  Writes <- MasterWrites
  Recover = TRUE
  Window = 3
  Length = 3
  LogWindow = 1
  Lossy = FALSE
  Mortal = {1, 2}
  Reborn = {1, 2}
  MaxSlot = 3
  MaxRound = 2
SYMMETRY Symmetry
INVARIANTS
  MasterInQuorum
PROPERTIES
  BlocksOnlyWithoutSpares
  ImplementsForgetfulLog
CHECK_DEADLOCK FALSE
