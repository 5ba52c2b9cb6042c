SPECIFICATION FairSpec
CONSTANTS
  N = 4
  LeaseMaster = 0
  Request = {r1, r2, r3}
  NoRequest = NoRequest
  Writes <- MasterWrites
  Recover = FALSE
  Window = 2
  Length = 3
  LogWindow = 1
  Lossy = FALSE
  Mortal = {}
  MaxSlot = 3
  MaxRound = 2
PROPERTIES
  WriteAnswered
  LogConsumed
CHECK_DEADLOCK FALSE
