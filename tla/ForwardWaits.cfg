SPECIFICATION FairSpec
CONSTANTS
  N = 3
  LeaseMaster = 0
  Request = {r1}
  NoRequest = NoRequest
  Writes <- TwoNodesWrite
  Recover = FALSE
  Window = 1
  Length = 1
  LogWindow = 1
  Lossy = FALSE
  Mortal = {}
  MaxSlot = 1
  MaxRound = 2
PROPERTIES
  ForwardReturns
CHECK_DEADLOCK FALSE
