SPECIFICATION Spec
CONSTANTS
  N = 3
  LeaseMaster = 0
  Request = {r1, r2, r3}
  NoRequest = NoRequest
  Writes <- TwoNodesWrite
  Recover = TRUE
  Window = 1
  Length = 2
  LogWindow = 0
  Lossy = FALSE
  Mortal = {}
  MaxSlot = 2
  MaxRound = 2
SYMMETRY Symmetry
PROPERTIES
  OwnChoiceReported
CHECK_DEADLOCK FALSE
