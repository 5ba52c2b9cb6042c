SPECIFICATION Spec
CONSTANTS
  N = 3
  LeaseMaster = 0
  Request = {r1, r2}
  NoRequest = NoRequest
  Writes <- TwoNodesWrite
  Recover = TRUE
  Window = 1
  Length = 1
  LogWindow = 0
  Lossy = FALSE
  Mortal = {0}
  MaxSlot = 1
  MaxRound = 2
SYMMETRY Symmetry
INVARIANTS
  Agreement
CHECK_DEADLOCK FALSE
