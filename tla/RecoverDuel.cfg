SPECIFICATION Spec
CONSTANTS
  N = 4
  LeaseMaster = 0
  Request = {r1, r2}
  NoRequest = NoRequest
  Writes <- TwoNodesWrite
  Recover = TRUE
  Window = 1
  Length = 1
  LogWindow = 0
  Lossy = TRUE
  Mortal = {}
  MaxSlot = 1
  MaxRound = 3
SYMMETRY Symmetry
INVARIANTS
  PhaseOneKeepsChosen
  MasterInQuorum

  
CHECK_DEADLOCK FALSE
