SPECIFICATION Spec
CONSTANTS
  N = 4
  LeaseMaster = 0
  Request = {r1, r2, r3}
  NoRequest = NoRequest
  Writes <- TwoNodesWrite
  Recover = FALSE
  Window = 2
  Length = 2
  LogWindow = 1
  Lossy = TRUE
  Mortal = {}
  MaxSlot = 3
  MaxRound = 2
SYMMETRY Symmetry
INVARIANTS
  WindowRespected
  PiggybackResolvable
  AnnouncedOnce
  NoPhaseOne
PROPERTIES
  ImplementsLog
CHECK_DEADLOCK FALSE
