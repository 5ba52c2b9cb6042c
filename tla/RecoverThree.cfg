SPECIFICATION Spec
CONSTANTS
  N = 3
  LeaseMaster = 0
  Request = {r1, r2, r3}
  NoRequest = NoRequest
  Writes <- TwoNodesWrite
  Recover = TRUE
  Window = 1
  Length = 2
  LogWindow = 1
  Lossy = TRUE
  Mortal = {0, 1, 2}
  MaxSlot = 2
  MaxRound = 3
SYMMETRY Symmetry
INVARIANTS
  TypeOK
  LearnedIsChosen
  ChosenOnce
  WindowRespected
CHECK_DEADLOCK FALSE
