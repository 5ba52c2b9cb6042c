SPECIFICATION ClientFairSpec
CONSTANTS
  Mode = {0, 1, 2}
  Ratio = {10, 100}
  ComWin = 2
  OpenLoop = 4
  Block = 3
  Punches = 2
  MaxCounter = 6
INVARIANTS
  WindowAccounted
  OneOddPerBlock
  AtMostOneLate
  CountedOnce
PROPERTIES
  LoadGoesOn
CHECK_DEADLOCK FALSE
