SPECIFICATION PoolFairSpec
CONSTANTS
  Worker = {w1, w2, w3}
  Task = {t1, t2, t3}
  NoTask = NoTask
  Throwing = {t3}
  Caller = {c1}
  Size = {0, 1, 2}
  Threshold = {0, 1}
  MaxResize = 2
INVARIANTS
  CountersMatch
  NoLostWakeup
PROPERTIES
  QuietAfterWait
  ShutdownReturns
  WaitReturns
  ImplementsExecutor
CHECK_DEADLOCK FALSE
