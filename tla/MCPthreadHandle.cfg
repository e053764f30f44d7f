SPECIFICATION PoolFairSpec
CONSTANTS
  Workers = {w1, w2, w3}
  Adders = {a1, a2}
  Tasks = {t1, t2, t3}
  Endless = {t3}
  MaxDestroys = 2
  NoOwner = NoOwner
  NoTask = NoTask
CHECK_DEADLOCK FALSE
INVARIANTS TasksSerial NoLostWakeup FreedSafely
PROPERTIES TasksStart DestroyEnds
