SPECIFICATION ServerSpec
CONSTANTS
  Workers = {w1, w2}
  Adders = {main}
  Tasks = {func_routine}
  Endless = {func_routine}
  MaxDestroys = 0
  NoOwner = NoOwner
  NoTask = NoTask
CHECK_DEADLOCK FALSE
PROPERTIES SeveralThreadsServe
