CONSTANTS
  a = a
  b = b
  root = root
  NoTask = NoTask
  Task = {a}
  Root = root
  Parent <- MCParent
  Depth <- MCDepth
  MaxActive = 2
  MaxCalls = 4
  MaxLives = 2
SPECIFICATION Spec
CHECK_DEADLOCK FALSE
INVARIANT OldLeaseVoid
