SPECIFICATION Spec
CONSTANTS
  Cores = {0, 1}
  Processes = {1, 2}
  Pages = {0, 1}
  Frames = {1, 2}
  TlbSlots = 1
  MayDisable = {1}
  Translating = {0}
  Interval = 1
  MaxPending = 2
  MaxOperations = 3
  Contexts <- MCContexts
INVARIANTS StaleHitIsOwed RequestIsSignalled
CHECK_DEADLOCK FALSE
