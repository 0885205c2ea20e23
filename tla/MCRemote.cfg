SPECIFICATION MCSpec
CONSTANTS
  Accounts = 3
  Locals = 1
  Conns = 3
  RemoteThreads <- RemoteThreadsMC
  Process <- ProcessMC
  RemoteThreshold = 1
  ReplaceThreshold = 2
  MaxBuffers = 3
  MaxTip = 2
  MaxOps = 2
INVARIANTS Covered InTurn Dealt
PROPERTIES NoReset Scanned
CHECK_DEADLOCK FALSE
