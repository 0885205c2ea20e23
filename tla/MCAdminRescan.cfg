SPECIFICATION AdminRescanSpec
CONSTANTS
  Account = {a1}
  Thread = {t1}
  Tag = {x}
  MainTag = x
  Checkpoint = 2
  CreateQueueMax = 1
  MaxHeight = 4
  MaxReorgs = 0
  MaxFaults = 0
  MaxOps = 1
  BatchSize = 3
  ImportHeights = {3}
  RescanDepth = 1
  ReplaceThreshold = 1
  AutoAccept = FALSE
INVARIANT NoLost
CHECK_DEADLOCK FALSE
