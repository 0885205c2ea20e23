SPECIFICATION TablesSpec
CONSTANTS
  Account = {a1}
  Thread = {t1}
  Tag = {x, y}
  MainTag = x
  Checkpoint = 2
  CreateQueueMax = 1
  MaxHeight = 4
  MaxReorgs = 1
  MaxFaults = 1
  MaxOps = 2
  BatchSize = 3
  ImportHeights = {0, 1, 3}
  RescanDepth = 1
  ReplaceThreshold = 1
  AutoAccept = FALSE
INVARIANTS TypeOK ChainLinked IndexOneRow NoPhantom
CHECK_DEADLOCK FALSE
