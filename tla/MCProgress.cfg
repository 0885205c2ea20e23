SPECIFICATION ProgressSpec
CONSTANTS
  Account = {a1}
  Thread = {t1, t2}
  Tag = {x, y}
  MainTag = x
  Checkpoint = 2
  CreateQueueMax = 1
  MaxHeight = 4
  MaxReorgs = 1
  MaxFaults = 1
  MaxOps = 1
  BatchSize = 3
  ImportHeights = {}
  RescanDepth = 1
  ReplaceThreshold = 1
  AutoAccept = FALSE
PROPERTIES Converges Ledgered
CHECK_DEADLOCK FALSE
