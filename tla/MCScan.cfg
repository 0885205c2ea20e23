SPECIFICATION ScanSpec
CONSTANTS
  Account = {a1, a2}
  Thread = {t1, t2}
  Tag = {x, y}
  MainTag = x
  Checkpoint = 4
  CreateQueueMax = 1
  MaxHeight = 6
  MaxReorgs = 2
  MaxFaults = 2
  MaxOps = 2
  BatchSize = 3
  ImportHeights = {0, 2, 3}
  RescanDepth = 1
  ReplaceThreshold = 1
  AutoAccept = TRUE
INVARIANTS NoLost IndexExact RequestCovers
CHECK_DEADLOCK FALSE
SYMMETRY Symmetry
