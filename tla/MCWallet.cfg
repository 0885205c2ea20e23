SPECIFICATION Spec
CONSTANTS
  Output = {"o1", "o2", "o3"}
  Image = {"k1", "k2"}
  Tx = {"r1", "r2", "s1", "s2"}
  Amount <- Amounts
  Pub <- Pubs
  Unlock <- Unlocks
  Direct = {"o1", "o3"}
  Receives <- ReceivesOf
  Rings <- RingsOf
  Request <- Imports
  Pooled = {"r1"}
  SpendableAge = 2
  AllowedDelta = 1
  Ttl = 0
  CacheTimeout = 1
  MinConfirmed = 1
  RescanDepth = 0
  AutoRescan = TRUE
  MaxHeight = 4
  MaxReorgs = 1
  MaxNow = 1
  MaxImports = 2
  MaxSubmits = 1
INVARIANTS TablesExact Balanced Offered Answerable
CHECK_DEADLOCK FALSE
