SPECIFICATION MCSpec
CONSTANTS
  Addresses = {"a", "b"}
  PayTo = "a"
  Top = 3
  Payments <- PaymentsMC
  Lookaheads <- LookaheadsMC
  Requests <- RequestsMC
  MaxSubaddresses = 5
  MajorTop = 10
  MaxOps = 3
  LastCheckpoint = 3
  ForkAt = 5
  TipMax = 7
  SyncBatch = 2
  PowWindow = 3
  MaxTurns = 3
  TxsetIds = {x1, x2, x3}
  Owners = {m1, m2}
  MaxTxsets = 3
  TxsetTtl = 2
  ClockMax = 6
INVARIANT RowsWritable
CHECK_DEADLOCK FALSE
