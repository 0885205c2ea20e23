SPECIFICATION KexSpec
CONSTANTS
  Address = {a1}
  Hash = {}
  WalletId = {"w1", "w2"}
  Members = {3}
  Amount = {}
  AmountMax = 0
  MaxAddresses = 16
  MaxTxs = 32
  MaxWallets = 64
  MaxMembers = 8
  MaxFailures = 1
  MaxTorn = 0
  MaxCrashes = 1
  Thread = {t1}
  Submission <- TwoWallets
  Stamp = {0}
  FinalStatus = {"active", "locked"}
  KexMaxEntries = 2
  KexTtl = 0
  KexMaxPeers = 8
  KexMaxRecords = 256
  MaxNow = 2
INVARIANTS KexAcked ReadyMeansAll
CHECK_DEADLOCK FALSE
