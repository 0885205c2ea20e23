SPECIFICATION MultisigSpec
CONSTANTS
  Address = {"a1", "a2"}
  Hash = {h1, h2}
  WalletId = {"w1", "w2", "w3"}
  Members = {1}
  Amount = {1, 2}
  AmountMax = 3
  MaxAddresses = 2
  MaxTxs = 2
  MaxWallets = 1
  MaxMembers = 1
  MaxFailures = 2
  MaxTorn = 1
  MaxCrashes = 2
  Thread = {t1, t2}
  Submission <- ThreeWallets
  Stamp = {0}
  FinalStatus = {"active", "locked"}
  KexMaxEntries = 1
  KexTtl = 1
  KexMaxPeers = 8
  KexMaxRecords = 256
  MaxNow = 3
INVARIANTS TotalLocked MemoryCovers AckedKept ActiveListed
SYMMETRY Symmetry
CHECK_DEADLOCK FALSE
