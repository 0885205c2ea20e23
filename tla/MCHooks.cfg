SPECIFICATION MCSpec
CONSTANTS
  HookId = {1}
  Url = {"http", "https"}
  HttpsUrl = {"https"}
  Pid = {0, 1}
  Confirm = {2}
  BlockKind = {"pay", "sweep", "change"}
  MaxHeight = 3
  MaxForks = 1
  MaxRescans = 1
  MaxPool = 1
INVARIANTS Storable Told
PROPERTIES Consecutive OwnTimeout Delivers Drained
CHECK_DEADLOCK FALSE
