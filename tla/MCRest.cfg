SPECIFICATION MCRestSpec
CONSTANTS
  Conn = {c1, c2}
  Kinds = {"status", "fees", "rings", "submit"}
  Mixes = {{"status"}, {"fees"}, {"rings"}, {"submit"}}
  MaxTries = 2
  MaxRequests = 2
INVARIANTS WaitsOrAnswered PoolIdle OwnTransaction
PROPERTIES StoreUnlessFired Answered
CHECK_DEADLOCK FALSE
