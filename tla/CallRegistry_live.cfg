SPECIFICATION FairSpec
CONSTANTS
  Chats = {c1}
  Kinds = {"p2p", "group"}
  Modes = {"rtc", "stream"}
  Careful = TRUE
  Early = FALSE
  Failing = TRUE
  MaxCalls = 2
  MaxConnects = 2
  MaxChanges = 2
CHECK_DEADLOCK FALSE
INVARIANTS NothingLeftOpen ReportsInOrder StartsOnce
PROPERTIES RemovedForCause EndedIsRemoved ConnectingResolves
