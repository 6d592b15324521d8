SPECIFICATION Spec
CONSTANTS
  Chats = {c1}
  Kinds = {"p2p"}
  Modes = {"rtc"}
  Careful = TRUE
  Early = FALSE
  Failing = FALSE
  MaxCalls = 1
  MaxConnects = 1
  MaxChanges = 1
CHECK_DEADLOCK FALSE
INVARIANT StopRaises
