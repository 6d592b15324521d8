SPECIFICATION Spec
CONSTANTS
  Ends = {e1, e2}
  Room = 4
  Keep = 2
  Limit = 3
  MaxCounter = 5
  Sizes = {1, 3, 5}
  Senders = {e1}
  Reordering = TRUE
  Prompt = FALSE
  MaxMessages = 3
  MaxLosses = 1
  MaxRepeats = 1
CHECK_DEADLOCK FALSE
INVARIANTS EarlierFirst OldRepeated NothingForgotten
