SPECIFICATION FairSpec
CONSTANTS
  Ends = {e1, e2}
  Room = 3
  Keep = 8
  Limit = 3
  MaxCounter = 20
  Sizes = {1}
  Senders = {e1, e2}
  Reordering = FALSE
  Prompt = TRUE
  MaxMessages = 2
  MaxLosses = 1
  MaxRepeats = 1
CHECK_DEADLOCK FALSE
PROPERTY ChannelsInOrder EarlierArrive
