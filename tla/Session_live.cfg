SPECIFICATION FairSpec
CONSTANTS
  Slots = {r1}
  JoinIndex = 1
  LeaveIndex = 3
  PageSize = 2
  MaxMain = 3
  MaxBroadcast = 2
  MaxPushes = 2
  MaxErrors = 1
  MaxConnects = 2
INVARIANT NoBroadcastSkipped
PROPERTIES BroadcastInOrder CatchesUp ConnectCreates
CHECK_DEADLOCK FALSE
