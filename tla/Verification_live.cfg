SPECIFICATION FairSpec
CONSTANTS
  Users = {alice, bob}
  Overtaking = FALSE
  MaxHeight = 2
  Troubled = {1}
  MaxTroubles = 1
INVARIANT ShownIsWhole
PROPERTY EveryoneVerifies
CHECK_DEADLOCK FALSE
