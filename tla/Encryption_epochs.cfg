SPECIFICATION Spec
CONSTANTS
  Users = {u1, u2}
  Delay = 1
  MaxEpochs = 2
  Window = 2
  MaxSeqno = 6
  MaxHeight = 3
  MaxTime = 2
  MaxPackets = 4
SYMMETRY UserSymmetry
CHECK_DEADLOCK FALSE
INVARIANTS AcceptedOnce KeysMeet
