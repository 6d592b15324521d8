SPECIFICATION FairSpec
CONSTANTS
  Order <- TwoDevices
  Sources = {"none", "file", "same", "missing", "external"}
  EndsTold = 2
  MaxReaders = 2
  MaxCalls = 3
CHECK_DEADLOCK FALSE
INVARIANTS OnlyCurrentPlay EmptyHasCause ChangesTold
 
