SPECIFICATION FairIncoming
CONSTANTS
  Speakers = {"ann", "bob", "eve"}
  Cameras = {"cam"}
  Kinds = {TRUE, FALSE}
  Lists <- SomeLists
  Limit = 1
CHECK_DEADLOCK FALSE
INVARIANT NothingUnwanted
PROPERTIES  UnknownAskedAgain IdleRemoved
