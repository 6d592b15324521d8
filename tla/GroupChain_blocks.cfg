SPECIFICATION ChainSpec
CONSTANTS
  Sessions = {s1, s2}
  Keys = {"a1", "a2", "b1"}
  Users = {"ann", "bob"}
  Owner <- OwnerOf
  Proposals <- SomeGroups
  MaxHeight = 2
  MaxBuilt = 2
  MaxCrafted = 1
SYMMETRY Alike
CHECK_DEADLOCK FALSE
INVARIANTS Agreement KeyForMembers BuiltIsTaken
PROPERTY PowersShrink
