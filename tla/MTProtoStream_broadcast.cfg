SPECIFICATION FairSpec
CONSTANTS
  Kinds = {TRUE, FALSE}
  Order <- OneEndpoint
  Times = {0, 4}
  Frames = 2
  MaxPlayed = 2
  MaxTroubles = 2
CHECK_DEADLOCK FALSE
INVARIANTS FreedOnlyAtTheEnd TimeNotPressed
PROPERTIES PlayedInOrder PlaybackResumes
