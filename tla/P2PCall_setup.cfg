SPECIFICATION FairSpec
CONSTANTS
  Kinds = {"audio", "video"}
  Talkers = {"caller"}
  MaxCandidates = 1
  MaxTroubles = 1
  MaxMessages = 7
CHECK_DEADLOCK FALSE
INVARIANTS CandidatesFollow MediaKnown
PROPERTIES NoneSkipped ChannelsAgree CandidatesArrive
