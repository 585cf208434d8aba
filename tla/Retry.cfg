SPECIFICATION FairSpec
CONSTANTS
  MaxTick = 2
  ChipEvents = {"NO_CARD", "CARD_ACTIVE"}
  Timeout = 1
  RetryCounts = {0, 1, 2}
  MaxU8 = 2
  s1 = s1
  Stoppers <- OneStopper
INVARIANTS
  SuccessMeansCard
  CardMeansSuccess
  AttemptsBounded
PROPERTIES
  ReadEnds
  StopEndsRead
