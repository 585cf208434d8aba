SPECIFICATION FairSpec
CONSTANTS
  MaxTick = 2
  ChipEvents = {}
  Timeout = 2
  s1 = s1
  Stoppers <- OneStopper
PROPERTIES
  StopEndsRead
