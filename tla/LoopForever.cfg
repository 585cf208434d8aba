SPECIFICATION FairSpec
CONSTANTS
  MaxTick = 2
  ChipEvents = {"NO_CARD", "CARD_ACTIVE", "RUNNING", "DONE"}
  Timeout = 2
  s1 = s1
  Stoppers <- OneStopper
INVARIANTS
  SdkOwnsIrqOutsideSleep
  SleeperIsReachable
  HandleOnlyInWait
  ErrorIsReported
  AtMostOneCardAfterStop
PROPERTIES
  HeardStopIsKept
  CardStaysOnItsWay
  StopBeforeWaitEnds
  WakeReportsCard
