SPECIFICATION Spec
CONSTANTS
  MaxTick = 3
  ChipEvents = {"NO_CARD", "CARD_ACTIVE", "RUNNING", "DONE"}
  Timeout = 2
  s1 = s1
  Stoppers <- OneStopper
PROPERTIES
  DetectedCardIsReported
