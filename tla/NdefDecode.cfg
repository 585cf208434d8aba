SPECIFICATION FairSpec
CONSTANTS
  Base = 8
  MeBit = 4
  SrBit = 2
  IlBit = 1
  MaxRecords = 2
  MaxType = 2
  Messages <- SmallMessages
INVARIANTS
  RecordsRecovered
  RecordsInside
PROPERTIES
  DecodeEnds
