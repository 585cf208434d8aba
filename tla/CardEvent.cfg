SPECIFICATION EventSpec
CONSTANTS
  None = None
  Cards <- SomeCards
  MaxNdef = 2
  RawRxSize = 1
INVARIANTS
  ComponentsClosed
  NoStaleFields
  LengthAgrees
  EventTypeOK
  EventIsOfThisCard
  RawAddressesTheCard
  TagTypeAgrees
