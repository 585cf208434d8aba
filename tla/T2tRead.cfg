SPECIFICATION Spec
CONSTANTS
  Base = 8
  BlockLen = 1
  AreaUnit = 3
  MaxBlock = 19
  TxBufSize = 15
  Tags <- SmallTags
  Caps = {2, 16}
INVARIANTS
  TypeOK
  BufferIsMemory
  OnlyTheMessage
  MessageFound
