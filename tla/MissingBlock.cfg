SPECIFICATION Spec
CONSTANTS
  Kinds = {"zlib"}
  Storages = {"fork"}
  MaxSize = 2
  ShortReads = FALSE
  LostBlocks = TRUE
  DebugAssertions = FALSE
  BlockSize = 2
  Spare = 2
  MaxOffset = 15
  TableStart = 6
  TrailerLen = 1
  HeaderLen = 1
  XattrMax = 3
  CopyBuffer = 5
INVARIANT OnlyBlockPresent
