SPECIFICATION Spec
CONSTANTS
  Kinds = {"zlib"}
  Storages = {"fork"}
  MaxSize = 2
  ShortReads = TRUE
  LostBlocks = FALSE
  DebugAssertions = TRUE
  BlockSize = 2
  Spare = 2
  MaxOffset = 15
  TableStart = 6
  TrailerLen = 1
  HeaderLen = 1
  XattrMax = 3
  CopyBuffer = 5
INVARIANT OneBlockAtMost
