SPECIFICATION Spec
CONSTANTS
  Kinds = {"zlib", "lzvn", "lzfse"}
  Storages = {"fork", "disk", "memory"}
  MaxSize = 5
  ShortReads = TRUE
  LostBlocks = TRUE
  DebugAssertions = TRUE
  BlockSize = 2
  Spare = 2
  MaxOffset = 15
  TableStart = 6
  TrailerLen = 1
  HeaderLen = 1
  XattrMax = 3
  CopyBuffer = 5
INVARIANTS TypeOK ReservationSuffices PublishedIsReadable
PROPERTIES ImplementsBlockFile
