SPECIFICATION Spec
CONSTANTS
  N = 2
  Cap = 2
  PanicBy = {"compressor"}
INVARIANTS UnfinishedSlotIsError
