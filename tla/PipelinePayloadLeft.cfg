SPECIFICATION Spec
CONSTANTS
  Setups <- OneStaged
  FileCount = 1
  BlockCount = 1
  Limit = 1
  Sizes = {1}
  SeqCap = 1
  Capacity <- OneItemEach
  DeleteFails = {"writer"}
INVARIANTS BacklogCovered
