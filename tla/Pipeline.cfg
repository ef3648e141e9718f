SPECIFICATION FairSpec
CONSTANTS
  Setups <- AllSetups
  FileCount = 2
  BlockCount = 2
  Limit = 1
  Sizes = {1, 2}
  SeqCap = 1
  Capacity <- OneItemEach
  DeleteFails = {"publisher"}
INVARIANTS TypeOK PublishedComplete VerifierOwnsSource BacklogCovered
PROPERTIES ImplementsScratchBudget EverythingEnds
