SPECIFICATION FairSpec
CONSTANTS
  Limit = 3
  Target = 2
  FileCount = 2
  Sizes = {1, 2, 3, 4}
  QueueCap = 1
  Publishers = 1
INVARIANTS TypeOK CoordinatorNeverWaits PhasesSeparate BatchBounded DrainedClean
PROPERTIES ImplementsScratchBudget EveryFileSettles
