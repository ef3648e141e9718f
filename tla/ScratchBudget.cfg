SPECIFICATION FairSpec
CONSTANTS
  Limit = 3
  Requests = {f1, f2, f3}
  Sizes = {0, 1, 2, 3, 4}
INVARIANTS TypeOK Conserved NoLostWakeup
PROPERTIES NothingAdmittedAfterStop EveryRequestSettles
