SPECIFICATION FairSpec
CONSTANTS
  N = 4
  Cap = 2
  PanicBy = {"reader", "compressor"}
INVARIANTS TypeOK ReadErrorReported
PROPERTIES ImplementsOrderedDelivery FirstErrorWins EveryoneStops
