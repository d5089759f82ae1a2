\* Liveness, event-driven, one neighbour.
CONSTANTS
  Nbrs <- OneNbr
  RetryNumber = 2
  EventDriven = TRUE
  ResultDriven = FALSE
  HyperbolicStates = {"off", "on"}
  RegTries = 1
  FlowIds <- OneNbr
  MaxStale = 1
  MaxTicks = 1
  MaxFaceEvents = 1
  MaxHints = 2
  MaxHellos = 1
SPECIFICATION FairSpec
CHECK_DEADLOCK FALSE
INVARIANTS
  StaleRoutesArePending
PROPERTIES
  SweepEnds
  DeadNeighborFound
  LsaCatchesUp
