\* Two neighbours, event-driven; MCHelloModes gives the constants of the
\* other mode.
CONSTANTS
  Nbrs = {1, 2}
  FlowIds = {1, 2}
  RetryNumber = 1
  RegTries = 0
  EventDriven = TRUE
  ResultDriven = TRUE
  HyperbolicStates = {"off"}
  MaxStale = 1
  MaxTicks = 1
  MaxFaceEvents = 1
  MaxHints = 1
  MaxHellos = 0
SPECIFICATION MCSpec
CHECK_DEADLOCK FALSE
INVARIANTS
  OneAuthoritativeFlow
  ResultsMatchStatus
  NoRevivalDuringSweep
  StaleLsaIsPending
  ScheduledFlagIsTrue
PROPERTIES
  PublishesOwnAdjLsa
  EveryHelloLoopGoesOn
