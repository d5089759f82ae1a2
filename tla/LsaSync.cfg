CONSTANTS
  Peers = {p1,p2}
  Contents = {c1, c2}
  Corridor = TRUE
  DryRun = FALSE
  TornWrites = FALSE
  OwnHints = FALSE
  RestartJump = 1
  MaxAttempts = 2
  MaxSeq = 3
  MaxFaults = 1
  MaxGiveUps = 0
  MaxHints = 1
  PlainMaxSeq = 3
  PlainMaxFaults = 1
  PlainMaxGiveUps = 1
SPECIFICATION MCSpec
CHECK_DEADLOCK FALSE
SYMMETRY Symmetry
INVARIANTS
  OneContentPerSeq
  NumbersStayAhead
  UnpublishedIsDeferred
PROPERTIES
  NeverOlder
