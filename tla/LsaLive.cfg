CONSTANTS
  Peers = {p1}
  Contents = {c1, c2}
  Corridor = TRUE
  DryRun = FALSE
  TornWrites = FALSE
  OwnHints = FALSE
  RestartJump = 1
  MaxAttempts = 1
  MaxSeq = 3
  MaxFaults = 1
  MaxGiveUps = 0
  MaxHints = 1
  PlainMaxSeq = 4
  PlainMaxFaults = 2
  PlainMaxGiveUps = 0
SPECIFICATION MCFairSpec
CHECK_DEADLOCK FALSE
PROPERTIES
  Convergence
  Forgotten
