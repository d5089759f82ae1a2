\* Short files with something at the edge, and one file that commands change.
CONSTANTS
  Bad = Bad
  NoName = NoName
  SyncProtocols = {"psync", "svs"}
  UIntModulus = 1048576
  Garbage = {0, 3}
  Files <- MCFiles
  Names = {"a", "b"}
  Clients = {c1, c2}
  Nobody = Nobody
  Bound <- MCBound
SPECIFICATION Spec
SYMMETRY MCSymmetry
CHECK_DEADLOCK FALSE
INVARIANTS
  ReadAsWritten
  AcceptedIsUsable
  NameLsaFollowsList
  SavedSurvives
PROPERTIES
  ExitMeansDone
