\* This router and one origin, one service, two faces.
CONSTANTS
  Routers = {s, o}
  Self = s
  s = s
  o = o
  Prefixes = {p}
  Faces = {f1, f2}
  MaxSeq = 2
  Slots = {1, 2}
  MaxEvents = 5
SPECIFICATION Spec
SYMMETRY FaceSymmetry
CHECK_DEADLOCK FALSE
INVARIANTS
  ToldIsInstalled
  NoBranchForgotten
  AttachmentIsAssociated
