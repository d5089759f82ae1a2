CONSTANTS
  None = None
  Dests = {r, s}
  Names = {n, own}
  OwnName = own
  Neighbors = {s}
  Hops <- MCHops
  MaxFacesPerPrefix = 1
SPECIFICATION Spec
INVARIANTS
  TableMirrorsLsdb
  PoolMirrorsTable
  FibIsCurrent
