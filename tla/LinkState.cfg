\* Four routers; single path over mixed costs, multipath over positive ones,
\* and hyperbolic routes.  INF_DISTANCE is small, so that some paths cost more.
CONSTANTS
  a = a
  b = b
  c = c
  d = d
  None = None
  NotANumber = NotANumber
  Routers <- MCRouters
  Source = a
  NoParent = NoParent
  InfDistance = 8
  Lsdbs <- MCLsdbs
  Self = a
  Others <- MCOthers
  Nbrs <- MCNbrs
  Coordinates <- Sphere
  TwoPi = 360
  Arc <- MCArc
  Length <- MCLength
  MaxChanges = 4
SPECIFICATION MCSpec
CHECK_DEADLOCK FALSE
INVARIANTS
  Certified
  TablesAreShortest
  BestHopIsNearer
  HyperbolicRoutesAreCurrent
