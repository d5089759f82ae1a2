\* Nothing fails: two updates of one face's cost and a refresh.
CONSTANTS
  Hops <- MCHops
  MaxFacesPerPrefix = 0
  RegTries = 0
  MaxUpdates = 2
  MaxRegFaults = 0
  MaxUnregFaults = 0
  MaxFaceEvents = 0
SPECIFICATION MCLiveSpec
CHECK_DEADLOCK FALSE
INVARIANTS
  RibHasListedCosts
