\* Two updates, failing and timed-out commands, and a face that goes and
\* comes back.
CONSTANTS
  Hops <- MCHops
  MaxFacesPerPrefix = 0
  RegTries = 1
  MaxUpdates = 2
  MaxRegFaults = 1
  MaxUnregFaults = 1
  MaxFaceEvents = 2
SPECIFICATION MCLiveSpec
CHECK_DEADLOCK FALSE
INVARIANTS
  RibFollowsList
  FaceIdsSettle
PROPERTIES
  ListedIsRouted
  UnlistedIsDropped
