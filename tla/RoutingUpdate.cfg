\* Three routers, with fairness.
CONSTANTS
  None = None
  Self = self
  Others = {a, b}
  Costs = {1, 2}
  MaxChanges = 5
SPECIFICATION FairSpec
CHECK_DEADLOCK FALSE
INVARIANTS
  NewLsaIsRoutedOrForgotten
  PendingIsOpen
  AnnouncedIsCalculated
PROPERTIES
  AwaitedIsAnnounced
