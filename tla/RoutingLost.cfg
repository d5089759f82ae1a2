CONSTANTS
  None = None
  Self = self
  Others = {a, b}
  Costs = {1, 2}
  MaxChanges = 4
SPECIFICATION Spec
CHECK_DEADLOCK FALSE
INVARIANTS
  NewLsaWillBeRouted
