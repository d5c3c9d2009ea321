SPECIFICATION Spec
CONSTANTS
  Handles = {h1, h2}
  Paths = {p1, p2}
  Other = Other
  None = None
  h1 = h1
  h2 = h2
  p1 = p1
  p2 = p2
  MaxHelpers = 3
  MaxTouches = 1
  MaxLosses = 1
  Asks <- Calls
INVARIANTS
  AcknowledgedIsDurable
  BudgetIsTrue
  StopsStrandNoSave
PROPERTIES
  PublicationIsFinal
CHECK_DEADLOCK FALSE
