SPECIFICATION Spec
CONSTANTS
  Keys = {k1, k2}
  k1 = k1
  k2 = k2
  None = None
  Kinds = {"stage", "login", "commit", "logout", "other"}
  MaxSnapshots = 1
  MaxHelpers = 5
  MaxGenerations = 2
SYMMETRY Symmetry
INVARIANTS
  SpoolIsTrue
  OneIdEach
  LogoutHolds
PROPERTIES
  ReleasedIsStored
CHECK_DEADLOCK FALSE
