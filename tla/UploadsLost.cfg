SPECIFICATION Spec
CONSTANTS
  e1 = e1
  e2 = e2
  w1 = w1
  w2 = w2
  Requests = {e1, e2}
  Writers = {w1}
  MaxGen = 2
  MaxRevision = 1
  MaxCredential = 1
  ExpectedOf <- EnsureOnly
INVARIANT
  PublishedIsStored
CHECK_DEADLOCK FALSE
