SPECIFICATION Spec
CONSTANTS
  e1 = e1
  e2 = e2
  w1 = w1
  w2 = w2
  Requests = {e1, e2}
  Writers = {w1, w2}
  MaxGen = 2
  MaxRevision = 0
  MaxCredential = 1
  ExpectedOf <- FirstAndRetry
CONSTRAINT StaysConnected
SYMMETRY WriterSymmetry
INVARIANTS
  PublishedIsStored
  OneWriter
  ChargesAreTrue
CHECK_DEADLOCK FALSE
