SPECIFICATION FairSpec
CONSTANTS
  o1 = o1
  o2 = o2
  p1 = p1
  p2 = p2
  None = None
  Ops = {o1}
  Drafts = {}
  Sessions = {o1}
  Passes = {p1}
  AttemptQuota = 1
  AttemptCap = 2
  RequestQuota = 2
  MaxWindow = 1
  MaxEpoch = 2
  MaxCredential = 1
  MaxCrashes = 0
INVARIANTS
  RowsAgree
PROPERTIES
  SettledUnderItsGrant
  NothingIsLeftRunning
