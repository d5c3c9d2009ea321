SPECIFICATION Spec
CONSTANTS
  o1 = o1
  o2 = o2
  p1 = p1
  p2 = p2
  None = None
  Ops = {o1, o2}
  Drafts = {}
  Sessions = {}
  Passes = {p1, p2}
  AttemptQuota = 1
  AttemptCap = 3
  RequestQuota = 2
  MaxWindow = 2
  MaxEpoch = 1
  MaxCredential = 0
  MaxCrashes = 1
INVARIANTS
  SettledIsDelivered
  WithinQuota
PROPERTIES
  LateAnswerIsHarmless
CONSTRAINT LeftAlone
SYMMETRY PassSymmetry
