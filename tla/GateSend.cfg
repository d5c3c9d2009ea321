SPECIFICATION Spec
CONSTANTS
  c1 = c1
  c2 = c2
  c3 = c3
  r1 = r1
  r2 = r2
  k1 = k1
  h1 = h1
  None = None
  Calls = {c1, c2, c3}
  Runners = {r1, r2}
  Keys = {k1}
  Handles = {h1}
  ToolOf <- RetryTool
  KeyOf <- RetryKey
  IntentOf <- RetryIntent
  FilesOf <- RetryFiles
SYMMETRY RetrySymmetry
INVARIANTS
  AtMostOnePerKey
  OnePerApproval
  FailedSafeIsSafe
  AnswerIsTruthful
PROPERTIES
  DeliversAsPromised
CHECK_DEADLOCK FALSE
