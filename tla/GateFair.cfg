SPECIFICATION FairSpec
CONSTANTS
  c1 = c1
  c2 = c2
  c3 = c3
  r1 = r1
  r2 = r2
  k1 = k1
  h1 = h1
  None = None
  Calls = {c1, c2}
  Runners = {r1, r2}
  Keys = {k1}
  Handles = {h1}
  ToolOf <- ShareTool
  KeyOf <- ShareKey
  IntentOf <- ShareIntent
  FilesOf <- ShareFiles
INVARIANTS
  OneDeliveryPerFile
PROPERTIES
  NothingStaysOpen
CHECK_DEADLOCK FALSE
