SPECIFICATION FairSpec
CONSTANTS
  Downloads = {d1}
  Inlines = {u1}
  Streams = {s1, s2}
  Ackers = {a1, a2}
  Bytes = 1
  Records = 2
  OwnStreams = 2
  Lease = 1
  Ttl = 2
  Retain = 3
  Horizon = 4
  d1 = d1
  u1 = u1
  s1 = s1
  s2 = s2
  a1 = a1
  a2 = a2
  Workloads <- Histories
INVARIANTS
  FilesAreThere
  StorageIsCharged
PROPERTIES
  AcknowledgedOnce
  StagingEmpties
CHECK_DEADLOCK FALSE
