SPECIFICATION PolicySpec
CONSTANTS
  Mailboxes = {m1, m2}
  Aliases = {work, home}
  Owners = {owner, other}
  Identities = {owner, other, stranger}
  Sessions = {s1, s2, s3, s4}
  States = {x1, x2, x3}
  Tasks = {t1, t2, t3}
  Attempts = 2
  None = None
  All = All
  UserLabels = {"mine"}
  MaxSaves = 2
  m1 = m1
  m2 = m2
  work = work
  home = home
  owner = owner
  other = other
  stranger = stranger
  s1 = s1
  s2 = s2
  s3 = s3
  s4 = s4
  x1 = x1
  x2 = x2
  x3 = x3
  t1 = t1
  t2 = t2
  t3 = t3
  Workloads <- Histories
INVARIANTS
  CredentialsAgree
  NothingLeftLive
  StateServesOnce
  OneCompanion
  RunsAsDecided
PROPERTIES
  FreshLoginIsItsOwn
  SavedAsPosted
CHECK_DEADLOCK FALSE
