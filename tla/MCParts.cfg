SPECIFICATION PartsSpec
CONSTANTS
  None = none
  Jobs = {j1, j2}
  Artifacts = {a1, a2}
  Partial = partial
  MaxFaults = 1
  Readers = {r1, r2}
  r1 = r1
  Syncs = {s1, s2}
  Urls = {u1, u2}
  FirstUrl = u1
  Unfinished = unfinished
  MaxEvents = 3
  Requests = {q1, q2}
  Lifetime = 2
  Idle = 1
  MaxHash = 3
  MaxSessions = 2
  MaxTime = 3
  MaxBuild = 2
  MaxLines = 3
  MaxSize = 2
  Limits = {1, 2}
  ScanBudget = 7
  PageBudget = 3
  Maximum = 1
  MaxOutput = 2
  MaxWire = 2
  MaxPerformed = 2
  MaxDocs = 3
  k1 = k1
  k2 = k2
  k3 = k3
  Limit = 2
  KeyBudget = 4
  Rounds = 3
  Batch = 3
  root = root
  folder = folder
  ja = ja
  jb = jb
  JobBudget = 2
  MaxRows = 2
  MaxMeta = 2
  RowBudget = 3
  MaxTotal = 4
CHECK_DEADLOCK FALSE
INVARIANTS PartsTypeOK OnlyConfirmed InstalledIsRecorded DoneIsComplete TreeOfOrigin WholeWhenQuiet NothingSkipped ExitIsReal SessionsFollowPassword DefiniteAnswer CutIsMarked
PROPERTIES CatchesUp
