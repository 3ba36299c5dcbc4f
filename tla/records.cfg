SPECIFICATION RecordsSpec
CONSTANTS
  Requests = {q1, q2}
  Apart = TRUE
  Events = {e1, e2, e3, e4}
  Leftover = e2
  Slugs = {t1, t2}
  MaxBegun = 4
  Price = 3
  Slow = FALSE
  MaxRequests = 4
  MaxErrors = 1
  Subjects = {ann, bob}
  Calls = {c1}
  CallKinds = {"run now", "status"}
  MaxPerRun = 1
  Threshold = 2
  MaxCalls = 2
  MaxFaults = 3
  MaxSkips = 1
  Overlap = FALSE
  MaxDeaths = 1
  IsPermanent = FALSE
  ScheduledAt = 2
  EarlyStart = 1
  Grace = 1
  Ops = {"start", "end", "archive"}
  Handlers = {r1}
  InitState = "scheduled"
  LastTime = 3
  MaxOps = 2
  MaxSessions = 2
  LossyHooks = TRUE
  Sessions = {s1, s2, s3}
  BeforeRule = {s1}
  MaxTime = 3
  MaxChanges = 2
  MaxFailures = 1
  MaxRefusals = 1
  Ties = FALSE
INVARIANTS
  TypesOK
  NewestStaysIn
  OneDevice
  GoodRunClears
  RecordSettles
PROPERTIES
  AddressKept
  EndedOnPurposeStays
  StaleMeetingCloses
CHECK_DEADLOCK FALSE
