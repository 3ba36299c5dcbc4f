SPECIFICATION MeetingsSpec
CONSTANTS
  r1 = r1
  r2 = r2
  Requests = {r1, r2}
  Ops = {"start", "end", "edit"}
  InitState = "scheduled"
  IsPermanent = FALSE
  ScheduledAt = 2
  EarlyStart = 1
  Grace = 1
  MaxTime = 3
  MaxOps = 2
  MaxSessions = 2
  LossyHooks = FALSE
SYMMETRY Symmetry
INVARIANTS TypeOK Coherent LookingInIsHarmless
PROPERTY ReopenedStaysOpen
CHECK_DEADLOCK FALSE
