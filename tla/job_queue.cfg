SPECIFICATION Spec
CONSTANTS
  t1 = t1
  t2 = t2
  c1 = c1
  c2 = c2
  Jobs <- MCJobs
  Lead <- MCLead
  Callers = {c1}
  Ticks = {t1, t2}
  LockTime = 1
  BlobTTL = 1
  MaxTime = 2
  MaxAhead = 1
  MaxSchedules = 3
  MaxCancels = 1
  MaxStops = 1
  Apart = TRUE
INVARIANTS TypeOK RunOnce QueuedIsWhole
SYMMETRY TickSymmetry
CHECK_DEADLOCK FALSE
