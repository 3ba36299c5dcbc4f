SPECIFICATION DispatchSpec
CONSTANTS
  t1 = t1
  t2 = t2
  c1 = c1
  c2 = c2
  Jobs <- MCJobs
  Lead <- MCLead
  Callers = {c1}
  Ticks = {t1, t2}
  LockTime = 1
  BlobTTL = 4
  MaxTime = 2
  MaxAhead = 1
  MaxSchedules = 2
  MaxCancels = 1
  MaxStops = 0
  Apart = TRUE
PROPERTIES DueIsTaken NeverLeftWithNobody
CHECK_DEADLOCK FALSE
