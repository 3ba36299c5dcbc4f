SPECIFICATION OverlapSpec
CONSTANTS
  p1 = p1
  p2 = p2
  r1 = r1
  r2 = r2
  People = {p1, p2}
  Early = {p1}
  WithDevice = {p1, p2}
  Busy = {}
  Rounds = {r1, r2}
  MaxAttempts = 2
  MaxAgain = 1
  MaxResponses = 0
  MaxFailures = 0
  Overlap = TRUE
INVARIANTS TypeOK CallingGoesOn
PROPERTY LeftAlone
SYMMETRY RoundsAlike
CHECK_DEADLOCK FALSE
VIEW WithoutCounts
