SPECIFICATION FairSpec
CONSTANTS
  People = {p1, p2}
  Early = {p1}
  WithDevice = {p1}
  Busy = {p1}
  Rounds = {r1}
  MaxAttempts = 2
  MaxAgain = 1
  MaxResponses = 1
  MaxFailures = 1
  Overlap = FALSE
INVARIANT WithinMeasure
PROPERTY CalledToTheEnd
CHECK_DEADLOCK FALSE
