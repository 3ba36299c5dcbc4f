SPECIFICATION Spec
CONSTANTS
  Requests = {q1, q2}
  Price = 2
  MaxRequests = 2
  MaxDeaths = 0
  MaxErrors = 0
  Apart = TRUE
  Slow = TRUE
INVARIANT
  EnteredOnce
CHECK_DEADLOCK FALSE
