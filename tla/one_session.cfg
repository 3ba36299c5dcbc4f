SPECIFICATION Spec
CONSTANTS
  Sessions = {z1, z2, z3}
  Connections = {c1, c2}
  Requests = {q1, q2}
  MaxCalls = 3
  MaxStale = 1
  Apart = FALSE
INVARIANT OneSession
CHECK_DEADLOCK FALSE
