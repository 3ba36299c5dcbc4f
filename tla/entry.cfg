SPECIFICATION EntrySpec
CONSTANTS
  Sessions = {z1, z2, z3}
  Connections = {k1}
  Requests = {q1, q2}
  MaxCalls = 4
  MaxStale = 1
  Apart = TRUE
  Handlers = {r1}
  MaxOps = 3
  People = {ann, bob}
  Invited = {}
  HostOps = {"admit", "deny", "edit"}
  MaxSessions = 2
  Askers = {ann}
  AnyOps = {"admit", "deny", "on", "off", "edit"}
  MaxHeard = 1
  Devices = {d1, d2, d3}
  MaxJoins = 3
  MaxStaff = 1
  MaxDrops = 1
INVARIANTS
  TypesOK
  AdmissionEnds
  OneSession
  CountedOnce
PROPERTIES
  AnswersStand
  AskersAreHeard
  SettlesOnOneCamera
  SignedOutStops
CHECK_DEADLOCK FALSE
