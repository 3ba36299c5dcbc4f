SPECIFICATION Spec
CONSTANTS
  ann = ann
  bob = bob
  r1 = r1
  r2 = r2
  People = {ann, bob}
  Invited = {bob}
  Requests = {r1}
  Ops = {"admit", "deny", "off", "enqueue", "edit"}
  MaxOps = 2
  MaxSessions = 1
  Serial = FALSE
INVARIANT
  OnlyHostsAdmit
CHECK_DEADLOCK FALSE
