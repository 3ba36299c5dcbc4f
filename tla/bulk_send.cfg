SPECIFICATION SendsSpec
CONSTANTS
  p1 = p1
  p2 = p2
  w1 = w1
  w2 = w2
  a1 = a1
  People = {p1, p2}
  Pages <- MCPages
  On <- MCOn
  ChunkSize = 1
  Unsure <- MCUnsure
  Workers = {w1, w2}
  Admins = {a1}
  Actions = {"confirm", "pause", "resume", "cancel"}
  HasEnd = FALSE
  MaxChunks = 2
  MaxControls = 3
  MaxDeaths = 1
  ListingDies = TRUE
  SlowWorkers = FALSE
  Overlap = TRUE
INVARIANTS TypeOK RecordIsHonest NobodyForgottenInTurn
PROPERTIES KeepsToOnce CancelStandsInTurn WorkGoesOnInTurn
CHECK_DEADLOCK FALSE
