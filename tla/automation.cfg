SPECIFICATION FairSpec
CONSTANTS
  Subjects = {ann, bob}
  Calls = {c1, c2}
  Kinds = {"run now", "status"}
  MaxPerRun = 1
  Threshold = 1
  MaxCalls = 1
  MaxFailures = 1
  MaxSkips = 1
  MaxDeaths = 1
  Overlap = TRUE
PROPERTIES
  ReachesEachOnce
  NobodyLeftOut
CHECK_DEADLOCK FALSE
