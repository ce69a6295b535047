SPECIFICATION Spec
CONSTANTS
  Pids = {p1, p2}
  MaxLaunches = 1
  MaxDoctors = 2
  PidsRecycle = TRUE
  PsFails = TRUE
INVARIANTS OnlyRacedRecordsVanish NoProjectIsForgotten
PROPERTIES LeavesWithItsClient
CHECK_DEADLOCK FALSE
