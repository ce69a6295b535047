CONSTANTS
  p1 = p1
  p2 = p2
  p3 = p3
  Profiles = {p1, p2, p3}
  PoolCapacity = 2
  SoftResidue = 2
  HardResidue = 3
  MaxRestarts = 1
  RestartWindow = 1
  MaxRetries = 1
  ArtifactsVanish = FALSE
  BuildsRacePrewarm = FALSE
  FailuresSkipImport = FALSE
  FailedCyclesSpare = FALSE
  MaxBuilds = 2
  MaxClock = 0
  MaxReplaced = 2
  MaxJobs = 4
SPECIFICATION Spec
SYMMETRY ProfileSymmetry
INVARIANTS
  TypeOK
  ServedFresh
  PoolIsRemembered
CHECK_DEADLOCK FALSE
