CONSTANTS
  p1 = p1
  Profiles = {p1}
  PoolCapacity = 1
  SoftResidue = 1
  HardResidue = 1
  MaxRestarts = 2
  RestartWindow = 1
  MaxRetries = 1
  ArtifactsVanish = TRUE
  BuildsRacePrewarm = FALSE
  FailuresSkipImport = TRUE
  FailedCyclesSpare = TRUE
  MaxBuilds = 2
  MaxClock = 2
  MaxReplaced = 4
  MaxJobs = 2
SPECIFICATION Spec
INVARIANTS
  BreakerWindowSlides
  TrippedRunsNothing
  GenerationCountsChildren
  RestartFactIsTrue
  TaintIsExact
  RetryOnFreshChild
  IdleCyclesAreEarned
PROPERTIES
  PublishedNeverRegresses
CHECK_DEADLOCK FALSE
