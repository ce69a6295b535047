SPECIFICATION Spec
CONSTANTS
  Roots = {r1}
  Callers = {c1, c2}
  Projects = {p1, p2, p3}
  Locks = {l1, l2}
  Hashes = {h1}
  MaxProjects = 1
  ReaperRuns = TRUE
  ActorsDie = TRUE
  ServerExits = FALSE
  None = None
PROPERTIES
  EveryAcquireEnds
  QuietReleasesWorkers
