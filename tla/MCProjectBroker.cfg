SPECIFICATION SafeSpec
CONSTANTS
  Roots = {r1, r2}
  Callers = {c1, c2}
  Projects = {p1, p2, p3}
  Locks = {l1, l2}
  Hashes = {h1, h2}
  MaxProjects = 1
  ReaperRuns = TRUE
  ActorsDie = FALSE
  ServerExits = TRUE
  None = None
SYMMETRY BrokerSymmetry
INVARIANTS
  TypeOK
  RegisteredIsTimed
  NoOrphan
