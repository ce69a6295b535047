SPECIFICATION SafeSpec
CONSTANTS
  Roots = {r1}
  Callers = {c1, c2, c3}
  Projects = {p1, p2, p3, p4}
  Locks = {l1, l2, l3, l4}
  Hashes = {h1, h2}
  MaxProjects = 1
  ReaperRuns = FALSE
  ActorsDie = TRUE
  ServerExits = FALSE
  None = None
SYMMETRY BrokerSymmetry
INVARIANTS
  MissesCoalesced
