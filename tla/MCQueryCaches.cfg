CONSTANTS
  agent = agent  editor = editor  Callers = {agent, editor}  Paths = {"A.lean"}
  Questions = {"goal", "new"}  Budgets = {4, 8}  Unkeyable = {"new"}
  Capacity = 1
  InputFiles <- MCInputFiles  Required <- MCRequired
  MovesUnderBuild = FALSE
  MaxMoves = 1  MaxHandles = 2
SYMMETRY MCCallers
SPECIFICATION Spec
INVARIANTS AnswersItsOwnQuestion MetaIsAFreshBuild AnswersOfOwnHandle
