CONSTANTS
  Base = 3  Others = {nightly}
  Files = {1, 2}  Positions = {1}  Estranged = {}  MaxTime = 4
  MAX_SEARCHES = 4  SEARCH_FANOUT = 2  MAX_REQUIRED_CONSTANTS = 3
  Windows <- MCWindows  Pins <- MCPins  Decls <- MCDecls  Goals <- MCGoals
  Requests <- MCRequests  RefRequests <- MCRefRequests
SPECIFICATION Spec
INVARIANT AdviceReachesItsWarning
CHECK_DEADLOCK FALSE
