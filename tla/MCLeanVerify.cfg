CONSTANTS
  Files = {"A", "B"}  Names = {"a", "b", "s", " "}  Blank = " "
  Contents <- MCContents  Checkouts <- MCCheckouts  Requests <- MCRequests
  MAX_VERIFY_TARGETS = 3  MaxEdits = 1
SPECIFICATION Spec
INVARIANTS RowsAreHonest CoverageIsHonest RowsFollowRequest
