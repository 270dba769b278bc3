SPECIFICATION Spec
CONSTANTS
  Issues = {1, 2}
  Comments = {1, 2}
  On <- OnIssue
  Bots = {}
  Own = 0
  Polls = {1, 2}
  MaxChanges = 3
  MaxCuts = 1
  MaxOverlaps = 1
  Env = {"refuse", "throw", "torn"}
INVARIANTS
  NothingSkipped
  CopiesAreAccounted
CHECK_DEADLOCK FALSE
