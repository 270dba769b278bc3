SPECIFICATION FairSpec
CONSTANTS
  k1 = k1
  k2 = k2
  Keys = {k1, k2}
  Msgs = {1, 2, 3, 4, 5, 6}
  Fibers = {1, 2}
  Procs = {1, 2}
  MaxConcurrent = 1
  MaxUserMsgs = 2
  MaxAttempts = 2
  HasPool = FALSE
  Env = {"deny", "spawnfail", "silent", "empty"}
INVARIANTS
  NudgeBudget
PROPERTIES
  
  SlotsAreFreed
  
CHECK_DEADLOCK FALSE
