SPECIFICATION EngineFairSpec
CONSTANTS
  k1 = k1
  k2 = k2
  Keys = {k1, k2}
  Msgs = {1, 2}
  Fibers = {1, 2, 3}
  Procs = {1, 2}
  MaxConcurrent = 1
  MaxUserMsgs = 2
  MaxAttempts = 2
  HasPool = FALSE
  Env = {"close", "force", "spawnfail"}

  
  
PROPERTIES
  StopsSettle
CHECK_DEADLOCK FALSE
