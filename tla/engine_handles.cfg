SPECIFICATION EngineSpec
CONSTANTS
  k1 = k1
  k2 = k2
  Keys = {k1}
  Msgs = {1, 2}
  Fibers = {1, 2}
  Procs = {1, 2}
  MaxConcurrent = 1
  MaxUserMsgs = 2
  MaxAttempts = 2
  HasPool = FALSE
  Env = {"overlap", "midflight", "close", "reopen", "halt", "haltall", "burst", "retry", "throw", "hang", "overtime", "linger"}
INVARIANTS
  TypeOK
  
  
PROPERTIES
  KilledRunIsSilent
CHECK_DEADLOCK FALSE
