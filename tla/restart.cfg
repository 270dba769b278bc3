SPECIFICATION RestartSpec
CONSTANTS
  Me = "me"
  Daemons = {"me", "other"}
  Rows = {"s1"}
  MaxCrashes = 2
  MaxCommands = 2
  Env = {"dbfail"}
INVARIANTS
  
  PauseSurvives
PROPERTIES
  CutIsNotAnswered
  
  ImplementsUpgrade
CHECK_DEADLOCK FALSE
