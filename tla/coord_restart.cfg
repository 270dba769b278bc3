SPECIFICATION RestartSpec
CONSTANTS
  h1 = h1
  h2 = h2
  i1 = i1
  i2 = i2
  nohost = nohost
  gone = gone
  Hosts = {h1}
  NoHost = nohost
  Gone = gone
  Ids = {1}
  Legacy = {}
  Issues = {i1, i2}
  Msgs = {1, 2, 3}
  IssueOf <- OnIssue
  Cap = 1
  MaxCrashes = 1
  Env = {"replied"}
INVARIANTS
  ClaimedIsRun

  
CHECK_DEADLOCK FALSE
