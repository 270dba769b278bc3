SPECIFICATION FairSpec
CONSTANTS
  h1 = h1
  h2 = h2
  i1 = i1
  i2 = i2
  nohost = nohost
  gone = gone
  Hosts = {h1, h2}
  NoHost = nohost
  Gone = gone
  Ids = {1, 2, 3}
  Legacy = {}
  Issues = {i1, i2}
  Msgs = {}
  IssueOf <- OnIssue
  Cap = 1
  MaxCrashes = 1
  Env = {"race", "stall"}
INVARIANTS
PROPERTIES
  OrphansAreReleased
CHECK_DEADLOCK FALSE
