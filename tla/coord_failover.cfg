SPECIFICATION Spec
CONSTANTS
  h1 = h1
  h2 = h2
  i1 = i1
  i2 = i2
  nohost = nohost
  gone = gone
  Hosts = {h1, h2}
  NoHost = nohost
  Gone = gone
  Ids = {1, 2, 3}
  Legacy = {1, 2}
  Issues = {i1}
  Msgs = {1, 2}
  IssueOf <- OnIssue
  Cap = 1
  MaxCrashes = 1
  Env = {"timeout", "deny", "unreachable"}
INVARIANTS
  OwnerIsRegistered
  OneIdentity
  OneHandler
  CommentOnce
PROPERTIES
  KeepsIssues
CHECK_DEADLOCK FALSE
