SPECIFICATION Spec
CONSTANTS
  admin = admin
  listed = listed
  opener = opener
  stranger = stranger
  Comments = {1, 3, 4}
  Author <- By4
  Opener = opener
  Wakers = {admin}
  Listed = {listed}
  Hooks = {1, 2}
  Limit = 1
  MaxToggles = 2
  Env = {"redeliver", "unreachable", "fail"}
INVARIANTS
  CommentOnce
  ProcessingIsHeld
  QuotaHolds
  StrangersDoNotWake
  ClosedIsClosed
CHECK_DEADLOCK FALSE
