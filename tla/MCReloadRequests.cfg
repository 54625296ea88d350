CONSTANTS
  None = None
  s1 = s1
  s2 = s2
  q2 = q2
  Sessions = {s1, s2}
  Requests = {q1, q2}
  Broken = {1}
  MaxEdits = 2
SPECIFICATION MCSpec
INVARIANTS ReloadInv WatchersServeRequests
PROPERTY RequestsAreServed
CHECK_DEADLOCK FALSE
