CONSTANTS
  None = None
  s1 = s1
  s2 = s2
  q2 = q2
  Sessions = {s1, s2}
  Requests = {q1}
  Broken = {1}
  MaxEdits = 2
SPECIFICATION Spec
INVARIANT CountedSessionsReload
SYMMETRY Interchangeable
CHECK_DEADLOCK FALSE
