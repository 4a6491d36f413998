SPECIFICATION Spec
CONSTANTS
  r1 = r1
  r2 = r2
  r3 = r3
  r4 = r4
  s1 = s1
  s2 = s2
  x = x
  y = y
  z = z
  Requests = {r1, r2, r3, r4}
  Sessions = {s1, s2}
  Resources = {x, y, z}
  Repliers = {u1, u2}
  SessionOf <- MCSessionOf
  Wants <- MCWants
  Saves <- MCSaves
  Asks = {r3}
  Allowed = {}
  Denied = {z}
  None = None
SYMMETRY Symmetry
CONSTRAINT DeletedSessions
INVARIANTS
  WaiterIsPending
  GrantHasASource
  RejectionReachesAll
  CoveredIsMatched
CHECK_DEADLOCK FALSE
