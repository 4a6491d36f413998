SPECIFICATION Spec
CONSTANTS
  f = f
  g = g
  None = None
  Locations = {l1, l2}
  Files = {f}
  Callers = {c1, c2}
  Entries = {e1, e2}
  Keys <- LocksOfFiles
  Jobs <- Edits
CHECK_DEADLOCK FALSE
INVARIANT NoLostChange
