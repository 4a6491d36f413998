SPECIFICATION FairSpec
CONSTANTS
  f = f
  g = g
  None = None
  Locations = {l}
  Files = {f, g}
  Callers = {c1, c2}
  Entries = {e1, e2}
  Keys <- LocksOfFiles
  Jobs <- ToolCalls
CHECK_DEADLOCK FALSE
INVARIANTS
  NoLostChange
PROPERTIES
  Implements
  CallsEnd
