SPECIFICATION Spec
CONSTANTS
  Keys = {k1}
  Clients = {c1, c2}
  Entries = {e1, e2}
  None = None
SYMMETRY Symmetry
PROPERTIES
  ResumeDuringStopStarts
