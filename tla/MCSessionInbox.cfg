SPECIFICATION Spec
CONSTANTS
  Sessions = {s}
  Ids = {i1, i2}
  Contents = {x, y}
  Clients = {c1, c2}
  Promoters = {p1, p2}
  None = None
  MaxSeq = 5
SYMMETRY Symmetry
INVARIANTS
  PromotedIffVisible
  InAdmissionOrder
  ReceiptsHold
  RefusalsJustified
