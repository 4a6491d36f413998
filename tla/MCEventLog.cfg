SPECIFICATION Spec
CONSTANTS
  Aggregates = {a, b}
  Ids = {i1, i2}
  Owners = {o1, o2}
  Fibers = {f}
  Streams = {}
  NoOwner = NoOwner
  Local = Local
  NoRow = NoRow
  MaxSeq = 1
  MaxEra = 1
SYMMETRY Symmetry
INVARIANTS
  GaplessLog
  OwnedTail
PROPERTIES
  NeverRetold
