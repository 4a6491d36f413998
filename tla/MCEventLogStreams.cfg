SPECIFICATION FairSpec
CONSTANTS
  Aggregates = {a}
  Ids = {i1, i2}
  Owners = {}
  Fibers = {f}
  Streams = {s}
  NoOwner = NoOwner
  Local = Local
  NoRow = NoRow
  MaxSeq = 1
  MaxEra = 1
INVARIANTS
  StreamComplete
PROPERTIES
  RefinesLog
  KeepsPromise
