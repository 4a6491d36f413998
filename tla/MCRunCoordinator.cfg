SPECIFICATION FairSpec
CONSTANTS
  Keys = {k1}
  Clients = {c1, c2, c3}
  Entries = {e1, e2, e3, e4}
  None = None
INVARIANTS
  OneDrainPerKey
  NoOrphanWaiter
  InterruptStaysQuiet
PROPERTIES
  WokenWorkIsLookedAt
  CallsReturn
