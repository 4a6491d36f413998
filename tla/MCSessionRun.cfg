SPECIFICATION FairSpec
CONSTANTS
  Keys = {k}
  Clients = {c}
  Entries = {e1, e2}
  Prompts = {p1, p2}
  None = None
  MaxSteps = 2
INVARIANTS
  NoPromptStranded
  NothingSwallowed
  OneQueuedAtATime
PROPERTIES
  KeepsToCoordinator
  WokenIsPromoted
  DrainsEnd
