SPECIFICATION FairSpec
CONSTANTS
  None = None
  Calls = {c1, c2}
  MaxTurns = 1
INVARIANTS
  FinishedWorkIsKept
  NoToolOutlivesItsTurn
  LeftoversAreFailed
  RequestsShowNoRunningCall
  BrokenStepIsClosed
PROPERTIES
  SettlementIsFinal
  InterruptEndsDrain
