SPECIFICATION FairSpec
CONSTANTS
  Queries = {q1, q2}
  Healths = {h}
  Signalled = {q1}
  Limit = 1
  MaxCalls = 2
INVARIANTS
  NobodyForgotten
  CancelledForAReason
  StopIsFinal
PROPERTIES
  CallsEnd
  ChildIsReplaced
CHECK_DEADLOCK FALSE
