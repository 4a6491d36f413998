SPECIFICATION FairSpec
CONSTANTS
  Queries = {q1}
  Healths = {}
  Signalled = {}
  Limit = 1
  MaxCalls = 1
PROPERTIES
  RestartStarts
CHECK_DEADLOCK FALSE
