SPECIFICATION DBSpec
CONSTANTS
  Process = {p1, p2}
  MAX_RETRY_TIMES = 1
  MaxOps = 3
  MaxFaults = 2
INVARIANTS OneRowEach
PROPERTIES  OperationsEnd
CHECK_DEADLOCK FALSE
