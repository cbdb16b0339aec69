SPECIFICATION CASpec
CONSTANTS
  Node = {n1, n2}
  TaskId = {t1, t2}
  Volume = 1
  Persist = TRUE
  MaxEvents = 1
  Workers = 2
  MaxTrouble = 1
INVARIANTS  HeldByTasks WorkersGoFirst SuccessIsComplete
PROPERTIES TasksEnd
CHECK_DEADLOCK FALSE
