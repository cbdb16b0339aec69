SPECIFICATION Spec
CONSTANTS
  Key = {k1}
  Obj = {o1, o2}
  Task = {t1, t2, t3}
  NoObj = NoObj
  NoTask = NoTask
  Scarce = FALSE
  Patient = FALSE
  MaxRequests = 2
  MaxRestarts = 0
  MaxFaults = 0
CHECK_DEADLOCK FALSE
PROPERTIES DeletingIsFinal
