SPECIFICATION Spec
CONSTANTS
  Key = {k1}
  Obj = {o1, o2}
  Task = {t1, t2, t3}
  NoObj = NoObj
  NoTask = NoTask
  Scarce = TRUE
  Patient = FALSE
  MaxRequests = 3
  MaxRestarts = 1
  MaxFaults = 1
CHECK_DEADLOCK FALSE
INVARIANTS ActiveIsPersisted NeverStranded
PROPERTIES NoResurrection
CONSTRAINT FewDisturbances
