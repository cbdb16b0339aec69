SPECIFICATION FairSpec
CONSTANTS
  Key = {k1}
  Obj = {o1, o2}
  Task = {t1, t2, t3}
  NoObj = NoObj
  NoTask = NoTask
  Scarce = TRUE
  Patient = TRUE
  MaxRequests = 6
  MaxRestarts = 1
  MaxFaults = 0
CHECK_DEADLOCK FALSE
INVARIANTS SettledMeansGone RecordMirrorsJob
PROPERTIES  DeathIsNoticed
