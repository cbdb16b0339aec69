SPECIFICATION CMSpec
CONSTANTS
  c1 = c1
  c2 = c2
  Client = {c1, c2}
  Job = {j1}
  Address = {a1, a2}
  Type = {"single", "cluster"}
  TypeOf <- OneOfEach
  Number = 1
  Redundant = 2
  Parallel = 1
  Matching <- Everybody
  Specifying = {}
  MaxAgain = 1
  MaxNumber = 3
INVARIANTS RegistryAgrees ReleasedIsFree BookedWithinLimit
PROPERTY StaleTasksGo
CHECK_DEADLOCK FALSE
