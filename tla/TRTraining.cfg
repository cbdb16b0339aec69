SPECIFICATION FairSpec
CONSTANTS
  Client = {c1}
  NotGiven = NotGiven
  Mistyped = Mistyped
  Null = Null
  client_num = 1
  threshold = 1
  MaxSelected = 1
  MAX_RETRY_TIMES = 1
  Secure = FALSE
  Extended = TRUE
  Unfit = FALSE
  MaxFaults = 1
  max_round_num = 2
  evaluate_interval = 2
  save_interval = 1
INVARIANTS CheckpointsAreOfTheModel ModelIsFromQuorums
PROPERTY TrainsAsPromised
CHECK_DEADLOCK FALSE
