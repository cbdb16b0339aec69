SPECIFICATION RoundSpec
CONSTANTS
  Client = {c1, c2, c3}
  client_num = 2
  threshold = 2
  MaxSelected = 3
  MAX_RETRY_TIMES = 2
  Secure = TRUE
  Extended = TRUE
  Unfit = TRUE
  MaxFaults = 2
SYMMETRY ClientSymmetry
INVARIANTS  NoLostWakeup MeanIsOfTheCounted
PROPERTY AggregateIsFixed
CHECK_DEADLOCK FALSE
