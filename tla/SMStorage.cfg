SPECIFICATION SMSpec
CONSTANTS
  Task = {w1, w2, w3}
  MaxSize = 2
  MaxBehind = 4
  quota = 6
  healthy_size = 4
  alarm_size = 5
INVARIANTS SizesConverge ClearsEnough FlagIsTrue DiesOnlyInARace
CHECK_DEADLOCK FALSE
