SPECIFICATION MMSpec
CONSTANTS
  Key = {k1}
  Obj = {o1, o2}
  MaxTrouble = 1
INVARIANTS  ReadyIsStored
PROPERTIES DeletingEnds UnreadyEnds
CHECK_DEADLOCK FALSE
