CONSTANTS
  t1 = t1
  t2 = t2
  Thread = {t1, t2}
  Capacity = 2
  MaxBytes = 1
  MaxMoves = 1
SPECIFICATION FairSpec
PROPERTIES PeerClosureSignalled
CHECK_DEADLOCK FALSE
