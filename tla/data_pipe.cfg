CONSTANTS
  t1 = t1
  t2 = t2
  Thread = {t1, t2}
  Capacity = 2
  MaxBytes = 4
  MaxMoves = 1
SPECIFICATION FairSpec
INVARIANTS ReadsInOrder CapacityConserved NothingUnread SignalsAnnounced ClosureAfterData
PROPERTIES CreditReturns ClosureSeen
CHECK_DEADLOCK FALSE
