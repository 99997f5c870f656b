CONSTANTS
  A = A
  B = B
  C = C
  Node = {A, B}
  Topologies <- TwoNodes
  Sends <- TwoNodeSends
  Readers = {2, 4, 8, 9, 10, 12, 14}
  Movable = {9}
  Closers = {1, 3, 8, 9, 10, 12}
  MergePairs <- TwoNodePairs
  Reserved = {1, 3}
  MaxAttach = 1
  MaxName = 6
  Broker = A
  Mortal = {}
  SeqModulus = 1000
SPECIFICATION Spec
INVARIANTS TypeOK NoMessageLost DeliveredOnce ClosureExact ShutdownSafe NoOops
PROPERTIES PortStateMachine
CHECK_DEADLOCK FALSE
