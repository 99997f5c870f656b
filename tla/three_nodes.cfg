CONSTANTS
  A = A
  B = B
  C = C
  Node = {A, B, C}
  Topologies <- ThreeNodes
  Sends <- ThreeNodeSends
  Readers = {2, 4, 5, 6, 8, 10, 11, 12, 14, 16, 20, 22, 23, 26}
  Movable = {5, 11, 12, 17, 23}
  Closers = {18}
  MergePairs <- ThreeNodePairs
  Reserved = {25, 27}
  MaxAttach = 1
  MaxName = 0
  Broker = B
  Mortal <- ThreeNodeMortals
  SeqModulus = 1000
SPECIFICATION Spec
INVARIANTS UniqueReceiver NoMessageLost NoLostWakeup DeathNoticed
CHECK_DEADLOCK FALSE
