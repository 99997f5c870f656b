CONSTANTS
  A = A
  B = B
  C = C
  Node = {A, B, C}
  Topologies <- All
  Sends <- LiveSends
  Readers = {2, 4, 6, 12}
  Movable = {7}
  Closers = {1, 8, 10}
  MergePairs <- LivePairs
  Reserved = {}
  MaxAttach = 1
  MaxName = 4
  Broker = B
  Mortal = {}
  SeqModulus = 1000
SPECIFICATION FifoSpec
PROPERTIES ProxiesLeave ClosureSpreads ImplementsMessagePipe
CHECK_DEADLOCK FALSE
