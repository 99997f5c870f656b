CONSTANTS
  A = A
  B = B
  C = C
  Node = {A}
  Topologies <- OnlyLocal
  Sends <- LocalSends
  Readers = {2, 4}
  Movable = {4}
  Closers = {}
  MergePairs <- FusePair
  Reserved = {}
  MaxAttach = 1
  MaxName = 4
  Broker = A
  Mortal = {}
  SeqModulus = 1000
SPECIFICATION Spec
INVARIANTS ClosureExact
CHECK_DEADLOCK FALSE
