CONSTANTS
  A = A
  B = B
  C = C
  Node = {A, B, C}
  Topologies <- OnlyChain
  Sends <- SendsDown
  Readers = {2, 4}
  Movable = {5}
  Closers = {6}
  MergePairs = {}
  Reserved = {}
  MaxAttach = 1
  MaxName = 6
  Broker = C
  Mortal <- MortalA
  SeqModulus = 1000
SPECIFICATION Spec
INVARIANTS NobodyStranded
CHECK_DEADLOCK FALSE
