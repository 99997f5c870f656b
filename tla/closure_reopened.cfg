CONSTANTS
  A = A
  B = B
  C = C
  Node = {A, B, C}
  Topologies <- OnlyChain
  Sends <- SendsAll
  Readers = {2, 4, 5, 6}
  Movable = {5}
  Closers = {6}
  MergePairs = {}
  Reserved = {}
  MaxAttach = 1
  MaxName = 6
  Broker = B
  Mortal <- MortalA
  SeqModulus = 1000
SPECIFICATION Spec
PROPERTIES ClosureFinal
CHECK_DEADLOCK FALSE
