SPECIFICATION MPSCFairSpec
CONSTANTS
  p1 = p1
  p2 = p2
  p3 = p3
  n0 = n0
  n1 = n1
  n2 = n2
  n3 = n3
  n4 = n4
  Producers <- MCProducers
  Nodes <- MCNodes
  Stub = n0
  Null = Null
INVARIANTS
  NoUseAfterFree
PROPERTIES
  Delivered
  FifoSpec
CHECK_DEADLOCK FALSE
