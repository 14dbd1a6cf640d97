SPECIFICATION Spec
CONSTANTS
  p1 = p1
  p2 = p2
  c1 = c1
  c2 = c2
  n1 = n1
  n2 = n2
  n3 = n3
  NULL = NULL
  Producers <- MCProducers
  Consumers <- MCConsumers
  Nodes <- MCNodes
  MaxEnq = 2
SYMMETRY Symmetry
\* The queue is deleted, or its process exits.
CHECK_DEADLOCK FALSE
INVARIANTS
  ListShape
  IInv
  HeapAccounting
  NoLostWakeup
  DeleteOutcome
PROPERTY
  ImplementsFifo
