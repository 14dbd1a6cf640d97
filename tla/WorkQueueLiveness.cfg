SPECIFICATION FairSpec
CONSTANTS
  p1 = p1
  p2 = p2
  c1 = c1
  c2 = c2
  n1 = n1
  n2 = n2
  n3 = n3
  NULL = NULL
  Producers <- MCProducers
  Consumers <- MCConsumers
  Nodes = {n1, n2}
  MaxEnq = 1
\* The queue is deleted, or its process exits.
CHECK_DEADLOCK FALSE
PROPERTIES
  EveryTaskDelivered
  EnqueueReturns
