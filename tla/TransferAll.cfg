SPECIFICATION FairSpec
CONSTANT
  MaxBlocks = 3
\* The programs end, or the server waits for ever.
CHECK_DEADLOCK FALSE
INVARIANTS
  TypeOK
  StreamWhole
  DatagramsInOrder
PROPERTIES
  Completes
  ClientEnds
