SPECIFICATION FairSpec
CONSTANTS
  N = 4
  Size = 2
  GarbageFlags = {0, 1}
  AllocMayFail = TRUE
  NULL = NULL
  Block = Block
  Num = Num
\* The process ends.
CHECK_DEADLOCK FALSE
INVARIANTS
  OutputInOrder
  ControlBlockConfined
  SentinelLast
  FreedSafe
  IInv
  AllProcessed
PROPERTY
  Termination
