SPECIFICATION FairSpec
CONSTANTS
  Client = Client
  Server = Server
  MaxLines = 3
\* The chat ends.
CHECK_DEADLOCK FALSE
INVARIANTS
  TypeOK
  LinesInOrder
  NoSendToClosed
  EndNeedsEof
PROPERTY
  EofEnds
