SPECIFICATION Spec
CONSTANTS
  Program = {p1, p2}
  Data = 2
  Cap = 1
\* The programs end.
CHECK_DEADLOCK FALSE
INVARIANTS
  TypeOK
  ReportedWhole
  JoinedBlocks
PROPERTY
  Ends
