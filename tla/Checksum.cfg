SPECIFICATION Spec
CONSTANTS
  W = 4
  MaxLen = 70
\* The function returns.
CHECK_DEADLOCK FALSE
INVARIANTS
  IInv
  Rfc1071
