SPECIFICATION Spec
CONSTANTS
  MaxCpus = 3
  Garbage = {7}
\* main returns, or the process crashes.
CHECK_DEADLOCK FALSE
INVARIANTS
  IInv
