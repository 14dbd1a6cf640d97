SPECIFICATION Spec
CONSTANTS
  c1 = c1
  c2 = c2
  c3 = c3
  Clients <- MCClients
  Fds = {4, 5, 6}
  Listener = 3
  InitSize = 2
  MaxSay = 2
  Deaf = {}
  Room = 0
SYMMETRY Symmetry
\* The server ends, or waits for clients that are silent.
CHECK_DEADLOCK FALSE
INVARIANTS
  TypeOK
  RemovalsFit
  TableSound
  SingleRemovalExact
  InboxInOrder
  NumbersFresh
