SPECIFICATION FairSpec
CONSTANTS
  c1 = c1
  c2 = c2
  c3 = c3
  Clients <- MCClients
  Fds = {4, 5}
  Listener = 3
  InitSize = 3
  MaxSay = 1
  Deaf = {c3}
  Room = 0
\* The server ends, or waits for clients that are silent.
CHECK_DEADLOCK FALSE
PROPERTIES
  DataIsRead
  BacklogServed
