SPECIFICATION ServerFairSpec
CONSTANTS
  c1 = c1
  c2 = c2
  Clients <- TwoClients
  Fds <- ThreeFds
  Leaves <- AnyLeave
  Faults <- NoThread
INVARIANTS
  TypeOK
  CountExact
  NothingLeft
PROPERTIES
  LostOnlyToExit
  LeaversEnd
CHECK_DEADLOCK FALSE
