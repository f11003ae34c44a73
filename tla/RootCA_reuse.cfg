SPECIFICATION Spec
CONSTANTS
  c1 = c1
  c2 = c2
  Clients <- OneClient
  MaxRequests = 3
  MaxFds = 2
  Start = 0
  Faults <- Crashes
INVARIANTS
  UniqueSerials
