SPECIFICATION FairSpec
CONSTANTS
  c1 = c1
  c2 = c2
  Clients <- TwoClients
  MaxRequests = 2
  MaxFds = 2
  Start = 0
  Faults <- CutFaults
INVARIANTS
  TypeOK
  UniqueSerials
PROPERTIES
  RequestAnswered
