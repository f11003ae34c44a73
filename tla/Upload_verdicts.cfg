SPECIFICATION UploadFairSpec
CONSTANTS
  a = a
  b = b
  Content <- MCContent
  Cut = cut
  Files <- MCFewFiles
  Junk <- MCJunk
  Faults <- PeerFaults
INVARIANTS
  TypeOK
  VerdictAgrees
  AckedIsStored
PROPERTIES
  PutReturns
  ThreadEnds
CHECK_DEADLOCK FALSE
