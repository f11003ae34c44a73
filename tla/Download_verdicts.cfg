SPECIFICATION DownloadFairSpec
CONSTANTS
  a = a
  b = b
  Content <- MCContent
  Cut = cut
  Files <- MCFewFiles
  Junk <- MCJunk
  Faults <- PeerFaults
INVARIANTS
  TypeOK
  BothAgree
  PwdGetsPath
PROPERTIES
  GetReturns
CHECK_DEADLOCK FALSE
