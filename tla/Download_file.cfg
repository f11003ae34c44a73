SPECIFICATION DownloadSpec
CONSTANTS
  a = a
  b = b
  Content <- MCContent
  Cut = cut
  Files <- MCFiles
  Junk <- MCJunk
  Faults <- StallFaults
INVARIANTS
  GenuineCopy
  CompleteIsWhole
PROPERTIES
  ImplementsTransfer
CHECK_DEADLOCK FALSE
