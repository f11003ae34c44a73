SPECIFICATION DownloadSpec
CONSTANTS
  a = a
  b = b
  Content <- MCContent
  Cut = cut
  Files <- MCFiles
  Junk <- MCJunk
  Faults <- DownFaults
INVARIANTS
  CompleteIsWhole
CHECK_DEADLOCK FALSE
