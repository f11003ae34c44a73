SPECIFICATION UploadSpec
CONSTANTS
  a = a
  b = b
  Content <- MCContent
  Cut = cut
  Files <- MCFiles
  Junk <- MCJunk
  Faults <- StallFaults
INVARIANTS
  GenuinePrefix
  KeptIsWhole
PROPERTIES
  ImplementsTransfer
CHECK_DEADLOCK FALSE
