SPECIFICATION UploadSpec
CONSTANTS
  a = a
  b = b
  Content <- MCContent
  Cut = cut
  Files <- MCShortFiles
  Junk <- MCJunk
  Faults <- NoKey
INVARIANTS
  GenuinePrefix
