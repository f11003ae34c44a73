SPECIFICATION SessionFairSpec
CONSTANTS
  Names <- FewNames
  Root <- FileDir
  Begins <- FileNames
  Homes <- Anywhere
  Dirs <- ThreeDirs
  NewNames <- OneName
  Lines <- SomeLines
  MaxDepth = 3
  Faults <- EveryFault
INVARIANTS
  TypeOK
  CleanAtPrompt
  ShownIsCwd
  KeysOfPeers
PROPERTIES
  ImplementsShell
  HandshakeEnds
  CommandReturns
CHECK_DEADLOCK FALSE
