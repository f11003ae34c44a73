SPECIFICATION StoreFairSpec
CONSTANTS
  t1 = t1
  t2 = t2
  a = a
  Threads <- TwoThreads
  Bases <- OneBase
  MaxTyped = 0
  MaxSuffix = 3
  MaxFrags = 2
  MaxOps = 3
  Faults <- EveryFault
INVARIANTS
  TypeOK
  UploadsApart
  MkdirOnce
  GetWhole
  ListsSettled
PROPERTIES
  ImplementsShelf
  CommandsEnd
CHECK_DEADLOCK FALSE
