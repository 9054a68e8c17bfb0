SPECIFICATION Spec
CONSTANTS
  File = {1, 2, 3}
  Inode = {1, 2}
  Libraries <- MCLibraries
  MaxCalls = 4
  MaxLoads = 2
INVARIANTS
  TypeOK
  ClosedOnce
  ReadyMeansLoaded
  LookupIsAtomic
  OpenedOnce
PROPERTIES
  LookupEnds
