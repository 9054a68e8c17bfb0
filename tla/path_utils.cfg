SPECIFICATION Spec
CONSTANTS
  Char = {"/", ".", ":", "l", "x", "e", "h", "s", "d"}
  Inputs <- MCInputs
  Dirs <- MCDirs
  PathMax = 9
  Prefix <- MCPrefix
  Helper <- MCHelper
  Soname <- MCSoname
INVARIANTS
  TypeOK
  SlotRemoved
  RestoreUndoes
  SiblingFound
  LibraryInDir
PROPERTIES
  WalksEnd
