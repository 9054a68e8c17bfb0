SPECIFICATION Spec
CONSTANTS
  here = here
  pa = pa
  pb = pb
  empty = empty
  Path = {here, pa, pb}
  Empty = empty
  Here = here
  FileKinds <- MCKinds
  CommandLines <- MCCommandLines
  Inputs <- MCInputs
  DefaultPaths <- MCDefaults
INVARIANTS
  TypeOK
  SearchIsGivenEachOnce
  ParsesEveryLine
  FaultEndsParsing
PROPERTIES
  ParsingEnds
