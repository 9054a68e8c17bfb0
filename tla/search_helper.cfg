SPECIFICATION Spec
CONSTANTS
  BufferSize = 3
  Chars = {"a", "b", "c", "d"}
  PipeSize = 2
  Outputs <- MCOutputs
  Installs <- MCInstalls
INVARIANTS
  TypeOK
  ResultIsWholeAnswer
  NoChildLeft
  StartsUsableHelper
PROPERTIES
  ShimReturns
