SPECIFICATION Spec
CONSTANTS
  short = short
  longest = longest
  overlong = overlong
  newline = newline
  beside = beside
  relative = relative
  old = old
  new = new
  Dir = {short, longest, overlong, newline, beside, relative}
  DirLength <- MCDirLength
  FirstLine <- MCFirstLine
  Relative = {relative}
  Beside <- MCBeside
  Driver = {old, new}
  NoDriver = NoDriver
  Installations <- MCInstallations
  PathMax = 4096
  SizeMax = 65535
  Environments <- MCEnvironments
  MaxChanges = 1
  MaxPrograms = 2
  MaxOpened = 2
INVARIANTS
  TypeOK
  RecursionBounded
  OtherAuditorsKept
  AllOrNone
  OneDriverPerProgram
  RedirectedIsFound
  RedirectedIsBound
PROPERTIES
  EveryProgramRuns
