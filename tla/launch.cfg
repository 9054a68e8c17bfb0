SPECIFICATION Spec
CONSTANTS
  sys = sys
  compat = compat
  odd = odd
  d1 = d1
  d2 = d2
  d3 = d3
  l1 = l1
  l2 = l2
  l3 = l3
  Path = {sys, compat, odd}
  Dir = {d1, d2, d3}
  Lib = {l1, l2, l3}
  Inode = {1, 2, 3}
  FileSystems <- MCFileSystems
  Arguments <- MCArguments
  BufferSize = 3
  PipeSize = 2
  Chars = {"a", "b", "c"}
  Installs <- MCInstalls
  Spelling <- MCSpelling
INVARIANTS
  AnswerIsBest
  NothingOnlyWhenLost
PROPERTIES
  RefinesHelperQuery
