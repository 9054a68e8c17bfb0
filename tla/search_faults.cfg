SPECIFICATION Spec
CONSTANTS
  pa = pa
  pb = pb
  pc = pc
  pd = pd
  d1 = d1
  d2 = d2
  d3 = d3
  l1 = l1
  l2 = l2
  l3 = l3
  Path = {pa, pb, pc, pd}
  Dir = {d1, d2, d3}
  Lib = {l1, l2, l3}
  Inode = {1, 2, 3}
  FileSystems <- Faults
  Arguments <- MCArguments
INVARIANTS
  ResultSurvivesFaults
