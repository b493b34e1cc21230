SPECIFICATION Spec
CONSTANTS
  a = a
  b = b
  c = c
  d = d
  x = x
  Names = {a, b, c, d, x}
  Paths <- MCPaths
  PathOf <- MCPathOf
  BatchSize = 1
  Cap = 3
  EventBuffer = 1
  MaxGens = 3
  MaxCalls = 2
SYMMETRY Symmetry
INVARIANTS
  TypeOK
  CopyInStep
  ServedIsKept
  OkStands
