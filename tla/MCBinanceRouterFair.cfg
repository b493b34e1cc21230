SPECIFICATION FairSpec
CONSTANTS
  a = a
  b = b
  c = c
  d = d
  x = x
  Names = {a, x}
  Paths <- MCPaths
  PathOf <- MCPathOf
  BatchSize = 1
  Cap = 1
  EventBuffer = 1
  MaxGens = 3
  MaxCalls = 2
PROPERTIES
  AllEnd
  CallsEnd
