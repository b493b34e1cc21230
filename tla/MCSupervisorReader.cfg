SPECIFICATION FairReader
CONSTANTS
  c1 = c1
  c2 = c2
  Changes <- MCChanges
  Recordable <- MCRecordable
  Ending <- MCRecordable
  Declares = TRUE
  Capacity = 1
  CommandCap = 1
  MaxBatch = 1
  MaxConns = 2
  MaxEvents = 2
PROPERTIES
  TaskEnds
  AllAnswered
  StreamFairSpec
