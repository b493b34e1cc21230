SPECIFICATION Spec
CONSTANTS
  c1 = c1
  c2 = c2
  Changes <- MCChanges
  Recordable <- MCRecordable
  Ending <- MCRecordable
  Declares = TRUE
  Capacity = 1
  CommandCap = 1
  MaxBatch = 2
  MaxConns = 2
  MaxEvents = 4
INVARIANTS
  TypeOK
  NoDrops
  StreamShape
  Carried
  PendingBounded
