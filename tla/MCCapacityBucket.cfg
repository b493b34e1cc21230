SPECIFICATION FairSpec
CONSTANTS
  p1 = p1
  p2 = p2
  Callers <- MCCallers
  Costs = {1, 3}
  Capacities = {2, 3}
  Refills = {1}
  Delays = {1, 4}
  Ceiling = 3
  MaxSizings = 1
  MaxHolds = 2
INVARIANTS
  TypeOK
  Conforms
PROPERTIES
  HoldHonoured
  Answered
