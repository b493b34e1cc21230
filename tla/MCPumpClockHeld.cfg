SPECIFICATION Spec
CONSTANTS
  PingInterval = 2
  StaleAfter = 3
  MaxAge = 7
  Held = 3
  MaxCommands = 1
  MaxKept = 1
  MaxPend = 1
  MaxBurst = 1
  MaxBlocked = 5
INVARIANT
  PingOnTime
