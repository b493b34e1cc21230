SPECIFICATION FairSpec
CONSTANTS
  PingInterval = 2
  StaleAfter = 3
  MaxAge = 7
  Held = 0
  MaxCommands = 1
  MaxKept = 1
  MaxPend = 1
  MaxBurst = 1
  MaxBlocked = 5
INVARIANTS
  TypeOK
  PingOnTime
  StaleIsSilence
PROPERTIES
  Rotates
