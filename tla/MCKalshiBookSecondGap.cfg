SPECIFICATION Spec
CONSTANTS
  Markets = {m1, m2}
  m1 = m1
  m2 = m2
  Channels <- OneChannel
  MaxTrades = 4
  MaxSkips = 2
  MaxCalls = 1
INVARIANT SecondGapReconnects
