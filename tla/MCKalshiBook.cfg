SPECIFICATION Spec
CONSTANTS
  Markets = {m1, m2}
  m1 = m1
  m2 = m2
  Channels <- TwoChannels
  MaxTrades = 2
  MaxSkips = 2
  MaxCalls = 3
SYMMETRY Symmetry
INVARIANTS TypeOK BooksFit AheadIsKept ChannelsAgree
PROPERTY OneRepair
