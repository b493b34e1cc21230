SPECIFICATION Spec
CONSTANTS
  w1 = w1
  w2 = w2
  w3 = w3
  p1 = p1
  p2 = p2
  Weighted = {w1, w2, w3}
  Paced = {p1, p2}
  Weights = {1, 4}
  PerMinute = 3
  MinuteTicks = 2
  Interval = 1
  Delays = {1}
  Reports = {2}
  MaxTime = 2
  MaxBack = 1
  MaxHolds = 2
SYMMETRY Symmetry
INVARIANTS TypeOK MinuteWithin Counted PacedApart SpentMinuteLeft
