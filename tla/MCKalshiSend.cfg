SPECIFICATION FairSpec
CONSTANTS
  s1 = s1
  s2 = s2
  costsRoute = costsRoute
  limitsRoute = limitsRoute
  market = market
  Sends <- MCTwoSends
  Routes <- MCRoutes
  CostsRoute <- costsRoute
  LimitsRoute <- limitsRoute
  Costs = {3}
  DefaultCost = 1
  Basic = 2
  Capacities = {0, 3}
  MaxConcurrent = 1
  MaxRetries = 1
INVARIANTS
  TypeOK
  Settled
  PublicReadsApart
PROPERTY
  SendsEnd
