SPECIFICATION Spec
CONSTANTS
  c1 = c1
  c2 = c2
  g1 = g1
  g2 = g2
  NoGrant = NoGrant
  NoCap = NoCap
  Calls = {c1, c2}
  Grants = {g1, g2}
  Narrowness <- TwoRanks
  Spend <- UnitSpend
  Total <- SumOfSpend
  DayCap <- NarrowCapped
  ActionCap <- LimitOfOne
  HasBudget <- FirstHasBudget
  RateLimit <- LimitOfOne
  NeedsBudget = TRUE
  MaxAttempts = 1
  LastDay = 0
  MaxFaults = 0
  MaxInFlight = 1
INVARIANTS
  RateLimitHolds
PROPERTIES
  StoppedGrantStopsActing
CHECK_DEADLOCK FALSE
