SPECIFICATION FairSpec
CONSTANTS
  c1 = c1
  c2 = c2
  g1 = g1
  g2 = g2
  NoGrant = NoGrant
  NoCap = NoCap
  Calls = {c1, c2}
  Grants = {g1}
  Narrowness <- OneRank
  Spend <- SmallSpend
  Total <- SumOfSpend
  DayCap <- CapOfTwo
  ActionCap <- NoCaps
  HasBudget <- Budgeted
  RateLimit <- NoCaps
  NeedsBudget = FALSE
  MaxAttempts = 2
  LastDay = 1
  MaxFaults = 2
  MaxInFlight = 2
INVARIANTS
  TypeOK
  DayCapHolds
  ReservationsAreExact
  GateFailsClosed
PROPERTIES
  ImplementsEnvelope
  ImplementsGate
  InvocationsEnd
CHECK_DEADLOCK FALSE
