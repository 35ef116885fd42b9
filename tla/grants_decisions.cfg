SPECIFICATION FairSpec
CONSTANTS
  g1 = g1
  g2 = g2
  r1 = r1
  r2 = r2
  Grants <- TwoGrants
  NoGrant = NoGrant
  Requests <- TwoRequests
  NoRequest = NoRequest
  MaxFaults = 1
INVARIANTS
  TypeOK
  VerdictIsFollowed
  SuccessionHolds
  AuditTellsTruth
PROPERTIES
  KeepsStandingGrants
  OneVerdict
  DeadlinesAreMet
\* Grants end in terminal states and requests are not repeated.
CHECK_DEADLOCK FALSE
