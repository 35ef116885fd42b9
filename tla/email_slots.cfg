SPECIFICATION FairSpec
CONSTANTS
  p1 = p1
  p2 = p2
  p3 = p3
  b1 = b1
  m1 = m1
  m2 = m2
  Meetings = {m1, m2}
  Preps = {p1, p2, p3}
  MeetingOf <- TwoCycles
  Briefs = {b1}
  Cap = 1
  NoCap = NoCap
  LastDay = 1
  MaxFaults = 2
INVARIANTS
  TypeOK
  ExactlyOnceButForFaults
  OverCapOnlyByFault
PROPERTIES
  ImplementsEnvelope
  FloorLands
\* Jobs that have ended stay ended.
CHECK_DEADLOCK FALSE
