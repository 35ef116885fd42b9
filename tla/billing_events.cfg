SPECIFICATION Spec
CONSTANTS
  s1 = s1
  s2 = s2
  h1 = h1
  h2 = h2
  Subs = {s1, s2}
  NoSub = NoSub
  pro = pro
  Paid = {pro}
  Unmapped = Unmapped
  Handlers = {h1, h2}
  MaxEvents = 5
  MaxOverlaps = 1
  MaxFaults = 1
INVARIANTS
  TypeOK
  RowTracksStripe
  LedgerTellsTransitions
  ExactlyOnceButForFaults
PROPERTIES
  LiveStaysInRow
CONSTRAINT Bound
SYMMETRY Symmetries
\* Stripe may note no further event.
CHECK_DEADLOCK FALSE
