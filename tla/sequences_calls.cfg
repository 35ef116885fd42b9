SPECIFICATION FairSpec
CONSTANTS
  c1 = c1
  k1 = k1
  k2 = k2
  Contacts = {c1}
  Calls = {k1, k2}
  LastStep = 5
  Steps <- Reminder
  NoContact = NoContact
  MaxDays = 1
  BatchLimit = 2
  MaxOverlaps = 1
  MaxHeard = 1
  MaxFaults = 1
INVARIANTS
  TypeOK
  RepeatsOnlyByOverlap
PROPERTIES
  StoppedGetsNoMail
  DelayIsWaited
  EnrollmentsEnd
\* An ended enrolment stays ended.
CHECK_DEADLOCK FALSE
