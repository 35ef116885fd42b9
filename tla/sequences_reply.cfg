SPECIFICATION FairSpec
CONSTANTS
  c1 = c1
  k1 = k1
  k2 = k2
  Contacts = {c1}
  Calls = {k1}
  LastStep = 5
  Steps <- Reminder
  NoContact = NoContact
  MaxDays = 1
  BatchLimit = 1
  MaxOverlaps = 0
  MaxHeard = 2
  MaxFaults = 0
PROPERTIES
  AnswersAreRecorded
\* An ended enrolment stays ended.
CHECK_DEADLOCK FALSE
