SPECIFICATION Spec
CONSTANTS
  a1 = a1
  a2 = a2
  q1 = q1
  q2 = q2
  q3 = q3
  Approvals = {a1, a2}
  Requests = {q1, q2, q3}
  NoApproval = NoApproval
  NoRow = NoRow
  Default = 2
  Ceiling = 4
  Milestones = {2}
  Gain = 1
  Penalty = 1
  Scores = {3}
  MaxFaults = 0
SYMMETRY Interchangeable
PROPERTIES
  TrustGrowsOnlyByStreak
\* Requests are not repeated and decided approvals stay decided.
CHECK_DEADLOCK FALSE
