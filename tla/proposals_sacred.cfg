SPECIFICATION Spec
CONSTANTS
  p1 = p1
  p2 = p2
  name = name
  entries = entries
  profile = profile
  role = role
  pains = pains
  w1 = w1
  w2 = w2
  Proposals = {p1, p2}
  NoProposal = NoProposal
  Workers = {w1, w2}
  Fields = {name, entries, profile}
  Objects = {profile}
  Cells = {name, entries, role, pains}
  FieldOf <- FieldOfCell
  Lists = {entries, pains}
  Drafts <- AllDrafts
  MaxFaults = 1
PROPERTIES
  UserDataSacred
\* When all proposals are decided nothing remains to be done.
CHECK_DEADLOCK FALSE
