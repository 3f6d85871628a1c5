SPECIFICATION Spec
CONSTANTS
  Links = {l1, l2}
  Slugs = {a}
  Visits = {v1, v2}
  Posts = {p1, p2}
  NoLink = NoLink
  NoVisit = NoVisit
  Window = 1
  Horizon = 2
  MaxFaults = 1
SYMMETRY Alike
INVARIANTS
  TypeOK
  LoggedIsKnown
PROPERTIES
  ImplementsJournal
