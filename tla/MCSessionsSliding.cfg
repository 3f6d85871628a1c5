SPECIFICATION Spec
CONSTANTS
  Tabs = {t1, t2}
  Calls = {k1, k2}
  Ids = {s1, s2}
  NoId = NoId
  NoTab = NoTab
  TTL = 2
  Horizon = 2
  MaxFaults = 0
INVARIANTS
  SlidingSession
