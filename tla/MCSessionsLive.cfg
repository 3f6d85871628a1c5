SPECIFICATION FairSpec
CONSTANTS
  Tabs = {t1, t2}
  Calls = {k1, k2}
  Ids = {s1}
  NoId = NoId
  NoTab = NoTab
  TTL = 2
  Horizon = 2
  MaxFaults = 1
PROPERTIES
  SignedOutSpreads
