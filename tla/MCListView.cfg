SPECIFICATION Spec
CONSTANTS
  Tenants = {11, 12, 13}
  Campaigns = {1, 2, 3}
  Links = {21, 22, 23}
  Kinds = {"tenants", "campaigns", "links"}
  FirstTenants = {11, 12}
  FirstCampaigns = {1, 2}
  FirstLinks = {21, 22}
  PerPage <- MCPerPage
  Nothing = Nothing
  MaxLoads = 2
  MaxRequests = 1
  MaxEvents = 1
INVARIANTS
  TypeOK
  SelectionIsOnPage
  QuietPageIsRight
  ReadsOwnDeletes
  CountedIsListed
  SpinnerHasLoad
PROPERTIES
  BulkIsWhole
CHECK_DEADLOCK FALSE
