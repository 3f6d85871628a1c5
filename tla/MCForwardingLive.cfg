SPECIFICATION FairSpec
CONSTANTS
  l1 = l1
  c1 = c1
  c2 = c2
  a1 = a1
  Links = {l1}
  Leads = {c1}
  Actions = {a1}
  Records = {c1, a1}
  LinkOf <- MCLinkOf
  ClickOf <- MCClickOf
  Stamp <- MCStamp
  Caps = {1, 2}
  Worker = Worker
  Requests = {q1}
  Refused = {c1}
  NoConfig = NoConfig
  MaxFaults = 1
PROPERTIES
  ImplementsAtLeastOnce
  EventuallyForwarded
