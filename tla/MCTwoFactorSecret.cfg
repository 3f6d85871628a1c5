SPECIFICATION Spec
CONSTANTS
  Browsers = {b1}
  Calls = {c1}
  Secrets = {s1, s2}
  Devices = {d1}
  Tokens = {t1}
  MaxDevices = 1
  None = None
  MaxFaults = 0
SYMMETRY Alike
INVARIANTS
  ConfirmedSecret
