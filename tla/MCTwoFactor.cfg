SPECIFICATION Spec
CONSTANTS
  Browsers = {b1, b2}
  Calls = {c1, c2}
  Secrets = {s1}
  Devices = {d1, d2, d3}
  Tokens = {t1, t2}
  MaxDevices = 1
  None = None
  MaxFaults = 1
SYMMETRY Alike
INVARIANTS
  TypeOK
  DevicesBounded
  ExchangesBounded
