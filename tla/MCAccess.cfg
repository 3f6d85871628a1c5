SPECIFICATION Spec
CONSTANTS
  Users = {u1, u2, u3}
  Calls = {k1, k2}
  Nobody = Nobody
  NoRow = NoRow
  MaxSessions = 2
  MaxBulk = 1
  Given = {"admin"}
SYMMETRY Alike
INVARIANTS
  TypeOK
  SetupsBounded
PROPERTIES
  LastAccountStays
  OnlyOwnAccounts
