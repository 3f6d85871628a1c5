CONSTANTS
  a = a
  b = b
  Tabs = {a, b}
  Plans <- MCPlans
  Checked = {"edit"}
  MaxEdits = 2
  MaxSaves = 2
  MaxMoves = 3
  MaxDone = 4
  MaxFaults = 1
SPECIFICATION Spec
SYMMETRY Alike
INVARIANTS TypeOK FormsAreTrue SavedIsStored SecretWhenNeeded 
PROPERTIES UntouchedIsKept MovesAreWarned DecisionsAreRight
CHECK_DEADLOCK FALSE
