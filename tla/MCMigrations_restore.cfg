\* No migration drops events: is the database that opens the one that was left?
CONSTANTS
  e1 = e1
  e2 = e2
  f1 = f1
  f2 = f2
  f3 = f3
  None = None
  Events = {e1, e2}
  MaxVersion = 3
  Lossy = {}
  FileIds = {f1, f2, f3}
SPECIFICATION Spec
SYMMETRY MigrationSymmetry
CHECK_DEADLOCK FALSE
INVARIANT ReadyHoldsAll
