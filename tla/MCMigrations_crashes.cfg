\* Two events, three schema versions, three files; the migration to 3 may drop events.
CONSTANTS
  e1 = e1
  e2 = e2
  f1 = f1
  f2 = f2
  f3 = f3
  None = None
  Events = {e1, e2}
  MaxVersion = 3
  Lossy = {3}
  FileIds = {f1, f2, f3}
SPECIFICATION Spec
SYMMETRY MigrationSymmetry
CHECK_DEADLOCK FALSE
INVARIANTS
  TypeOK
  Recoverable
  PurgedStaysPurged
  RestoredAsFound
