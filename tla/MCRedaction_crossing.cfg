\* A quoted private key behind "password=": two matches, one crosses the other.
CONSTANTS
  Size = 4
  Priorities = {0, 1}
  MaxMatches = 2
SPECIFICATION QuotedKeySpec
CHECK_DEADLOCK FALSE
INVARIANTS
  NothingMatchedStays
