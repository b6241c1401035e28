\* Every set of up to three matches of a short text; budgets that do not divide,
\* one event more than is shown; short, just fitting and long statements, more
\* items than a depth allows; a whole cycle of the calendar; one memory, journals
\* of several versions, three maintenance runs, a clock.
CONSTANTS
  Size = 5
  Priorities = {0, 1}
  MaxMatches = 3
  Lengths = {1, 2, 3, 4, 6}
  MaxEvents = 5
  EventLimit = 3
  ContentLimit = 4
  Budget = 8
  Statements = {1, 260, 500}
  KindWidths = {4, 12}
  Evidences = {1, 3}
  MaxFound = 4
  Walks <- AllWalks
  s1 = s1
  k1 = k1
  d1 = d1
  o1 = o1
  o2 = o2
  o3 = o3
  None = None
  Scopes = {s1}
  Keys = {k1}
  Contents = {"m"}
  Times = {1, 2}
  Days = {d1}
  DayOf <- OneDay
  ClaimKinds = {"commitment", "open_loop"}
  Texts = {"t"}
  Proposals <- HotProposals
  OpIds = {o1, o2, o3}
  MaxVersions = 5
  MaxItems = 0
  MaxAudits = 0
  MaxClock = 2
SPECIFICATION PartsSpec
SYMMETRY OpSymmetry
CHECK_DEADLOCK FALSE
INVARIANTS
  Redacted
  ContextHonest
  EarlierEvidenceKept
  DatesAgree
  DecayIsMemoryless
PROPERTIES
  TouchedNeverBack
