\* Two days, two runs at once, one start; handlers outlive terminate().
CONSTANTS
  s1 = s1
  k1 = k1
  k2 = k2
  d1 = d1
  d2 = d2
  o1 = o1
  r1 = r1
  r2 = r2
  r3 = r3
  None = None
  Scopes = {s1}
  Keys = {k1}
  Contents = {"m"}
  Times = {1}
  Days = {d1, d2}
  DayOf <- DayOne
  ClaimKinds = {"fact"}
  Texts = {"t"}
  Proposals <- OneProposal
  OpIds = {o1}
  MaxVersions = 1
  MaxItems = 0
  MaxAudits = 0
  Runs = {r1, r2}
  DueDays <- TwoDue
  MaxStarts = 1
  LateCaptures = TRUE
SPECIFICATION FairDiarySpec
CHECK_DEADLOCK FALSE
INVARIANT OneAutoAtATime
PROPERTIES
  SilentWhenDown
  ShutdownCompletes
  RunsMoveOn
