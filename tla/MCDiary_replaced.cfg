\* An automatic run and a command for the same day.
CONSTANTS
  s1 = s1
  k1 = k1
  k2 = k2
  d1 = d1
  d2 = d2
  o1 = o1
  r1 = r1
  r2 = r2
  r3 = r3
  None = None
  Scopes = {s1}
  Keys = {k1, k2}
  Contents = {"m"}
  Times = {1}
  Days = {d1}
  DayOf <- DayOne
  ClaimKinds = {"fact"}
  Texts = {"t"}
  Proposals <- DiaryProposals
  OpIds = {o1}
  MaxVersions = 3
  MaxItems = 0
  MaxAudits = 0
  Runs = {r1, r2}
  DueDays <- OneDue
  MaxStarts = 2
  LateCaptures = FALSE
SPECIFICATION DiarySpec
CHECK_DEADLOCK FALSE
PROPERTY AutoNeverReplaces
