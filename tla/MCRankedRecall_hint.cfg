\* A journal of a date whose first hours are the day before in UTC.
CONSTANTS
  s1 = s1
  k1 = k1
  k2 = k2
  d1 = d1
  d2 = d2
  o1 = o1
  c1 = c1
  c2 = c2
  None = None
  Scopes = {s1}
  Keys = {k1, k2}
  Contents = {"m"}
  Times = {1, 2}
  Days = {d1, d2}
  DayOf <- TwoDays
  ClaimKinds = {"fact", "decision"}
  Texts = {"t", "u"}
  Proposals <- RankProposals
  OpIds = {o1}
  MaxVersions = 1
  MaxItems = 2
  MaxAudits = 1
  MaxClock = 0
  Cues = {c1, c2}
  FoundIn <- CueTable
  IdOrder <- KeyOrder
  DayStart <- DayOrder
  UtcDayOf <- UtcDays
  Requests <- RankRequests
  RowLimit = 2
  EpisodeLimit = 2
  EvidenceLimit = 1
SPECIFICATION RankedSpec
CHECK_DEADLOCK FALSE
INVARIANT HintFindsJournal
