\* Two scopes, replays with another body, two erasures; the contract.
CONSTANTS
  s1 = s1
  s2 = s2
  k1 = k1
  k2 = k2
  d1 = d1
  d2 = d2
  o1 = o1
  o2 = o2
  None = None
  Scopes = {s1, s2}
  Keys = {k1}
  Contents = {"m", "n"}
  Times = {1, 2}
  Days = {d1}
  DayOf <- OneDay
  ClaimKinds = {"fact"}
  Texts = {"t"}
  Proposals <- ScopeProposals
  OpIds = {o1, o2}
  MaxVersions = 1
  MaxItems = 1
  MaxAudits = 0
SPECIFICATION Spec
SYMMETRY ScopeSymmetry
CHECK_DEADLOCK FALSE
INVARIANTS
  PurgeNeverRefused
PROPERTIES
  KeepsContract
