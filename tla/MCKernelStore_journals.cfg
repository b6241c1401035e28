\* One scope with two messages and two days; journals, memories and recall.
CONSTANTS
  s1 = s1
  s2 = s2
  k1 = k1
  k2 = k2
  d1 = d1
  d2 = d2
  o1 = o1
  o2 = o2
  None = None
  Scopes = {s1}
  Keys = {k1, k2}
  Contents = {"m"}
  Times = {1, 2}
  Days = {d1, d2}
  DayOf <- TwoDays
  ClaimKinds = {"commitment", "open_loop"}
  Texts = {"t"}
  Proposals <- JournalProposals
  OpIds = {o1, o2}
  MaxVersions = 2
  MaxItems = 1
  MaxAudits = 1
SPECIFICATION Spec
SYMMETRY OpSymmetry
CHECK_DEADLOCK FALSE
INVARIANTS
  TypeOK
  ForgottenHoldsNothing
  JournalGrounded
  MemoryGrounded
  DecisionsAgree
  AuditsNameStored
  LedgerSound
PROPERTIES
  RetiredStaysRetired
  RetiredNotExposed
