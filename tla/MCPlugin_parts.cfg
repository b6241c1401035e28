\* Two scopes and two actors; two calls and a close(); three releases, the
\* first without the inspector; pages of two rows; two deliveries of messages.
CONSTANTS
  s1 = s1
  s2 = s2
  s3 = s3
  a1 = a1
  a2 = a2
  Scopes = {s1, s2}
  Actors = {a1, a2}
  Permits <- GroupPermits
  Window = 1
  Purges = {p1}
  MaxTime = 3
  MaxStarts = 2
  Calls = {c1, c2}
  Loop = Loop
  Closer = Closer
  Nobody = Nobody
  Versions = {1, 2, 3}
  Inspecting = {2, 3}
  Missing = 0
  MaxLoads = 3
  Collections = {"events", "recalls"}
  ScopeRows <- SomeScopes
  Rows <- SomeRows
  Limit = 2
  NoScope = 0
  MaxTickets = 5
  Messages <- SomeMessages
  Deliveries = {d1, d2}
  Replies = {"a"}
  Commands <- SomeCommands
  Permitted = {s1, s2}
  None = None
  LastTime = 2
SPECIFICATION PluginSpec
CHECK_DEADLOCK FALSE
INVARIANTS
  ConfirmedInTime
  AnswerHolds
  PageIsCurrent
  StoredExactly
  AnswersLinked
PROPERTIES
  NothingAfterClose
  CallsReturn
  FirstLoadRight
  RefreshReturns
