-------------------------- MODULE KernelStoreProofs --------------------------
(***************************************************************************)
(* Theorems about KernelStore, for every value of its constants.           *)
(***************************************************************************)
EXTENDS KernelStore, TLAPS, SequenceTheorems

-----------------------------------------------------------------------------
(* Type correctness                                                        *)

\* The empty database has its types.
LEMMA InitTypeOK == Init => TypeOK
  BY ConstantsOK, NoneIsNoRow, SMT DEF Init, TypeOK, Event

\* Materialising claims yields a memory row.
LEMMA MaterializedType ==
  ASSUME NEW row \in MemoryRow \cup {None}, NEW p \in Proposal, NEW m \in Memory
  PROVE  Materialized(row, Evidence(Hits(p, m))) \in MemoryRow
<1>1. Evidence(Hits(p, m)) \in SUBSET Event
  BY DEF Evidence, Hits, Proposal, CitedClaim
<1> QED
  BY <1>1, NoneIsNoRow DEF Materialized, MemoryRow, MemoryStates

\* Only the three kinds of decision are recorded.
LEMMA DecisionsType ==
  ASSUME NEW row, NEW hits
  PROVE  Decisions(row, hits) \in SUBSET {"create", "strengthen", "reject"}
BY DEF Decisions

\* Purging rows that exist leaves rows of the table.
LEMMA PurgedType ==
  ASSUME TypeOK, NEW E, \A e \in E : events[e] # None
  PROVE  Purged(E) \in [Event -> EventRow \cup {None}]
BY ZenonT(30) DEF TypeOK, Purged, EventRow

\* The events of a scope are rows that exist.
LEMMA ScopeEventsAreRows ==
  ASSUME NEW s
  PROVE  \A e \in ScopeEvents(s) : e \in Event /\ events[e] # None
BY DEF ScopeEvents

\* Removing evidence leaves a memory row, or no row.
LEMMA UnsupportedType ==
  ASSUME NEW row \in MemoryRow \cup {None}, NEW E
  PROVE  Unsupported(row, E) \in MemoryRow \cup {None}
BY DEF Unsupported, MemoryRow

\* Opening a row of the ledger keeps its type and what busy points to.
LEMMA OpenType ==
  ASSUME TypeOK, NEW id \in OpIds, NEW kind \in {"purge", "retain"}, NEW s \in Scopes,
         NEW cutoff \in Times \cup {None}, Open(id, kind, s, cutoff)
  PROVE  /\ ledger' \in [OpIds -> OpRow \cup {None}]
         /\ busy' \in OpIds \cup {None}
         /\ busy' # None => ledger'[busy'] # None /\ ledger'[busy'].scan = "pending"
<1>1. [kind |-> kind, scope |-> s, cutoff |-> cutoff, scan |-> "pending"] \in OpRow
  BY DEF OpRow
<1> QED
  BY <1>1, NoneIsNoRow DEF Open, TypeOK

\* Every operation keeps the types.
LEMMA NextTypeOK == TypeOK /\ [Next]_vars => TypeOK'
<1> SUFFICES ASSUME TypeOK, [Next]_vars PROVE TypeOK'
  OBVIOUS
<1> USE NoneIsNoRow
<1>1. ASSUME NEW e \in Event, NEW c \in Contents, NEW t \in Times, IngestEvent(e, c, t)
      PROVE  TypeOK'
  <2>1. [content |-> c, time |-> t, payload |-> "active"] \in EventRow
    BY DEF EventRow
  <2>2. events' \in [Event -> EventRow \cup {None}]
    BY <1>1, <2>1 DEF IngestEvent, TypeOK
  <2> QED
    BY <1>1, <2>2 DEF IngestEvent, TypeOK, derivedVars
<1>2. ASSUME NEW s \in Scopes, NEW action \in {"pause", "resume"}, SetCapturePolicy(s, action)
      PROVE  TypeOK'
  <2>1. PolicyFor(action) \in PolicyRow
    BY DEF PolicyFor, PolicyRow
  <2> QED
    BY <1>2, <2>1 DEF SetCapturePolicy, TypeOK, derivedVars
<1>3. ASSUME NEW s \in Scopes, NEW d \in Days, NEW p \in Proposals, SaveJournal(s, d, p)
      PROVE  TypeOK'
  <2>1. p \in Proposal
    BY ConstantsOK
  <2>2. jobs' \in [Scopes -> [Days -> JobRow \cup {None}]]
    <3>1. Admitted(s, d) \in SUBSET Event
      BY DEF Admitted
    <3>2. Recorded(jobs[s][d], p, Admitted(s, d)) \in JobRow
      BY <2>1, <3>1 DEF Recorded, JobRow, TypeOK
    <3> QED
      BY <1>3, <3>2 DEF SaveJournal, TypeOK
  <2>3. CASE KeepJournal(s, d, p)
    BY <1>3, <2>2, <2>3 DEF SaveJournal, KeepJournal, TypeOK
  <2>4. CASE StoreJournal(s, d, p)
    <3>1. journals' \in [Scopes -> [Days -> Seq(Proposal)]]
      <4>1. Append(journals[s][d], p) \in Seq(Proposal)
        BY <2>1, AppendProperties DEF TypeOK
      <4> QED
        BY <2>4, <4>1 DEF StoreJournal, TypeOK
    <3>2. memories' \in [Scopes -> [Memory -> MemoryRow \cup {None}]]
      BY <2>1, <2>4, MaterializedType DEF StoreJournal, TypeOK
    <3>3. ops' \in [Scopes -> [Memory -> SUBSET {"create", "strengthen", "reject"}]]
      BY <2>4, DecisionsType DEF StoreJournal, TypeOK
    <3> QED
      BY <1>3, <2>2, <3>1, <3>2, <3>3 DEF SaveJournal, TypeOK
  <2> QED
    BY <1>3, <2>3, <2>4 DEF SaveJournal
<1>4. ASSUME NEW s \in Scopes, NEW m \in Memory, NEW to \in MemoryStates, CurateMemory(s, m, to)
      PROVE  TypeOK'
  <2>1. memories[s][m] \in MemoryRow
    BY <1>4 DEF CurateMemory, TypeOK
  <2>2. [memories[s][m] EXCEPT !.state = to] \in MemoryRow
    BY <2>1 DEF MemoryRow
  <2> QED
    BY <1>4, <2>2 DEF CurateMemory, TypeOK
<1>5. ASSUME NEW s \in Scopes, NEW need \in MemoryKinds \cup {"episode"},
             NEW cued \in SUBSET Memory, NEW exposed \in SUBSET Candidates(s, need, cued),
             RequestRecall(s, need, cued, exposed)
      PROVE  TypeOK'
  <2>1. Candidates(s, need, cued) \subseteq Item
    <3>1. /\ RecallableMemories(s, need) \subseteq Memory
          /\ RecallableClaims(s, need) \subseteq Days \X Claim
          /\ RecallableEpisodes(s) \subseteq Days
      BY DEF RecallableEpisodes, RecallableMemories, RecallableClaims
    <3> QED
      BY <3>1 DEF Candidates, Item
  <2> QED
    BY <1>5, <2>1 DEF RequestRecall, TypeOK
<1>6. ASSUME NEW s \in Scopes, NEW id \in OpIds, PurgeScope(s, id)
      PROVE  TypeOK'
  <2>1. /\ ledger' \in [OpIds -> OpRow \cup {None}]
        /\ busy' \in OpIds \cup {None}
        /\ busy' # None => ledger'[busy'] # None /\ ledger'[busy'].scan = "pending"
    BY <1>6, OpenType DEF PurgeScope, TypeOK
  <2>2. events' \in [Event -> EventRow \cup {None}]
    BY <1>6, PurgedType, ScopeEventsAreRows DEF PurgeScope
  <2>3. policy' \in [Scopes -> PolicyRow \cup {None}]
    BY <1>6 DEF PurgeScope, TypeOK, PolicyRow
  <2>4. journals' \in [Scopes -> [Days -> Seq(Proposal)]]
    BY <1>6 DEF PurgeScope, TypeOK
  <2>5. memories' \in [Scopes -> [Memory -> MemoryRow \cup {None}]]
    BY <1>6, UnsupportedType, ZenonT(30) DEF PurgeScope, TypeOK
  <2>6. /\ ops' \in [Scopes -> [Memory -> SUBSET {"create", "strengthen", "reject"}]]
        /\ audits' \in [Scopes -> SUBSET SUBSET Item]
    BY <1>6 DEF PurgeScope, TypeOK, AuditsCleared
  <2> QED
    BY <1>6, <2>1, <2>2, <2>3, <2>4, <2>5, <2>6 DEF PurgeScope, TypeOK
<1>7. ASSUME NEW s \in Scopes, NEW cutoff \in Times, NEW id \in OpIds, RetainPayloads(s, cutoff, id)
      PROVE  TypeOK'
  <2>1. /\ ledger' \in [OpIds -> OpRow \cup {None}]
        /\ busy' \in OpIds \cup {None}
        /\ busy' # None => ledger'[busy'] # None /\ ledger'[busy'].scan = "pending"
    BY <1>7, OpenType DEF RetainPayloads, TypeOK
  <2>2. events' \in [Event -> EventRow \cup {None}]
    BY <1>7, PurgedType, ScopeEventsAreRows DEF RetainPayloads, EventsBefore
  <2> QED
    BY <1>7, <2>1, <2>2 DEF RetainPayloads, TypeOK, derivedVars
<1>8. ASSUME ResidualScan PROVE TypeOK'
  <2> DEFINE found == IF Residual(ledger[busy]) = {} THEN "passed" ELSE "failed"
  <2>1. busy \in OpIds /\ ledger[busy] \in OpRow
    BY <1>8 DEF ResidualScan, TypeOK
  <2>2. [ledger[busy] EXCEPT !.scan = found] \in OpRow
    BY <2>1 DEF OpRow
  <2>3. ledger' = [ledger EXCEPT ![busy] = [ledger[busy] EXCEPT !.scan = found]]
    BY <1>8 DEF ResidualScan
  <2>4. ledger' \in [OpIds -> OpRow \cup {None}]
    <3> HIDE DEF found
    <3> QED
      BY <2>1, <2>2, <2>3 DEF TypeOK
  <2> QED
    BY <1>8, <2>4, NoneIsNoRow DEF ResidualScan, TypeOK, derivedVars
<1>9. ASSUME Interrupted PROVE TypeOK'
  BY <1>9 DEF Interrupted, TypeOK, derivedVars
<1>10. CASE UNCHANGED vars
  BY <1>10 DEF vars, derivedVars, TypeOK
<1> QED
  BY <1>1, <1>2, <1>3, <1>4, <1>5, <1>6, <1>7, <1>8, <1>9, <1>10 DEF Next

\* TypeOK: every table keeps to its columns, and the operation that holds the
\* mutex after its commit has a pending row in the ledger.
THEOREM TypeCorrect == Spec => []TypeOK
  BY InitTypeOK, NextTypeOK, PTL DEF Spec

-----------------------------------------------------------------------------
(* Forgetting                                                              *)

\* Every operation leaves a forgotten scope empty.
LEMMA ForgottenStep ==
  TypeOK /\ ForgottenHoldsNothing /\ [Next]_vars => ForgottenHoldsNothing'
<1> SUFFICES ASSUME TypeOK, ForgottenHoldsNothing, [Next]_vars,
                    NEW x \in Scopes, Forgotten(x)'
             PROVE  /\ OptedOut(x)'
                    /\ \A e \in Event : e[1] = x => ~Active(e)'
                    /\ \A d \in Days : journals'[x][d] = <<>>
                    /\ \A m \in Memory : memories'[x][m] = None /\ ops'[x][m] = {}
                    /\ audits'[x] \subseteq {{}}
  BY DEF ForgottenHoldsNothing
<1> DEFINE Empty == /\ OptedOut(x)
                    /\ \A e \in Event : e[1] = x => ~Active(e)
                    /\ \A d \in Days : journals[x][d] = <<>>
                    /\ \A m \in Memory : memories[x][m] = None /\ ops[x][m] = {}
                    /\ audits[x] \subseteq {{}}
<1> SUFFICES Empty'
  OBVIOUS
<1>a. Forgotten(x) => Empty
  BY DEF ForgottenHoldsNothing
<1>b. ASSUME UNCHANGED <<policy, events, journals, memories, ops, audits>> PROVE Empty'
  BY <1>a, <1>b DEF Forgotten, OptedOut, Active
<1>1. ASSUME NEW e \in Event, NEW c \in Contents, NEW t \in Times, IngestEvent(e, c, t)
      PROVE  Empty'
  <2>1. Forgotten(x) /\ e[1] # x
    BY <1>1, <1>a DEF IngestEvent, Forgotten
  <2>2. \A f \in Event : f[1] = x => events'[f] = events[f]
    BY <1>1, <2>1 DEF IngestEvent, TypeOK
  <2> QED
    BY <1>1, <1>a, <2>1, <2>2 DEF IngestEvent, derivedVars, OptedOut, Active
<1>2. ASSUME NEW s \in Scopes, NEW action \in {"pause", "resume"}, SetCapturePolicy(s, action)
      PROVE  Empty'
  <2>1. s # x /\ Forgotten(x)
    BY <1>2 DEF SetCapturePolicy, Forgotten, PolicyFor, TypeOK
  <2> QED
    BY <1>2, <1>a, <2>1 DEF SetCapturePolicy, derivedVars, OptedOut, Active, TypeOK
<1>3. ASSUME NEW s \in Scopes, NEW d \in Days, NEW p \in Proposals, SaveJournal(s, d, p)
      PROVE  Empty'
  <2>1. Forgotten(x) /\ s # x
    BY <1>3, <1>a DEF SaveJournal, Forgotten, Admitted
  <2>2. journals'[x] = journals[x] /\ memories'[x] = memories[x] /\ ops'[x] = ops[x]
    BY <1>3, <2>1 DEF SaveJournal, KeepJournal, StoreJournal, TypeOK
  <2> QED
    BY <1>3, <1>a, <2>1, <2>2 DEF SaveJournal, OptedOut, Active
<1>4. ASSUME NEW s \in Scopes, NEW m \in Memory, NEW to \in MemoryStates, CurateMemory(s, m, to)
      PROVE  Empty'
  <2>1. Forgotten(x) /\ s # x
    BY <1>4, <1>a DEF CurateMemory, Forgotten
  <2> QED
    BY <1>4, <1>a, <2>1 DEF CurateMemory, OptedOut, Active, TypeOK
<1>5. ASSUME NEW s \in Scopes, NEW need \in MemoryKinds \cup {"episode"},
             NEW cued \in SUBSET Memory, NEW exposed \in SUBSET Candidates(s, need, cued),
             RequestRecall(s, need, cued, exposed)
      PROVE  Empty'
  <2>1. Forgotten(x)
    BY <1>5 DEF RequestRecall, Forgotten
  <2>2. ASSUME s = x PROVE exposed = {}
    <3>1. /\ RecallableMemories(s, need) = {}
          /\ RecallableClaims(s, need) = {}
          /\ RecallableEpisodes(s) = {}
      BY <1>a, <2>1, <2>2 DEF RecallableMemories, RecallableClaims, RecallableEpisodes
    <3> QED
      BY <3>1 DEF Candidates
  <2>3. audits'[x] \subseteq {{}}
    BY <1>5, <1>a, <2>1, <2>2 DEF RequestRecall, TypeOK
  <2> QED
    BY <1>5, <1>a, <2>1, <2>3 DEF RequestRecall, OptedOut, Active
<1>6. ASSUME NEW s \in Scopes, NEW id \in OpIds, PurgeScope(s, id)
      PROVE  Empty'
  <2>1. \A e \in Event : e[1] = x /\ (Forgotten(x) \/ s = x) => ~Active(e)'
    BY <1>6, <1>a DEF PurgeScope, Purged, ScopeEvents, Active, TypeOK, EventRow
  <2>2. CASE s = x
    BY <1>6, <2>1, <2>2, NoneIsNoRow DEF PurgeScope, OptedOut, TypeOK, AuditsCleared, PolicyRow
  <2>3. CASE s # x
    <3>1. Forgotten(x) /\ policy'[x] = policy[x]
      BY <1>6, <2>3 DEF PurgeScope, Forgotten, TypeOK
    <3> QED
      BY <1>6, <1>a, <2>1, <2>3, <3>1
      DEF PurgeScope, OptedOut, TypeOK, AuditsCleared, Unsupported
  <2> QED
    BY <2>2, <2>3
<1>7. ASSUME NEW s \in Scopes, NEW cutoff \in Times, NEW id \in OpIds, RetainPayloads(s, cutoff, id)
      PROVE  Empty'
  <2>1. Forgotten(x)
    BY <1>7 DEF RetainPayloads, Forgotten
  <2>2. \A e \in Event : e[1] = x => ~Active(e)'
    BY <1>7, <1>a, <2>1 DEF RetainPayloads, Purged, Active
  <2> QED
    BY <1>7, <1>a, <2>1, <2>2 DEF RetainPayloads, derivedVars, OptedOut
<1>8. ASSUME ResidualScan PROVE Empty'
  BY <1>8, <1>b DEF ResidualScan, derivedVars
<1>9. ASSUME Interrupted PROVE Empty'
  BY <1>9, <1>b DEF Interrupted, derivedVars
<1>10. CASE UNCHANGED vars
  BY <1>10, <1>b DEF vars
<1> QED
  BY <1>1, <1>2, <1>3, <1>4, <1>5, <1>6, <1>7, <1>8, <1>9, <1>10 DEF Next

\* A forgotten scope holds nothing, whatever is replayed, resumed, summarised
\* or recalled in it afterwards.
THEOREM ForgottenScopesHoldNothing == Spec => []ForgottenHoldsNothing
<1>1. Init => ForgottenHoldsNothing
  BY DEF Init, ForgottenHoldsNothing, Forgotten
<1> QED
  BY <1>1, TypeCorrect, ForgottenStep, PTL DEF Spec

-----------------------------------------------------------------------------
(* Evidence                                                                *)

\* What the events of a journal or memory stand on: a stored event stays
\* stored, with its time.
LEMMA EventsStay ==
  ASSUME TypeOK, [Next]_vars, NEW e \in Event, events[e] # None
  PROVE  events'[e] # None /\ events'[e].time = events[e].time
<1>1. ASSUME NEW f \in Event, NEW c \in Contents, NEW t \in Times, IngestEvent(f, c, t)
      PROVE  events'[e] = events[e]
  BY <1>1 DEF IngestEvent, TypeOK
<1>2. ASSUME NEW E, events' = Purged(E)
      PROVE  events'[e] # None /\ events'[e].time = events[e].time
  <2>1. events[e] \in EventRow
    BY DEF TypeOK
  <2>2. [events[e] EXCEPT !.payload = "purged"] \in EventRow
    BY <2>1 DEF EventRow
  <2> QED
    BY <1>2, <2>1, <2>2, NoneIsNoRow DEF Purged, EventRow
<1>3. ASSUME NEW s \in Scopes, NEW id \in OpIds, PurgeScope(s, id)
      PROVE  events'[e] # None /\ events'[e].time = events[e].time
  BY <1>2, <1>3 DEF PurgeScope
<1>4. ASSUME NEW s \in Scopes, NEW t \in Times, NEW id \in OpIds, RetainPayloads(s, t, id)
      PROVE  events'[e] # None /\ events'[e].time = events[e].time
  BY <1>2, <1>4 DEF RetainPayloads
<1> QED
  BY <1>1, <1>3, <1>4
  DEF Next, SetCapturePolicy, SaveJournal, CurateMemory, RequestRecall, ResidualScan,
      Interrupted, vars

\* The claims of a journal with one more version.
LEMMA ClaimsOfAppend ==
  ASSUME NEW q \in Seq(Proposal), NEW p \in Proposal
  PROVE  /\ Append(q, p) # <<>>
         /\ ClaimsOf(Append(q, p)) = ClaimsOf(q) \cup p.claims
         /\ Append(q, p)[Len(Append(q, p))] = p
<1>1. /\ Len(Append(q, p)) = Len(q) + 1
      /\ Len(q) \in Nat
      /\ DOMAIN q = 1 .. Len(q)
      /\ DOMAIN Append(q, p) = 1 .. Len(q) + 1
      /\ \A v \in 1 .. Len(q) : Append(q, p)[v] = q[v]
      /\ Append(q, p)[Len(q) + 1] = p
      /\ Append(q, p) # <<>>
  BY AppendProperties, LenProperties
<1>2. ClaimsOf(q) \cup p.claims \subseteq ClaimsOf(Append(q, p))
  <2>1. ASSUME NEW v \in 1 .. Len(q), NEW cc \in q[v].claims
        PROVE  cc \in ClaimsOf(Append(q, p))
    <3>1. v \in DOMAIN Append(q, p) /\ cc \in Append(q, p)[v].claims
      BY <1>1, <2>1
    <3> QED
      BY <3>1 DEF ClaimsOf
  <2>2. p.claims \subseteq ClaimsOf(Append(q, p))
    <3>1. Len(q) + 1 \in DOMAIN Append(q, p)
      BY <1>1
    <3> QED
      BY <1>1, <3>1 DEF ClaimsOf
  <2> QED
    BY <1>1, <2>1, <2>2 DEF ClaimsOf
<1>3. ClaimsOf(Append(q, p)) \subseteq ClaimsOf(q) \cup p.claims
  <2>1. ASSUME NEW v \in 1 .. Len(q) + 1, NEW cc \in Append(q, p)[v].claims
        PROVE  cc \in ClaimsOf(q) \cup p.claims
    <3>1. v \in 1 .. Len(q) \/ v = Len(q) + 1
      BY <1>1, <2>1
    <3> QED
      BY <1>1, <2>1, <3>1 DEF ClaimsOf
  <2> QED
    BY <1>1, <2>1 DEF ClaimsOf
<1> QED
  BY <1>1, <1>2, <1>3

\* What a new version adds: nothing, or one version at the end of one day.
LEMMA SavedJournal ==
  ASSUME TypeOK, NEW s \in Scopes, NEW d \in Days, NEW p \in Proposals, SaveJournal(s, d, p)
  PROVE  /\ journals'[s][d] # <<>> /\ Current(s, d)' = p
         /\ ClaimsOf(journals'[s][d]) = IF StoreJournal(s, d, p)
                                           THEN ClaimsOf(journals[s][d]) \cup p.claims
                                           ELSE ClaimsOf(journals[s][d])
         /\ \A x \in Scopes, y \in Days : x # s \/ y # d => journals'[x][y] = journals[x][y]
<1> p \in Proposal /\ journals[s][d] \in Seq(Proposal)
  BY ConstantsOK DEF TypeOK
<1>1. CASE KeepJournal(s, d, p)
  BY <1>1 DEF KeepJournal, StoreJournal, SameDigest, Current
<1>2. CASE StoreJournal(s, d, p)
  <2>1. journals'[s][d] = Append(journals[s][d], p)
    BY <1>2 DEF StoreJournal, TypeOK
  <2>2. \A x \in Scopes, y \in Days : x # s \/ y # d => journals'[x][y] = journals[x][y]
    BY <1>2 DEF StoreJournal, TypeOK
  <2> QED
    BY <1>2, <2>1, <2>2, ClaimsOfAppend DEF Current
<1> QED
  BY <1>1, <1>2 DEF SaveJournal

\* Every operation keeps the journals grounded in admissions.
LEMMA JournalStep ==
  TypeOK /\ JournalGrounded /\ [Next]_vars => JournalGrounded'
<1> DEFINE Grounded(x, y) ==
      /\ \A cc \in ClaimsOf(journals[x][y]) :
           cc.evidence # {} /\ cc.evidence \subseteq jobs[x][y].admitted
      /\ journals[x][y] # <<>> => jobs[x][y] # None /\ jobs[x][y].digest = Current(x, y)
      /\ jobs[x][y] # None =>
           \A e \in jobs[x][y].admitted :
             e[1] = x /\ events[e] # None /\ DayOf[events[e].time] = y
<1> SUFFICES ASSUME TypeOK, JournalGrounded, [Next]_vars, NEW x \in Scopes, NEW y \in Days
             PROVE  Grounded(x, y)'
  BY DEF JournalGrounded
<1>a. Grounded(x, y)
  BY DEF JournalGrounded
<1>b. \A e \in Event : events[e] # None =>
        events'[e] # None /\ events'[e].time = events[e].time
  BY EventsStay
<1>c. jobs[x][y] # None => jobs[x][y].admitted \subseteq Event
  BY DEF TypeOK, JobRow
<1>d. ASSUME journals'[x][y] = journals[x][y], jobs'[x][y] = jobs[x][y] PROVE Grounded(x, y)'
  BY <1>a, <1>b, <1>c, <1>d DEF Current
<1>1. ASSUME NEW s \in Scopes, NEW d \in Days, NEW p \in Proposals, SaveJournal(s, d, p)
      PROVE  Grounded(x, y)'
  <2>1. CASE s = x /\ d = y
    <3> DEFINE A == Admitted(x, y)
    <3>1. jobs'[x][y] = Recorded(jobs[x][y], p, A)
      BY <1>1, <2>1 DEF SaveJournal, TypeOK
    <3>2. /\ A \subseteq Event
          /\ \A e \in A : e[1] = x /\ events[e] # None /\ DayOf[events[e].time] = y
      BY DEF Admitted, Active
    <3>3. jobs'[x][y].digest = p /\ A \subseteq jobs'[x][y].admitted
      BY <3>1 DEF Recorded
    <3>4. jobs[x][y] # None => jobs[x][y].admitted \subseteq jobs'[x][y].admitted
      BY <3>1 DEF Recorded
    <3>5. jobs'[x][y].admitted \subseteq A \cup (IF jobs[x][y] = None THEN {} ELSE jobs[x][y].admitted)
      BY <3>1 DEF Recorded
    <3>6. jobs'[x][y] # None
      BY <1>1, <3>1, <3>2, NoneIsNoRow, ConstantsOK DEF Recorded, JobRow, TypeOK
    <3>7. ASSUME NEW cc \in ClaimsOf(journals'[x][y])
          PROVE  cc.evidence # {} /\ cc.evidence \subseteq jobs'[x][y].admitted
      <4>a. ClaimsOf(journals'[s][d]) = IF StoreJournal(s, d, p)
                                          THEN ClaimsOf(journals[s][d]) \cup p.claims
                                          ELSE ClaimsOf(journals[s][d])
        BY <1>1, SavedJournal
      <4>1. CASE cc \in p.claims
        BY <1>1, <2>1, <3>3, <4>1 DEF SaveJournal, ValidFor
      <4>2. CASE cc \in ClaimsOf(journals[x][y])
        <5>1. journals[x][y] # <<>>
          BY <4>2 DEF ClaimsOf
        <5> QED
          BY <1>a, <3>4, <4>2, <5>1
      <4> QED
        BY <2>1, <3>7, <4>a, <4>1, <4>2
    <3>8. journals'[x][y] # <<>> /\ Current(x, y)' = p
      BY <1>1, <2>1, SavedJournal
    <3>9. \A e \in jobs'[x][y].admitted :
            e[1] = x /\ events'[e] # None /\ DayOf[events'[e].time] = y
      BY <1>a, <1>b, <1>c, <3>2, <3>5
    <3> QED
      BY <3>3, <3>6, <3>7, <3>8, <3>9
  <2>2. CASE s # x \/ d # y
    <3>1. jobs'[x][y] = jobs[x][y]
      BY <1>1, <2>2 DEF SaveJournal, TypeOK
    <3>2. journals'[x][y] = journals[x][y]
      BY <1>1, <2>2, SavedJournal, ZenonT(30)
    <3> QED
      BY <1>d, <3>1, <3>2
  <2> QED
    BY <2>1, <2>2
<1>2. ASSUME NEW s \in Scopes, NEW id \in OpIds, PurgeScope(s, id)
      PROVE  Grounded(x, y)'
  <2>1. CASE s = x
    <3>1. journals'[x][y] = <<>> /\ jobs'[x][y] = jobs[x][y]
      BY <1>2, <2>1 DEF PurgeScope, TypeOK
    <3>2. ClaimsOf(journals'[x][y]) = {}
      BY <3>1 DEF ClaimsOf
    <3> QED
      BY <1>a, <1>b, <1>c, <3>1, <3>2
  <2>2. CASE s # x
    BY <1>2, <1>d, <2>2 DEF PurgeScope, TypeOK
  <2> QED
    BY <2>1, <2>2
<1> QED
  BY <1>1, <1>2, <1>d
  DEF Next, IngestEvent, SetCapturePolicy, CurateMemory, RequestRecall, RetainPayloads,
      ResidualScan, Interrupted, vars, derivedVars

\* Every stored claim cites admitted events of its own scope and day.
THEOREM JournalsAreGrounded == Spec => []JournalGrounded
<1>1. Init => JournalGrounded
  BY DEF Init, JournalGrounded, ClaimsOf
<1> QED
  BY <1>1, TypeCorrect, JournalStep, PTL DEF Spec

\* The save of a new version materialises memory n of scope x.
Hit(s, d, p, x, n) == x = s /\ StoreJournal(s, d, p) /\ Hits(p, n) # {}

\* What a save does to one memory and its decisions.
LEMMA SavedRow ==
  ASSUME TypeOK, NEW s \in Scopes, NEW d \in Days, NEW p \in Proposals, SaveJournal(s, d, p),
         NEW x \in Scopes, NEW n \in Memory
  PROVE  IF Hit(s, d, p, x, n)
           THEN /\ memories'[x][n] = Materialized(memories[x][n], Evidence(Hits(p, n)))
                /\ ops'[x][n] = ops[x][n] \cup Decisions(memories[x][n], Hits(p, n))
           ELSE memories'[x][n] = memories[x][n] /\ ops'[x][n] = ops[x][n]
<1>1. CASE KeepJournal(s, d, p)
  BY <1>1 DEF Hit, KeepJournal, StoreJournal
<1>2. CASE StoreJournal(s, d, p) /\ x = s
  <2>1. /\ memories'[s] = [m \in Memory |->
             IF Hits(p, m) = {} THEN memories[s][m]
             ELSE Materialized(memories[s][m], Evidence(Hits(p, m)))]
        /\ ops'[s] = [m \in Memory |->
             IF Hits(p, m) = {} THEN ops[s][m]
             ELSE ops[s][m] \cup Decisions(memories[s][m], Hits(p, m))]
    BY <1>2 DEF StoreJournal, TypeOK
  <2> QED
    BY <1>2, <2>1 DEF Hit
<1>3. CASE StoreJournal(s, d, p) /\ x # s
  BY <1>3 DEF Hit, StoreJournal, TypeOK
<1> QED
  BY <1>1, <1>2, <1>3 DEF SaveJournal

\* A curator changes the state of one memory and nothing else.
LEMMA CuratedRow ==
  ASSUME TypeOK, NEW s \in Scopes, NEW m \in Memory, NEW to \in MemoryStates,
         CurateMemory(s, m, to), NEW x \in Scopes, NEW n \in Memory
  PROVE  /\ memories'[x][n] = None <=> memories[x][n] = None
         /\ memories[x][n] # None => memories'[x][n].evidence = memories[x][n].evidence
         /\ x # s \/ n # m => memories'[x][n] = memories[x][n]
         /\ x = s /\ n = m => memories'[x][n].state = to
<1>1. CASE x = s /\ n = m
  <2>1. memories[s][m] \in MemoryRow
    BY DEF CurateMemory, TypeOK
  <2>2. memories'[s][m] = [memories[s][m] EXCEPT !.state = to]
    BY DEF CurateMemory, TypeOK
  <2>3. [memories[s][m] EXCEPT !.state = to] \in MemoryRow
    BY <2>1 DEF MemoryRow
  <2> QED
    BY <1>1, <2>1, <2>2, <2>3, NoneIsNoRow DEF MemoryRow
<1>2. CASE x # s \/ n # m
  BY <1>2 DEF CurateMemory, TypeOK
<1> QED
  BY <1>1, <1>2

\* What a purge does to the memories: those of its scope go, and evidence of
\* the scope goes from under the others.
LEMMA PurgedRow ==
  ASSUME TypeOK, NEW s \in Scopes, NEW id \in OpIds, PurgeScope(s, id),
         NEW x \in Scopes, NEW n \in Memory
  PROVE  /\ x = s => memories'[x][n] = None
         /\ x # s => /\ memories'[x][n] = None <=> memories[x][n] = None
                     /\ memories[x][n] # None =>
                          /\ memories'[x][n].evidence = memories[x][n].evidence \ ScopeEvents(s)
                          /\ memories'[x][n].state = memories[x][n].state
<1>1. CASE x = s
  BY <1>1 DEF PurgeScope
<1>2. CASE x # s
  <2>1. memories'[x][n] = Unsupported(memories[x][n], ScopeEvents(s))
    BY <1>2 DEF PurgeScope
  <2>2. CASE memories[x][n] = None
    BY <1>2, <2>1, <2>2 DEF Unsupported
  <2>3. CASE memories[x][n] # None
    <3> DEFINE row == [memories[x][n] EXCEPT !.evidence = @ \ ScopeEvents(s)]
    <3>1. memories[x][n] \in MemoryRow
      BY <2>3 DEF TypeOK
    <3>2. /\ row \in MemoryRow
          /\ row.evidence = memories[x][n].evidence \ ScopeEvents(s)
          /\ row.state = memories[x][n].state
      BY <3>1 DEF MemoryRow
    <3>3. memories'[x][n] = row
      BY <2>1, <2>3 DEF Unsupported
    <3> QED
      BY <1>2, <2>3, <3>2, <3>3, NoneIsNoRow
  <2> QED
    BY <2>2, <2>3
<1> QED
  BY <1>1, <1>2

\* Every operation keeps the evidence of a memory inside its scope.
LEMMA DeletableStep ==
  TypeOK /\ PurgeNeverRefused /\ [Next]_vars => PurgeNeverRefused'
<1> SUFFICES ASSUME TypeOK, PurgeNeverRefused, [Next]_vars, NEW x \in Scopes, NEW n \in Memory,
                    memories'[x][n] # None
             PROVE  memories'[x][n].evidence \subseteq ScopeEvents(x)'
  BY DEF PurgeNeverRefused, Deletable
<1>a. ScopeEvents(x) \subseteq ScopeEvents(x)'
  BY EventsStay DEF ScopeEvents
<1>b. memories[x][n] # None => memories[x][n].evidence \subseteq ScopeEvents(x)
  BY DEF PurgeNeverRefused, Deletable
<1>c. ASSUME memories[x][n] # None, memories'[x][n].evidence \subseteq memories[x][n].evidence
      PROVE  memories'[x][n].evidence \subseteq ScopeEvents(x)'
  BY <1>a, <1>b, <1>c
<1>1. ASSUME NEW s \in Scopes, NEW d \in Days, NEW p \in Proposals, SaveJournal(s, d, p)
      PROVE  memories'[x][n].evidence \subseteq ScopeEvents(x)'
  <2>1. CASE Hit(s, d, p, x, n)
    <3>1. Evidence(Hits(p, n)) \subseteq ScopeEvents(x)
      BY <1>1, <2>1 DEF Hit, SaveJournal, ValidFor, Evidence, Hits, Admitted, Active, ScopeEvents
    <3>2. memories'[x][n] = Materialized(memories[x][n], Evidence(Hits(p, n)))
      BY <1>1, <2>1, SavedRow
    <3> QED
      BY <1>a, <1>b, <3>1, <3>2 DEF Materialized
  <2>2. CASE ~Hit(s, d, p, x, n)
    BY <1>1, <1>c, <2>2, SavedRow
  <2> QED
    BY <2>1, <2>2
<1>2. ASSUME NEW s \in Scopes, NEW m \in Memory, NEW to \in MemoryStates, CurateMemory(s, m, to)
      PROVE  memories'[x][n].evidence \subseteq ScopeEvents(x)'
  BY <1>2, <1>c, CuratedRow
<1>3. ASSUME NEW s \in Scopes, NEW id \in OpIds, PurgeScope(s, id)
      PROVE  memories'[x][n].evidence \subseteq ScopeEvents(x)'
  BY <1>3, <1>c, PurgedRow
<1> QED
  BY <1>1, <1>2, <1>3, <1>c
  DEF Next, IngestEvent, SetCapturePolicy, RequestRecall, RetainPayloads, ResidualScan,
      Interrupted, vars, derivedVars

\* No foreign key stands in the way of a purge.
THEOREM PurgesAreNeverRefused == Spec => []PurgeNeverRefused
<1>1. Init => PurgeNeverRefused
  BY DEF Init, PurgeNeverRefused, Deletable
<1> QED
  BY <1>1, TypeCorrect, DeletableStep, PTL DEF Spec

\* The claims of a scope after a save, and those that name a memory.
LEMMA StoredAfterSave ==
  ASSUME TypeOK, NEW s \in Scopes, NEW d \in Days, NEW p \in Proposals, SaveJournal(s, d, p),
         NEW x \in Scopes
  PROVE  StoredClaims(x)' = IF x = s /\ StoreJournal(s, d, p)
                             THEN StoredClaims(x) \cup p.claims ELSE StoredClaims(x)
<1>1. /\ ClaimsOf(journals'[s][d]) = IF StoreJournal(s, d, p)
                                       THEN ClaimsOf(journals[s][d]) \cup p.claims
                                       ELSE ClaimsOf(journals[s][d])
      /\ \A y \in Days : y # d => journals'[s][y] = journals[s][y]
      /\ x # s => \A y \in Days : journals'[x][y] = journals[x][y]
  BY SavedJournal, ZenonT(30)
<1>2. CASE x = s
  BY <1>1, <1>2 DEF StoredClaims
<1>3. CASE x # s
  BY <1>1, <1>3 DEF StoredClaims
<1> QED
  BY <1>2, <1>3

\* A save adds the claims of its proposal to the memories they name.
LEMMA SavedClaims ==
  ASSUME TypeOK, NEW s \in Scopes, NEW d \in Days, NEW p \in Proposals, SaveJournal(s, d, p),
         NEW x \in Scopes, NEW n \in Memory
  PROVE  ClaimsNaming(x, n)' = IF Hit(s, d, p, x, n)
                                THEN ClaimsNaming(x, n) \cup Hits(p, n)
                                ELSE ClaimsNaming(x, n)
BY StoredAfterSave DEF ClaimsNaming, Hits, Hit

\* Every operation keeps each memory equal to what its claims support.
LEMMA MemoryStep ==
  TypeOK /\ JournalGrounded /\ PurgeNeverRefused /\ MemoryGrounded /\ [Next]_vars
    => MemoryGrounded'
<1> DEFINE Grounded(x, n) ==
      /\ memories[x][n] = None <=> ClaimsNaming(x, n) = {}
      /\ memories[x][n] # None =>
           /\ memories[x][n].evidence # {}
           /\ memories[x][n].evidence \subseteq Evidence(ClaimsNaming(x, n))
           /\ ~Terminal(memories[x][n].state) =>
                memories[x][n].evidence = Evidence(ClaimsNaming(x, n))
<1> SUFFICES ASSUME TypeOK, JournalGrounded, PurgeNeverRefused, MemoryGrounded, [Next]_vars,
                    NEW x \in Scopes, NEW n \in Memory
             PROVE  Grounded(x, n)'
  BY DEF MemoryGrounded
<1>a. Grounded(x, n)
  BY DEF MemoryGrounded
<1>b. ASSUME memories'[x][n] = memories[x][n], ClaimsNaming(x, n)' = ClaimsNaming(x, n)
      PROVE  Grounded(x, n)'
  BY <1>a, <1>b
<1>c. ASSUME memories' = memories, journals' = journals PROVE Grounded(x, n)'
  BY <1>b, <1>c DEF ClaimsNaming, StoredClaims
<1>1. ASSUME NEW s \in Scopes, NEW d \in Days, NEW p \in Proposals, SaveJournal(s, d, p)
      PROVE  Grounded(x, n)'
  <2>1. CASE Hit(s, d, p, x, n)
    <3> DEFINE E == Evidence(Hits(p, n))
    <3>1. memories'[x][n] = Materialized(memories[x][n], E)
      BY <1>1, <2>1, SavedRow
    <3>2. ClaimsNaming(x, n)' = ClaimsNaming(x, n) \cup Hits(p, n) /\ Hits(p, n) # {}
      BY <1>1, <2>1, SavedClaims DEF Hit
    <3>3. Evidence(ClaimsNaming(x, n)') = Evidence(ClaimsNaming(x, n)) \cup E
      BY <3>2 DEF Evidence
    <3>4. E # {}
      BY <1>1, <3>2 DEF SaveJournal, ValidFor, Evidence, Hits
    <3>5. Evidence({}) = {}
      BY DEF Evidence
    <3>6. memories'[x][n] # None
      <4>1. p \in Proposal /\ memories[x][n] \in MemoryRow \cup {None}
        BY ConstantsOK DEF TypeOK
      <4>2. memories'[x][n] \in MemoryRow
        BY <3>1, <4>1, MaterializedType
      <4> QED
        BY <4>2, NoneIsNoRow
    <3>7. /\ memories'[x][n].evidence # {}
          /\ memories'[x][n].evidence \subseteq Evidence(ClaimsNaming(x, n)')
          /\ ~Terminal(memories'[x][n].state) =>
               memories'[x][n].evidence = Evidence(ClaimsNaming(x, n)')
      <4>1. CASE memories[x][n] = None
        BY <1>a, <3>1, <3>3, <3>4, <3>5, <4>1 DEF Materialized
      <4>2. CASE memories[x][n] # None
        BY <1>a, <3>1, <3>3, <3>4, <4>2 DEF Materialized
      <4> QED
        BY <4>1, <4>2
    <3> QED
      BY <3>2, <3>6, <3>7
  <2>2. CASE ~Hit(s, d, p, x, n)
    BY <1>1, <1>b, <2>2, SavedRow, SavedClaims
  <2> QED
    BY <2>1, <2>2
<1>2. ASSUME NEW s \in Scopes, NEW m \in Memory, NEW to \in MemoryStates, CurateMemory(s, m, to)
      PROVE  Grounded(x, n)'
  <2>1. ClaimsNaming(x, n)' = ClaimsNaming(x, n)
    BY <1>2 DEF CurateMemory, ClaimsNaming, StoredClaims
  <2>2. CASE x = s /\ n = m
    <3>1. Terminal(memories[x][n].state) => Terminal(memories'[x][n].state)
      BY <1>2, <2>2, CuratedRow DEF CurateMemory, Allows, Terminal
    <3> QED
      BY <1>a, <1>2, <2>1, <3>1, CuratedRow
  <2>3. CASE x # s \/ n # m
    BY <1>b, <1>2, <2>1, <2>3, CuratedRow
  <2> QED
    BY <2>2, <2>3
<1>3. ASSUME NEW s \in Scopes, NEW id \in OpIds, PurgeScope(s, id)
      PROVE  Grounded(x, n)'
  <2>1. CASE x = s
    <3>1. ClaimsNaming(x, n)' = {}
      BY <1>3, <2>1 DEF PurgeScope, TypeOK, ClaimsNaming, StoredClaims, ClaimsOf
    <3> QED
      BY <1>3, <2>1, <3>1, PurgedRow
  <2>2. CASE x # s
    <3>1. ClaimsNaming(x, n)' = ClaimsNaming(x, n)
      BY <1>3, <2>2 DEF PurgeScope, TypeOK, ClaimsNaming, StoredClaims
    <3>2. memories[x][n] # None =>
            memories[x][n].evidence \ ScopeEvents(s) = memories[x][n].evidence
      BY <2>2 DEF PurgeNeverRefused, Deletable, ScopeEvents
    <3>3. /\ memories'[x][n] = None <=> memories[x][n] = None
          /\ memories[x][n] # None =>
               /\ memories'[x][n].evidence = memories[x][n].evidence
               /\ memories'[x][n].state = memories[x][n].state
      <4>1. /\ memories'[x][n] = None <=> memories[x][n] = None
            /\ memories[x][n] # None =>
                 /\ memories'[x][n].evidence = memories[x][n].evidence \ ScopeEvents(s)
                 /\ memories'[x][n].state = memories[x][n].state
        BY <1>3, <2>2, PurgedRow
      <4> QED
        BY <3>2, <4>1
    <3>4. CASE memories[x][n] = None
      BY <1>a, <3>1, <3>3, <3>4
    <3>5. CASE memories[x][n] # None
      <4>1. Evidence(ClaimsNaming(x, n))' = Evidence(ClaimsNaming(x, n))
        BY <3>1 DEF Evidence
      <4> QED
        BY <1>a, <3>1, <3>3, <3>5, <4>1
    <3> QED
      BY <3>4, <3>5
  <2> QED
    BY <2>1, <2>2
<1> QED
  BY <1>1, <1>2, <1>3, <1>c
  DEF Next, IngestEvent, SetCapturePolicy, RequestRecall, RetainPayloads, ResidualScan,
      Interrupted, vars, derivedVars

\* A memory exists exactly when a stored claim names it, on what those cite.
THEOREM MemoriesAreGrounded == Spec => []MemoryGrounded
<1>1. Init => MemoryGrounded
  BY DEF Init, MemoryGrounded, ClaimsNaming, StoredClaims, ClaimsOf
<1> QED
  BY <1>1, TypeCorrect, JournalsAreGrounded, PurgesAreNeverRefused, MemoryStep, PTL DEF Spec

-----------------------------------------------------------------------------
(* Decisions, audits and the ledger                                        *)

\* Every operation keeps the recorded decisions in line with the memory.
LEMMA DecisionStep ==
  TypeOK /\ DecisionsAgree /\ [Next]_vars => DecisionsAgree'
<1> DEFINE Agree(x, n) ==
      /\ memories[x][n] # None <=> "create" \in ops[x][n]
      /\ "reject" \in ops[x][n] => TerminalMemory(x, n)
<1> SUFFICES ASSUME TypeOK, DecisionsAgree, [Next]_vars, NEW x \in Scopes, NEW n \in Memory
             PROVE  Agree(x, n)'
  BY DEF DecisionsAgree
<1>a. Agree(x, n)
  BY DEF DecisionsAgree
<1>b. ASSUME memories'[x][n] = memories[x][n], ops'[x][n] = ops[x][n] PROVE Agree(x, n)'
  BY <1>a, <1>b DEF TerminalMemory
<1>1. ASSUME NEW s \in Scopes, NEW d \in Days, NEW p \in Proposals, SaveJournal(s, d, p)
      PROVE  Agree(x, n)'
  <2>1. CASE Hit(s, d, p, x, n)
    <3> DEFINE row == memories[x][n]
    <3>1. /\ memories'[x][n] = Materialized(row, Evidence(Hits(p, n)))
          /\ ops'[x][n] = ops[x][n] \cup Decisions(row, Hits(p, n))
      BY <1>1, <2>1, SavedRow
    <3>2. memories'[x][n] # None
      <4>1. p \in Proposal /\ row \in MemoryRow \cup {None}
        BY ConstantsOK DEF TypeOK
      <4>2. memories'[x][n] \in MemoryRow
        BY <3>1, <4>1, MaterializedType
      <4> QED
        BY <4>2, NoneIsNoRow
    <3>3. CASE row = None
      BY <1>a, <3>1, <3>2, <3>3 DEF Decisions, TerminalMemory
    <3>4. CASE row # None /\ Terminal(row.state)
      BY <1>a, <3>1, <3>2, <3>4 DEF Decisions, Materialized, TerminalMemory
    <3>5. CASE row # None /\ ~Terminal(row.state)
      BY <1>a, <3>1, <3>2, <3>5 DEF Decisions, Materialized, TerminalMemory
    <3> QED
      BY <3>3, <3>4, <3>5
  <2>2. CASE ~Hit(s, d, p, x, n)
    BY <1>1, <1>b, <2>2, SavedRow
  <2> QED
    BY <2>1, <2>2
<1>2. ASSUME NEW s \in Scopes, NEW m \in Memory, NEW to \in MemoryStates, CurateMemory(s, m, to)
      PROVE  Agree(x, n)'
  <2>1. CASE x = s /\ n = m
    <3>1. TerminalMemory(x, n) => TerminalMemory(x, n)'
      <4>1. memories[s][m] # None /\ Allows(memories[s][m].state, to)
        BY <1>2 DEF CurateMemory
      <4>2. /\ memories'[s][m] = None <=> memories[s][m] = None
            /\ memories'[s][m].state = to
        BY <1>2, CuratedRow
      <4> QED
        BY <2>1, <4>1, <4>2 DEF Allows, Terminal, TerminalMemory
    <3>2. ops' = ops /\ memories[s][m] # None
      BY <1>2 DEF CurateMemory
    <3> QED
      BY <1>a, <1>2, <2>1, <3>1, <3>2, CuratedRow
  <2>2. CASE x # s \/ n # m
    BY <1>b, <1>2, <2>2, CuratedRow DEF CurateMemory
  <2> QED
    BY <2>1, <2>2
<1>3. ASSUME NEW s \in Scopes, NEW id \in OpIds, PurgeScope(s, id)
      PROVE  Agree(x, n)'
  <2>1. ops'[x][n] = IF x = s THEN {} ELSE ops[x][n]
    BY <1>3 DEF PurgeScope, TypeOK
  <2>2. x # s => (TerminalMemory(x, n) => TerminalMemory(x, n)')
    BY <1>3, PurgedRow DEF TerminalMemory
  <2> QED
    BY <1>a, <1>3, <2>1, <2>2, PurgedRow
<1> QED
  BY <1>1, <1>2, <1>3, <1>b
  DEF Next, IngestEvent, SetCapturePolicy, RequestRecall, RetainPayloads, ResidualScan,
      Interrupted, vars, derivedVars

\* The recorded decisions agree with the memory they were taken for.
THEOREM DecisionsAlwaysAgree == Spec => []DecisionsAgree
<1>1. Init => DecisionsAgree
  BY DEF Init, DecisionsAgree
<1> QED
  BY <1>1, TypeCorrect, DecisionStep, PTL DEF Spec

\* An exposed item is stored in scope x.
StoredItem(x, i) ==
  \/ i.source = "memory" /\ memories[x][i.id] # None
  \/ i.source = "episode" /\ journals[x][i.id] # <<>>
  \/ /\ i.source = "claim"
     /\ \E cc \in ClaimsOf(journals[x][i.id[1]]) : cc.claim = i.id[2]

\* Every operation keeps the audits to memories and journals still stored.
LEMMA AuditStep ==
  TypeOK /\ AuditsNameStored /\ [Next]_vars => AuditsNameStored'
<1> SUFFICES ASSUME TypeOK, AuditsNameStored, [Next]_vars, NEW x \in Scopes,
                    NEW exposed \in audits'[x], NEW i \in exposed
             PROVE  StoredItem(x, i)'
  BY DEF AuditsNameStored, StoredItem
<1>a. exposed \in audits[x] => StoredItem(x, i) /\ i \in Item
  BY DEF AuditsNameStored, StoredItem, TypeOK
<1>b. ASSUME StoredItem(x, i), i \in Item, 
             \A n \in Memory : memories[x][n] # None => memories'[x][n] # None,
             \A y \in Days : journals[x][y] # <<>> => journals'[x][y] # <<>>,
             \A y \in Days : ClaimsOf(journals[x][y]) \subseteq ClaimsOf(journals'[x][y])
      PROVE  StoredItem(x, i)'
  <2>1. /\ i.source = "memory" => i.id \in Memory
        /\ i.source = "episode" => i.id \in Days
        /\ i.source = "claim" => i.id[1] \in Days
    BY <1>b DEF Item
  <2> QED
    BY <1>b, <2>1 DEF StoredItem
<1>c. ASSUME audits'[x] = audits[x], memories'[x] = memories[x], journals'[x] = journals[x]
      PROVE  StoredItem(x, i)'
  BY <1>a, <1>b, <1>c
<1>1. ASSUME NEW s \in Scopes, NEW d \in Days, NEW p \in Proposals, SaveJournal(s, d, p)
      PROVE  StoredItem(x, i)'
  <2>1. ASSUME NEW n \in Memory, memories[x][n] # None PROVE memories'[x][n] # None
    <3>1. p \in Proposal /\ memories[x][n] \in MemoryRow
      BY <2>1, ConstantsOK DEF TypeOK
    <3>2. Materialized(memories[x][n], Evidence(Hits(p, n))) # None
      BY <3>1, MaterializedType, NoneIsNoRow
    <3> QED
      BY <1>1, <2>1, <3>2, SavedRow
  <2>2. ASSUME NEW y \in Days
        PROVE  /\ journals[x][y] # <<>> => journals'[x][y] # <<>>
               /\ ClaimsOf(journals[x][y]) \subseteq ClaimsOf(journals'[x][y])
    <3>1. /\ journals'[s][d] # <<>>
          /\ ClaimsOf(journals[s][d]) \subseteq ClaimsOf(journals'[s][d])
          /\ x # s \/ y # d => journals'[x][y] = journals[x][y]
      BY <1>1, SavedJournal, ZenonT(30)
    <3> QED
      BY <3>1
  <2>3. audits'[x] = audits[x]
    BY <1>1 DEF SaveJournal
  <2> QED
    BY <1>a, <1>b, <2>1, <2>2, <2>3
<1>2. ASSUME NEW s \in Scopes, NEW m \in Memory, NEW to \in MemoryStates, CurateMemory(s, m, to)
      PROVE  StoredItem(x, i)'
  <2>1. audits' = audits /\ journals' = journals
    BY <1>2 DEF CurateMemory
  <2> QED
    BY <1>a, <1>b, <1>2, <2>1, CuratedRow
<1>3. ASSUME NEW s \in Scopes, NEW need \in MemoryKinds \cup {"episode"},
             NEW cued \in SUBSET Memory, NEW shown \in SUBSET Candidates(s, need, cued),
             RequestRecall(s, need, cued, shown)
      PROVE  StoredItem(x, i)'
  <2>1. UNCHANGED <<memories, journals>>
    BY <1>3 DEF RequestRecall
  <2>2. CASE exposed \in audits[x]
    BY <1>a, <1>b, <2>1, <2>2
  <2>3. CASE exposed \notin audits[x]
    <3>1. x = s /\ i \in Candidates(s, need, cued)
      BY <1>3, <2>3 DEF RequestRecall, TypeOK
    <3>2. StoredItem(x, i)
      <4>1. ASSUME NEW z \in RecallableClaims(s, need)
            PROVE  \E cc \in ClaimsOf(journals[s][z[1]]) : cc.claim = z[2]
        <5>1. PICK cc \in Current(s, z[1]).claims : cc.claim = z[2]
          BY <4>1 DEF RecallableClaims
        <5>2. journals[s][z[1]] \in Seq(Proposal) /\ journals[s][z[1]] # <<>>
          BY <4>1 DEF RecallableClaims, TypeOK
        <5>3. Len(journals[s][z[1]]) \in DOMAIN journals[s][z[1]]
          BY <5>2, LenProperties, EmptySeq
        <5> QED
          BY <5>1, <5>3 DEF Current, ClaimsOf
      <4> QED
        BY <3>1, <4>1
        DEF Candidates, StoredItem, RecallableMemories, RecallableEpisodes
    <3> QED
      BY <2>1, <3>2 DEF StoredItem
  <2> QED
    BY <2>2, <2>3
<1>4. ASSUME NEW s \in Scopes, NEW id \in OpIds, PurgeScope(s, id)
      PROVE  StoredItem(x, i)'
  <2>1. x # s
    BY <1>4 DEF PurgeScope, AuditsCleared, TypeOK
  <2>2. audits'[x] = audits[x] /\ journals'[x] = journals[x]
    BY <1>4, <2>1 DEF PurgeScope, AuditsCleared, TypeOK
  <2> QED
    BY <1>a, <1>b, <1>4, <2>1, <2>2, PurgedRow
<1> QED
  BY <1>1, <1>2, <1>3, <1>4, <1>c
  DEF Next, IngestEvent, SetCapturePolicy, RetainPayloads, ResidualScan, Interrupted,
      vars, derivedVars

\* What a recall audit names is stored.
THEOREM AuditsAlwaysNameStored == Spec => []AuditsNameStored
<1>1. Init => AuditsNameStored
  BY DEF Init, AuditsNameStored
<1> QED
  BY <1>1, TypeCorrect, AuditStep, PTL DEF Spec

\* LedgerSound becomes inductive with what the scan is about to find: nothing.
LedgerInv ==
  /\ LedgerSound
  /\ busy # None => Residual(ledger[busy]) = {}

\* Every operation keeps the ledger and the capture policies in line.
LEMMA LedgerStep ==
  TypeOK /\ LedgerInv /\ [Next]_vars => LedgerInv'
<1> SUFFICES ASSUME TypeOK, LedgerInv, [Next]_vars PROVE LedgerInv'
  OBVIOUS
<1> USE DEF LedgerInv
<1>1. ASSUME UNCHANGED <<ledger, policy>>, busy' = None PROVE LedgerInv'
  BY <1>1 DEF LedgerSound, Forgotten
<1>2. ASSUME UNCHANGED <<ledger, policy, busy, events>> PROVE LedgerInv'
  BY <1>2 DEF LedgerSound, Forgotten, Residual, EventsBefore, ScopeEvents, Active
<1>3. ASSUME NEW s \in Scopes, NEW action \in {"pause", "resume"}, SetCapturePolicy(s, action)
      PROVE  LedgerInv'
  <2>1. \A x \in Scopes : Forgotten(x)' <=> Forgotten(x)
    <3>1. PolicyFor(action).reason # "explicit_forgetme"
      BY DEF PolicyFor
    <3> QED
      BY <1>3, <3>1 DEF SetCapturePolicy, Forgotten, TypeOK
  <2>2. UNCHANGED <<ledger, busy>> /\ busy = None
    BY <1>3 DEF SetCapturePolicy
  <2> QED
    BY <2>1, <2>2 DEF LedgerSound
<1>4. ASSUME NEW s \in Scopes, NEW id \in OpIds, PurgeScope(s, id)
      PROVE  LedgerInv'
  <2>1. /\ ledger[id] = None
        /\ ledger' = [ledger EXCEPT ![id] =
             [kind |-> "purge", scope |-> s, cutoff |-> None, scan |-> "pending"]]
        /\ busy' = id
    BY <1>4 DEF PurgeScope, Open
  <2>2. ledger'[id] # None /\ ledger'[id].kind = "purge" /\ ledger'[id].scope = s
    <3>1. [kind |-> "purge", scope |-> s, cutoff |-> None, scan |-> "pending"] \in OpRow
      BY DEF OpRow
    <3> QED
      BY <2>1, <3>1, NoneIsNoRow DEF TypeOK
  <2>3. /\ ledger'[id].scan = "pending"
        /\ \A o \in OpIds : o # id => ledger'[o] = ledger[o]
    BY <2>1 DEF TypeOK
  <2>4. \A x \in Scopes : Forgotten(x)' <=> Forgotten(x) \/ x = s
    <3>1. [state |-> "opted_out", reason |-> "explicit_forgetme"] \in PolicyRow
      BY DEF PolicyRow
    <3> QED
      BY <1>4, <3>1, NoneIsNoRow DEF PurgeScope, Forgotten, TypeOK
  <2>5. LedgerSound'
    BY <2>1, <2>2, <2>3, <2>4 DEF LedgerSound
  <2>6. \A e \in Event : e[1] = s => ~Active(e)'
    BY <1>4 DEF PurgeScope, Purged, ScopeEvents, Active, TypeOK, EventRow
  <2>7. Residual(ledger[busy])' = {}
    BY <2>1, <2>2, <2>6 DEF Residual, ScopeEvents
  <2> QED
    BY <2>5, <2>7
<1>5. ASSUME NEW s \in Scopes, NEW t \in Times, NEW id \in OpIds, RetainPayloads(s, t, id)
      PROVE  LedgerInv'
  <2>1. /\ ledger[id] = None
        /\ ledger' = [ledger EXCEPT ![id] =
             [kind |-> "retain", scope |-> s, cutoff |-> t, scan |-> "pending"]]
        /\ busy' = id
    BY <1>5 DEF RetainPayloads, Open
  <2>2. /\ ledger'[id].kind = "retain" /\ ledger'[id].scope = s /\ ledger'[id].cutoff = t
        /\ ledger'[id].scan = "pending"
        /\ \A o \in OpIds : o # id => ledger'[o] = ledger[o]
    BY <2>1 DEF TypeOK
  <2>3. policy' = policy
    BY <1>5 DEF RetainPayloads
  <2>4. LedgerSound'
    BY <2>1, <2>2, <2>3 DEF LedgerSound, Forgotten
  <2>5. \A e \in EventsBefore(s, t)' : ~Active(e)'
    <3>1. ASSUME NEW e \in EventsBefore(s, t)' PROVE e \in EventsBefore(s, t)
      <4>1. /\ e \in Event /\ e[1] = s /\ events'[e] # None /\ events'[e].time < t
            /\ events' = Purged(EventsBefore(s, t))
        BY <1>5, <3>1 DEF RetainPayloads, EventsBefore, ScopeEvents
      <4> QED
        BY <4>1 DEF EventsBefore, ScopeEvents, Purged
    <3>2. ASSUME NEW e \in EventsBefore(s, t) PROVE ~Active(e)'
      <4>1. events[e] \in EventRow /\ e \in Event
        BY <3>2 DEF EventsBefore, ScopeEvents, TypeOK
      <4>2. events'[e] = [events[e] EXCEPT !.payload = "purged"]
        BY <1>5, <3>2, <4>1 DEF RetainPayloads, Purged
      <4> QED
        BY <4>1, <4>2 DEF Active, EventRow
    <3> QED
      BY <3>1, <3>2
  <2>6. Residual(ledger[busy])' = {}
    BY <2>1, <2>2, <2>5 DEF Residual
  <2> QED
    BY <2>4, <2>6
<1>6. ASSUME ResidualScan PROVE LedgerInv'
  <2>1. /\ busy \in OpIds /\ ledger[busy] \in OpRow
        /\ ledger' = [ledger EXCEPT ![busy].scan = "passed"]
        /\ busy' = None /\ policy' = policy
    BY <1>6 DEF ResidualScan, TypeOK
  <2>2. ledger'[busy] = [ledger[busy] EXCEPT !.scan = "passed"]
    BY <2>1 DEF TypeOK
  <2>3. /\ ledger'[busy] \in OpRow /\ ledger'[busy].scan = "passed"
        /\ ledger'[busy].kind = ledger[busy].kind /\ ledger'[busy].scope = ledger[busy].scope
    BY <2>1, <2>2 DEF OpRow
  <2>4. \A o \in OpIds : o # busy => ledger'[o] = ledger[o]
    BY <2>1 DEF TypeOK
  <2> QED
    BY <2>1, <2>3, <2>4, NoneIsNoRow DEF LedgerSound, Forgotten
<1> QED
  BY <1>1, <1>2, <1>3, <1>4, <1>5, <1>6
  DEF Next, IngestEvent, SaveJournal, CurateMemory, RequestRecall, Interrupted, vars,
      derivedVars

\* No scan finds a payload its operation should have purged, and a scope is
\* forgotten exactly when the ledger has a purge of it.
THEOREM LedgerIsSound == Spec => []LedgerSound
<1>1. Init => LedgerInv
  BY DEF Init, LedgerInv, LedgerSound, Forgotten
<1>2. LedgerInv => LedgerSound
  BY DEF LedgerInv
<1> QED
  BY <1>1, <1>2, TypeCorrect, LedgerStep, PTL DEF Spec

-----------------------------------------------------------------------------
(* Retired memories                                                        *)

\* A retired memory keeps its evidence and stays retired, or is purged.
LEMMA RetiredStep ==
  ASSUME TypeOK, PurgeNeverRefused, [Next]_vars, NEW x \in Scopes, NEW n \in Memory,
         TerminalMemory(x, n), memories'[x][n] # None
  PROVE  /\ Terminal(memories'[x][n].state)
         /\ memories'[x][n].evidence = memories[x][n].evidence
<1> DEFINE Kept == /\ Terminal(memories'[x][n].state)
                   /\ memories'[x][n].evidence = memories[x][n].evidence
<1>a. memories[x][n] # None /\ Terminal(memories[x][n].state)
  BY DEF TerminalMemory
<1>1. ASSUME NEW s \in Scopes, NEW d \in Days, NEW p \in Proposals, SaveJournal(s, d, p)
      PROVE  Kept
  BY <1>a, <1>1, SavedRow DEF Materialized
<1>2. ASSUME NEW s \in Scopes, NEW m \in Memory, NEW to \in MemoryStates, CurateMemory(s, m, to)
      PROVE  Kept
  <2>1. CASE x = s /\ n = m
    <3>1. memories'[x][n].state = to /\ memories'[x][n].evidence = memories[x][n].evidence
      BY <1>a, <1>2, <2>1, CuratedRow
    <3>2. Allows(memories[x][n].state, to)
      BY <1>2, <2>1 DEF CurateMemory
    <3> QED
      BY <1>a, <3>1, <3>2 DEF Allows, Terminal
  <2>2. CASE x # s \/ n # m
    BY <1>a, <1>2, <2>2, CuratedRow
  <2> QED
    BY <2>1, <2>2
<1>3. ASSUME NEW s \in Scopes, NEW id \in OpIds, PurgeScope(s, id)
      PROVE  Kept
  <2>1. x # s
    BY <1>3, PurgedRow
  <2>2. memories[x][n].evidence \ ScopeEvents(s) = memories[x][n].evidence
    BY <1>a, <2>1 DEF PurgeNeverRefused, Deletable, ScopeEvents
  <2>3. /\ memories'[x][n].evidence = memories[x][n].evidence \ ScopeEvents(s)
        /\ memories'[x][n].state = memories[x][n].state
    BY <1>a, <1>3, <2>1, PurgedRow
  <2> QED
    BY <1>a, <2>2, <2>3
<1> QED
  BY <1>a, <1>1, <1>2, <1>3
  DEF Next, IngestEvent, SetCapturePolicy, RequestRecall, RetainPayloads, ResidualScan,
      Interrupted, vars, derivedVars

\* No step revives or strengthens a retired memory.
THEOREM RetiredMemoriesStay == Spec => RetiredStaysRetired
<1>1. TypeOK /\ PurgeNeverRefused /\ [Next]_vars =>
        [\A s \in Scopes, m \in Memory :
           TerminalMemory(s, m) /\ memories'[s][m] # None =>
             /\ Terminal(memories'[s][m].state)
             /\ memories'[s][m].evidence = memories[s][m].evidence]_vars
  BY RetiredStep
<1> QED
  BY <1>1, TypeCorrect, PurgesAreNeverRefused, PTL DEF Spec, RetiredStaysRetired

\* No recall exposes the statement of a retired memory.
THEOREM RetiredMemoriesNotExposed == Spec => RetiredNotExposed
<1> DEFINE A == \A s \in Scopes : \A exposed \in audits'[s] \ audits[s] : \A i \in exposed :
                  /\ i.source = "memory" => ~TerminalMemory(s, i.id)
                  /\ i.source = "claim" => ~TerminalMemory(s, MemoryOf(i.id[2]))
<1>1. ASSUME TypeOK, NEW s \in Scopes, NEW need, NEW cued, NEW exposed,
             RequestRecall(s, need, cued, exposed)
      PROVE  A
  <2>1. \A i \in Candidates(s, need, cued) :
          /\ i.source = "memory" => ~TerminalMemory(s, i.id)
          /\ i.source = "claim" => ~TerminalMemory(s, MemoryOf(i.id[2]))
    BY DEF Candidates, RecallableMemories, RecallableClaims, TerminalMemory, Terminal
  <2>2. \A x \in Scopes : audits'[x] \ audits[x] \subseteq IF x = s THEN {exposed} ELSE {}
    BY <1>1 DEF RequestRecall, TypeOK
  <2> QED
    BY <1>1, <2>1, <2>2 DEF RequestRecall
<1>2. ASSUME TypeOK, NEW s \in Scopes, NEW id, PurgeScope(s, id) PROVE A
  <2>1. \A x \in Scopes : audits'[x] \ audits[x] = {}
    BY <1>2 DEF PurgeScope, AuditsCleared, TypeOK
  <2> QED
    BY <2>1
<1>3. ASSUME audits' = audits PROVE A
  BY <1>3
<1>4. TypeOK /\ [Next]_vars => [A]_vars
  BY <1>1, <1>2, <1>3
  DEF Next, IngestEvent, SetCapturePolicy, SaveJournal, CurateMemory, RetainPayloads,
      ResidualScan, Interrupted, vars, derivedVars
<1> QED
  BY <1>4, TypeCorrect, PTL DEF Spec, RetiredNotExposed

=============================================================================
