------------------------ MODULE KernelStoreRefinement ------------------------
(***************************************************************************)
(* KernelStore implements PrivacyContract, and RankedRecall implements     *)
(* KernelStore, for every value of the constants: each operation is a step *)
(* of the more abstract one or changes nothing that one can see.           *)
(***************************************************************************)
EXTENDS RankedRecall, KernelStoreProofs, FiniteSetTheorems

-----------------------------------------------------------------------------
(* The store keeps the contract                                            *)

\* Consent depends on the capture policies only.
LEMMA SameConsent == ASSUME policy' = policy PROVE Consent' = Consent
BY DEF Consent, Forgotten, OptedOut

\* What is readable and erased depends on the events only.
LEMMA SameBodies == ASSUME events' = events PROVE Readable' = Readable /\ Erased' = Erased
BY DEF Readable, Erased, Active

\* What is cited depends on the journals only.
LEMMA SameCited == ASSUME journals' = journals PROVE Cited' = Cited
BY DEF Cited, StoredClaims

\* A forgotten scope is opted out.
LEMMA ForgottenOptsOut == ASSUME TypeOK, NEW s \in Scopes, Forgotten(s) PROVE OptedOut(s)
BY DEF TypeOK, Forgotten, OptedOut, PolicyRow

\* What the journals of a scope cite are events of that scope.
LEMMA CitedInScope ==
  ASSUME TypeOK, JournalGrounded, NEW s \in Scopes, NEW cc \in StoredClaims(s),
         NEW e \in cc.evidence
  PROVE  e \in Event /\ e[1] = s
<1>1. PICK d \in Days : cc \in ClaimsOf(journals[s][d])
  BY DEF StoredClaims
<1>2. journals[s][d] # <<>>
  BY <1>1 DEF ClaimsOf
<1>3. jobs[s][d] # None /\ e \in jobs[s][d].admitted
  BY <1>1, <1>2 DEF JournalGrounded
<1>4. jobs[s][d] \in JobRow
  BY <1>3 DEF TypeOK
<1> QED
  BY <1>3, <1>4 DEF JournalGrounded, JobRow

\* An event of Cited is cited by a claim of a scope.
LEMMA CitedMember ==
  ASSUME NEW e
  PROVE  e \in Cited <=> \E s \in Scopes : \E cc \in StoredClaims(s) : e \in cc.evidence
BY DEF Cited, Evidence

\* The bodies that can be read are those of the events that are active.
LEMMA ReadableBodies ==
  /\ \A b \in Readable : b[1] \in Event /\ Active(b[1]) /\ b = <<b[1], events[b[1]].content>>
  /\ \A e \in Event : Active(e) => <<e, events[e].content>> \in Readable
<1>1. ASSUME NEW b \in Readable
      PROVE  b[1] \in Event /\ Active(b[1]) /\ b = <<b[1], events[b[1]].content>>
  <2>1. PICK e \in Event : Active(e) /\ b = <<e, events[e].content>>
    BY DEF Readable
  <2>2. b[1] = e
    BY <2>1
  <2> QED
    BY <2>1, <2>2
<1>2. ASSUME NEW e \in Event, Active(e) PROVE <<e, events[e].content>> \in Readable
  BY <1>2 DEF Readable
<1> QED
  BY <1>1, <1>2

\* The events with a readable body are the active ones.
LEMMA ReadableEvents == {b[1] : b \in Readable} = {e \in Event : Active(e)}
<1>1. ASSUME NEW e \in Event, Active(e) PROVE e \in {b[1] : b \in Readable}
  <2>1. <<e, events[e].content>> \in Readable
    BY <1>1, ReadableBodies
  <2> QED
    BY <2>1
<1> QED
  BY <1>1, ReadableBodies

\* ingest_event that inserts is a capture of the contract.
LEMMA IngestCaptures ==
  ASSUME TypeOK, NEW e \in Event, NEW c \in Contents, NEW t \in Times, IngestEvent(e, c, t)
  PROVE  Contract!Capture(e, c)
<1> DEFINE row == [content |-> c, time |-> t, payload |-> "active"]
<1>1. /\ ~OptedOut(e[1]) /\ events[e] = None
      /\ events' = [events EXCEPT ![e] = row]
      /\ policy' = policy /\ journals' = journals
  BY DEF IngestEvent, derivedVars
<1>2. row \in EventRow /\ row # None
  BY NoneIsNoRow DEF EventRow
<1>3. e[1] \in Scopes
  BY DEF Event
<1>4. Consent[e[1]] = "open"
  BY <1>1, <1>3, ForgottenOptsOut DEF Consent
<1>5. e \notin {b[1] : b \in Readable} \cup Erased
  BY <1>1 DEF Readable, Erased, Active
<1>6. events'[e] = row /\ \A f \in Event : f # e => events'[f] = events[f]
  BY <1>1 DEF TypeOK
<1>7. Readable' = Readable \cup {<<e, c>>}
  <2>1. ASSUME NEW f \in Event PROVE Active(f)' <=> Active(f) \/ f = e
    BY <1>1, <1>2, <1>6 DEF Active
  <2>2. events'[e].content = c
    BY <1>6
  <2> QED
    BY <1>1, <1>6, <2>1, <2>2 DEF Readable, Active
<1>8. Erased' = Erased
  BY <1>1, <1>6 DEF Erased
<1> QED
  BY <1>1, <1>4, <1>5, <1>7, <1>8, SameConsent, SameCited
  DEF Contract!Capture, Contract!EventsOf

\* pause and resume of a scope not forgotten set its consent.
LEMMA PolicySetsConsent ==
  ASSUME TypeOK, NEW s \in Scopes, NEW action \in {"pause", "resume"},
         SetCapturePolicy(s, action)
  PROVE  \E c \in {"open", "paused"} : Contract!SetConsent(s, c)
<1> DEFINE c == IF action = "pause" THEN "paused" ELSE "open"
<1>1. /\ ~Forgotten(s) /\ policy' = [policy EXCEPT ![s] = PolicyFor(action)]
      /\ events' = events /\ journals' = journals
  BY DEF SetCapturePolicy, derivedVars
<1>2. PolicyFor(action) # None
  BY NoneIsNoRow DEF PolicyFor, PolicyRow
<1>3. Consent[s] # "forgotten"
  BY <1>1 DEF Consent
<1>4. Consent' = [Consent EXCEPT ![s] = c]
  <2>1. policy'[s] = PolicyFor(action) /\ \A x \in Scopes : x # s => policy'[x] = policy[x]
    BY <1>1 DEF TypeOK
  <2>2. ~Forgotten(s)' /\ (OptedOut(s)' <=> action = "pause")
    BY <1>2, <2>1 DEF Forgotten, OptedOut, PolicyFor
  <2>3. \A x \in Scopes : x # s => (Forgotten(x)' <=> Forgotten(x)) /\ (OptedOut(x)' <=> OptedOut(x))
    BY <2>1 DEF Forgotten, OptedOut
  <2> QED
    BY <2>2, <2>3 DEF Consent
<1>5. Contract!SetConsent(s, c)
  BY <1>1, <1>3, <1>4, SameBodies, SameCited DEF Contract!SetConsent
<1> QED
  BY <1>5

\* save_journal cites only bodies of its scope that are readable.
LEMMA SaveCites ==
  ASSUME TypeOK, NEW s \in Scopes, NEW d \in Days, NEW p \in Proposals, SaveJournal(s, d, p)
  PROVE  \E E \in SUBSET Event : Contract!Cite(s, E)
<1> DEFINE E == IF StoreJournal(s, d, p) THEN Evidence(p.claims) ELSE {}
<1>1. policy' = policy /\ events' = events
  BY DEF SaveJournal
<1>2. E \subseteq Admitted(s, d)
  BY DEF SaveJournal, ValidFor, Evidence
<1>3. \A e \in Admitted(s, d) : e \in Event /\ e[1] = s /\ e \in {b[1] : b \in Readable}
  BY ReadableEvents DEF Admitted
<1>4. Cited' = Cited \cup E
  <2>1. \A x \in Scopes : StoredClaims(x)' = IF x = s /\ StoreJournal(s, d, p)
                                              THEN StoredClaims(x) \cup p.claims
                                              ELSE StoredClaims(x)
    BY StoredAfterSave
  <2> QED
    BY <2>1 DEF Cited, Evidence
<1>5. E \subseteq Contract!Of(s, Contract!EventsOf(Readable))
  BY <1>2, <1>3 DEF Contract!Of, Contract!EventsOf
<1>6. Contract!Cite(s, E)
  BY <1>1, <1>4, <1>5, SameConsent, SameBodies DEF Contract!Cite
<1> QED
  BY <1>2, <1>3, <1>6

\* The transaction of purge_scope forgets the scope.
LEMMA PurgeForgets ==
  ASSUME TypeOK, JournalGrounded, NEW s \in Scopes, NEW id \in OpIds, PurgeScope(s, id)
  PROVE  Contract!Forget(s)
<1>1. /\ events' = Purged(ScopeEvents(s))
      /\ policy' = [policy EXCEPT ![s] = [state |-> "opted_out", reason |-> "explicit_forgetme"]]
      /\ journals' = [journals EXCEPT ![s] = [d \in Days |-> <<>>]]
  BY DEF PurgeScope
<1>2. \A e \in Event : events'[e] = IF e[1] = s /\ events[e] # None
                                      THEN [events[e] EXCEPT !.payload = "purged"]
                                      ELSE events[e]
  BY <1>1 DEF Purged, ScopeEvents
<1>3. ASSUME NEW e \in Event, e[1] = s, events[e] # None
      PROVE  /\ events'[e] # None /\ events'[e].payload = "purged"
             /\ Active(e) <=> events[e].payload # "purged"
  <2>1. events[e] \in EventRow
    BY <1>3 DEF TypeOK
  <2>2. [events[e] EXCEPT !.payload = "purged"] \in EventRow
    BY <2>1 DEF EventRow
  <2> QED
    BY <1>2, <1>3, <2>1, <2>2, NoneIsNoRow DEF EventRow, Active
<1>4. ASSUME NEW e \in Event PROVE Active(e)' <=> Active(e) /\ e[1] # s
  BY <1>2, <1>3 DEF Active
<1>5. Consent' = [Consent EXCEPT ![s] = "forgotten"]
  <2>1. /\ policy'[s] = [state |-> "opted_out", reason |-> "explicit_forgetme"]
        /\ \A x \in Scopes : x # s => policy'[x] = policy[x]
    BY <1>1 DEF TypeOK
  <2>2. Forgotten(s)'
    BY <2>1, NoneIsNoRow DEF Forgotten, PolicyRow
  <2>3. \A x \in Scopes : x # s => (Forgotten(x)' <=> Forgotten(x)) /\ (OptedOut(x)' <=> OptedOut(x))
    BY <2>1 DEF Forgotten, OptedOut
  <2> QED
    BY <2>2, <2>3 DEF Consent
<1>6. Readable' = {b \in Readable : b[1][1] # s}
  <2>1. Readable' = {<<e, events'[e].content>> : e \in {f \in Event : Active(f) /\ f[1] # s}}
    BY <1>4 DEF Readable
  <2>2. \A e \in Event : e[1] # s => events'[e] = events[e]
    BY <1>2
  <2>3. ASSUME NEW b \in Readable'
        PROVE  b \in Readable /\ b[1][1] # s
    <3>1. PICK e \in Event : Active(e) /\ e[1] # s /\ b = <<e, events'[e].content>>
      BY <2>1
    <3>2. b = <<e, events[e].content>> /\ b[1] = e
      BY <2>2, <3>1
    <3> QED
      BY <3>1, <3>2, ReadableBodies
  <2>4. ASSUME NEW b \in Readable, b[1][1] # s
        PROVE  b \in Readable'
    <3> DEFINE e == b[1]
    <3>1. e \in Event /\ Active(e) /\ e[1] # s /\ b = <<e, events[e].content>>
      BY <2>4, ReadableBodies
    <3> QED
      BY <2>1, <2>2, <3>1
  <2> QED
    BY <2>3, <2>4
<1>7. Erased' = Erased \cup Contract!Of(s, Contract!EventsOf(Readable))
  <2>1. ASSUME NEW e PROVE e \in Contract!Of(s, Contract!EventsOf(Readable))
                             <=> e \in Event /\ e[1] = s /\ Active(e)
    BY ReadableEvents DEF Contract!Of, Contract!EventsOf
  <2>2. ASSUME NEW e \in Event, e[1] = s
        PROVE  e \in Erased' <=> e \in Erased \/ Active(e)
    BY <1>2, <1>3, <2>2 DEF Erased, Active
  <2>3. ASSUME NEW e \in Event, e[1] # s PROVE e \in Erased' <=> e \in Erased
    BY <1>2, <2>3 DEF Erased
  <2>4. Erased \subseteq Event /\ Erased' \subseteq Event
    BY DEF Erased
  <2> QED
    BY <2>1, <2>2, <2>3, <2>4
<1>8. Cited' = Cited \ Contract!Of(s, Cited)
  <2>1. \A x \in Scopes : StoredClaims(x)' = IF x = s THEN {} ELSE StoredClaims(x)
    BY <1>1 DEF TypeOK, StoredClaims, ClaimsOf
  <2>2. ASSUME NEW e PROVE e \in Cited' <=> e \in Cited /\ e[1] # s
    <3>1. e \in Cited' <=> \E x \in Scopes : x # s /\ \E cc \in StoredClaims(x) : e \in cc.evidence
      BY <2>1 DEF Cited, Evidence
    <3> QED
      BY <3>1, CitedMember, CitedInScope
  <2> QED
    BY <2>2 DEF Contract!Of
<1> QED
  BY <1>5, <1>6, <1>7, <1>8 DEF Contract!Forget

\* The transaction of retain_payloads erases bodies and nothing else.
LEMMA RetainErases ==
  ASSUME TypeOK, NEW s \in Scopes, NEW t \in Times, NEW id \in OpIds, RetainPayloads(s, t, id)
  PROVE  \E B \in SUBSET Readable : Contract!Erase(s, B)
<1> DEFINE Gone == EventsBefore(s, t)
           B == {b \in Readable : b[1] \in Gone}
<1>1. events' = Purged(Gone) /\ policy' = policy /\ journals' = journals
  BY DEF RetainPayloads, derivedVars
<1>2. \A e \in Gone : e \in Event /\ e[1] = s /\ events[e] # None
  BY DEF EventsBefore, ScopeEvents
<1>3. \A e \in Event : events'[e] = IF e \in Gone
                                      THEN [events[e] EXCEPT !.payload = "purged"]
                                      ELSE events[e]
  BY <1>1 DEF Purged
<1>4. ASSUME NEW e \in Gone
      PROVE  /\ events'[e] # None /\ events'[e].payload = "purged"
             /\ Active(e) <=> events[e].payload # "purged"
  <2>1. events[e] \in EventRow
    BY <1>2 DEF TypeOK
  <2>2. [events[e] EXCEPT !.payload = "purged"] \in EventRow
    BY <2>1 DEF EventRow
  <2> QED
    BY <1>2, <1>3, <2>1, <2>2, NoneIsNoRow DEF EventRow, Active
<1>5. ASSUME NEW e \in Event PROVE Active(e)' <=> Active(e) /\ e \notin Gone
  BY <1>3, <1>4 DEF Active
<1>6. Readable' = Readable \ B
  <2>1. Readable' = {<<e, events'[e].content>> : e \in {f \in Event : Active(f) /\ f \notin Gone}}
    BY <1>5 DEF Readable
  <2>2. \A e \in Event : e \notin Gone => events'[e] = events[e]
    BY <1>3
  <2> QED
    BY <2>1, <2>2 DEF Readable
<1>7. Contract!EventsOf(B) = {e \in Gone : Active(e)}
  <2>1. ASSUME NEW e \in Gone, Active(e) PROVE e \in {b[1] : b \in B}
    <3>1. <<e, events[e].content>> \in B
      BY <1>2, <2>1, ReadableBodies
    <3> QED
      BY <3>1
  <2> QED
    BY <2>1, ReadableBodies DEF Contract!EventsOf
<1>8. Erased' = Erased \cup Contract!EventsOf(B)
  <2>1. ASSUME NEW e \in Gone PROVE e \in Erased' /\ (e \in Erased \/ Active(e))
    BY <1>2, <1>4 DEF Erased
  <2>2. ASSUME NEW e \in Event, e \notin Gone PROVE e \in Erased' <=> e \in Erased
    BY <1>3, <2>2 DEF Erased
  <2>3. Erased \subseteq Event /\ Erased' \subseteq Event
    BY DEF Erased
  <2> QED
    BY <1>7, <2>1, <2>2, <2>3
<1>9. B \subseteq {b \in Readable : b[1][1] = s}
  BY <1>2
<1>10. Contract!Erase(s, B)
  BY <1>1, <1>6, <1>8, <1>9, SameConsent, SameCited DEF Contract!Erase
<1> QED
  BY <1>9, <1>10

\* KernelStore implements PrivacyContract.
THEOREM StoreKeepsContract == Spec => KeepsContract
<1>1. Init => Contract!Init
  BY DEF Init, Contract!Init, Consent, Readable, Erased, Cited, Evidence, StoredClaims,
         ClaimsOf, Forgotten, OptedOut, Active
<1>2. TypeOK /\ JournalGrounded /\ [Next]_vars => [Contract!Next]_(Contract!vars)
  <2> SUFFICES ASSUME TypeOK, JournalGrounded, [Next]_vars
               PROVE  Contract!Next \/ UNCHANGED Contract!vars
    OBVIOUS
  <2>1. ASSUME NEW e \in Event, NEW c \in Contents, NEW t \in Times, IngestEvent(e, c, t)
        PROVE  Contract!Next
    BY <2>1, IngestCaptures DEF Contract!Next, Contract!Event, Event
  <2>2. ASSUME NEW s \in Scopes, NEW action \in {"pause", "resume"}, SetCapturePolicy(s, action)
        PROVE  Contract!Next
    BY <2>2, PolicySetsConsent DEF Contract!Next
  <2>3. ASSUME NEW s \in Scopes, NEW d \in Days, NEW p \in Proposals, SaveJournal(s, d, p)
        PROVE  Contract!Next
    BY <2>3, SaveCites DEF Contract!Next, Contract!Event, Event
  <2>4. ASSUME NEW s \in Scopes, NEW id \in OpIds, PurgeScope(s, id)
        PROVE  Contract!Next
    BY <2>4, PurgeForgets DEF Contract!Next
  <2>5. ASSUME NEW s \in Scopes, NEW t \in Times, NEW id \in OpIds, RetainPayloads(s, t, id)
        PROVE  Contract!Next
    BY <2>5, RetainErases DEF Contract!Next
  <2>6. ASSUME policy' = policy, events' = events, journals' = journals
        PROVE  UNCHANGED Contract!vars
    BY <2>6, SameConsent, SameBodies, SameCited DEF Contract!vars
  <2> QED
    BY <2>1, <2>2, <2>3, <2>4, <2>5, <2>6
    DEF Next, CurateMemory, RequestRecall, ResidualScan, Interrupted, vars, derivedVars
<1> QED
  BY <1>1, <1>2, TypeCorrect, JournalsAreGrounded, PTL DEF Spec, KeepsContract, Contract!Spec

-----------------------------------------------------------------------------
(* The ranked recall is a recall of the store                              *)

\* No event is read where there is no evidence.
LEMMA NoFirstIds == FirstIds({}) = {}
<1> DEFINE Before(x, y) == IdOrder[x] < IdOrder[y]
           S == Firsts({}, EvidenceLimit, Before)
<1>1. {} \in S
  BY FS_EmptySet, RecallOK DEF Firsts, AtMost
<1>2. \A F \in S : F = {}
  BY DEF Firsts
<1>3. FirstIds({}) \in S
  BY <1>1 DEF FirstIds
<1> QED
  BY <1>2, <1>3

\* The rows of a query with a limit are some of its rows.
LEMMA RowsAreRows ==
  ASSUME NEW s \in Scopes
  PROVE  /\ \A rows \in MemoryRows(s) : rows \subseteq ActiveMemories(s)
         /\ \A days \in EpisodeRows(s) : days \subseteq {d \in Days : journals[s][d] # <<>>}
BY DEF MemoryRows, EpisodeRows, Firsts

\* A claim of a current version has its type.
LEMMA CurrentClaims ==
  ASSUME TypeOK, NEW s \in Scopes, NEW d \in Days, journals[s][d] # <<>>
  PROVE  Current(s, d).claims \subseteq CitedClaim
<1>1. journals[s][d] \in Seq(Proposal)
  BY DEF TypeOK
<1>2. Len(journals[s][d]) \in DOMAIN journals[s][d]
  BY <1>1
<1>3. Current(s, d) \in Proposal
  BY <1>1, <1>2 DEF Current
<1> QED
  BY <1>3 DEF Proposal

\* What matches a request can be recalled.
LEMMA MatchedAreRecallable ==
  ASSUME NEW s \in Scopes, NEW q, NEW rows \in MemoryRows(s)
  PROVE  MatchedMemories(s, q, rows) \subseteq RecallableMemories(s, q.need)
<1>1. rows \subseteq ActiveMemories(s)
  BY RowsAreRows
<1> QED
  BY <1>1 DEF MatchedMemories, RecallableMemories, ActiveMemories

\* A candidate for a memory.
LEMMA MemoryItems ==
  ASSUME NEW s \in Scopes, NEW q, q.need # "episode", NEW rows \in MemoryRows(s),
         NEW c \in MemoryCandidates(s, q, rows)
  PROVE  c.item \in Candidates(s, q.need, MatchedMemories(s, q, rows))
<1>1. PICK m \in MatchedMemories(s, q, rows) : c.item = [source |-> "memory", id |-> m]
  BY DEF MemoryCandidates, Candidate
<1>2. m \in RecallableMemories(s, q.need) \cap MatchedMemories(s, q, rows)
  BY MatchedAreRecallable
<1> QED
  BY <1>1, <1>2 DEF Candidates

\* A candidate for a journal: it cites what was read of its evidence.
LEMMA EpisodeItems ==
  ASSUME NEW s \in Scopes, NEW q, q.need = "episode", NEW days \in EpisodeRows(s),
         NEW c \in EpisodeCandidates(s, q, days), NEW cued
  PROVE  c.item \in Candidates(s, q.need, cued)
<1>1. PICK d \in ReadableEpisodes(s, q, days) : c.item = [source |-> "episode", id |-> d]
  BY DEF EpisodeCandidates, Candidate
<1>2. d \in Days /\ journals[s][d] # <<>>
  BY RowsAreRows DEF ReadableEpisodes
<1>3. Evidence(Current(s, d).claims) # {}
  BY NoFirstIds DEF ReadableEpisodes, EpisodeEvidence
<1> QED
  BY <1>1, <1>2, <1>3 DEF Candidates, RecallableEpisodes

\* A candidate for a claim: its memory is not retired, and was not matched, for then
\* its text would have been taken.
LEMMA ClaimItems ==
  ASSUME TypeOK, NEW s \in Scopes, NEW q, q.need # "episode",
         NEW rows \in MemoryRows(s), NEW days \in EpisodeRows(s),
         NEW c \in ClaimCandidates(s, q, days, {m[2] : m \in MatchedMemories(s, q, rows)})
  PROVE  c.item \in Candidates(s, q.need, MatchedMemories(s, q, rows))
<1> DEFINE cued == MatchedMemories(s, q, rows)
           taken == {m[2] : m \in cued}
<1>0. PICK d \in ReadableEpisodes(s, q, days) : \E cc \in Current(s, d).claims :
        /\ c = Candidate("claim", <<d, cc.claim>>, InClaim(q, s, d, cc) * 100,
                         Latest(FirstIds(cc.evidence)))
        /\ cc.claim[1] = q.need /\ StandsIn(s, cc) /\ cc.claim[2] \notin taken
        /\ FirstIds(cc.evidence) # {}
  BY ZenonT(30) DEF ClaimCandidates
<1>1. PICK cc \in Current(s, d).claims :
        /\ c = Candidate("claim", <<d, cc.claim>>, InClaim(q, s, d, cc) * 100,
                         Latest(FirstIds(cc.evidence)))
        /\ cc.claim[1] = q.need /\ StandsIn(s, cc) /\ cc.claim[2] \notin taken
        /\ FirstIds(cc.evidence) # {}
  BY <1>0, Zenon
<1>2. c.item = [source |-> "claim", id |-> <<d, cc.claim>>]
  BY <1>1 DEF Candidate
<1>3. d \in Days /\ journals[s][d] # <<>>
  BY RowsAreRows DEF ReadableEpisodes
<1>4. cc \in CitedClaim
  BY <1>3, CurrentClaims
<1>5. cc.claim \in Claim /\ cc.evidence # {}
  BY <1>1, <1>4, NoFirstIds DEF CitedClaim
<1> DEFINE x == <<d, cc.claim>>
<1>6. x \in RecallableClaims(s, q.need)
  BY <1>1, <1>3, <1>5 DEF RecallableClaims, StandsIn
<1>7. MemoryOf(x[2]) \notin cued
  <2>1. MemoryOf(x[2])[2] = cc.claim[2]
    BY DEF MemoryOf
  <2> QED
    BY <1>1, <2>1
<1>8. x \in {y \in RecallableClaims(s, q.need) :
               MemoryOf(y[2]) \notin RecallableMemories(s, q.need) \cap cued}
  BY <1>6, <1>7
<1> QED
  BY <1>2, <1>8 DEF Candidates

\* A recall ranks what KernelStore says that it may expose.
LEMMA CandidatesAllowed ==
  ASSUME TypeOK, NEW s \in Scopes, NEW q, NEW rows \in MemoryRows(s), NEW days \in EpisodeRows(s),
         NEW c \in CandidatesFor(s, q, rows, days)
  PROVE  c.item \in Candidates(s, q.need, MatchedMemories(s, q, rows))
<1>1. CASE q.need = "episode"
  BY <1>1, EpisodeItems DEF CandidatesFor
<1>2. CASE q.need # "episode"
  BY <1>2, MemoryItems, ClaimItems DEF CandidatesFor
<1> QED
  BY <1>1, <1>2

\* Finitely many scopes, keys and texts make finitely many events, memories and claims.
LEMMA FiniteData == IsFiniteSet(Event) /\ IsFiniteSet(Memory) /\ IsFiniteSet(CitedClaim)
<1>1. IsFiniteSet(Event)
  BY FinitelyMany, FS_Product DEF Event
<1>2. IsFiniteSet(ClaimKinds)
  <2> DEFINE kinds == <<"fact", "preference", "decision", "commitment", "relationship", "procedure", "open_loop">>
             K == {kinds[i] : i \in 1 .. 7}
             f == [i \in 1 .. 7 |-> kinds[i]]
  <2>1. f \in Surjection(1 .. 7, K)
    BY DEF Surjection
  <2>2. IsFiniteSet(K)
    <3>1. IsFiniteSet(1 .. 7)
      <4>1. 1 \in Int /\ 7 \in Int OBVIOUS
      <4> QED BY <4>1, FS_Interval
    <3> HIDE DEF kinds, K, f
    <3> QED BY <2>1, <3>1, FS_Surjection
  <2>3. ClaimKinds \in SUBSET K
    <3>1. /\ kinds[1] = "fact" /\ kinds[2] = "preference" /\ kinds[3] = "decision" /\ kinds[4] = "commitment"
          /\ kinds[5] = "relationship" /\ kinds[6] = "procedure" /\ kinds[7] = "open_loop"
      OBVIOUS
    <3>2. \A k \in ClaimKinds : k \in {"fact", "preference", "decision", "commitment",
                                     "relationship", "procedure", "open_loop"}
      BY ConstantsOK
    <3> HIDE DEF kinds
    <3> QED BY <3>1, <3>2
  <2> QED BY <2>2, <2>3, FS_Subset
<1>3. IsFiniteSet(MemoryKinds)
  <2> DEFINE f == [k \in ClaimKinds |-> JournalMemoryKind(k)]
  <2>1. f \in Surjection(ClaimKinds, MemoryKinds)
    BY DEF Surjection, MemoryKinds
  <2> QED BY <1>2, <2>1, FS_Surjection
<1>4. IsFiniteSet(Memory) /\ IsFiniteSet(Claim)
  BY <1>2, <1>3, FinitelyMany, FS_Product DEF Memory, Claim
<1>5. IsFiniteSet(CitedClaim)
  <2> DEFINE S == Claim \X SUBSET Event
             f == [x \in S |-> [claim |-> x[1], evidence |-> x[2]]]
  <2>1. IsFiniteSet(S)
    BY <1>1, <1>4, FS_SUBSET, FS_Product
  <2>2. f \in [S -> CitedClaim]
    BY DEF CitedClaim
  <2>3. ASSUME NEW cc \in CitedClaim PROVE \E x \in S : f[x] = cc
    <3>1. <<cc.claim, cc.evidence>> \in S /\ cc = [claim |-> cc.claim, evidence |-> cc.evidence]
      BY DEF CitedClaim
    <3> QED BY <3>1
  <2>4. f \in Surjection(S, CitedClaim)
    BY <2>2, <2>3 DEF Surjection
  <2> QED BY <2>1, <2>4, FS_Surjection
<1> QED
  BY <1>1, <1>4, <1>5

\* A recall ranks finitely many candidates.
LEMMA FiniteCandidates ==
  ASSUME TypeOK, NEW s \in Scopes, NEW q, NEW rows \in MemoryRows(s), NEW days \in EpisodeRows(s)
  PROVE  IsFiniteSet(CandidatesFor(s, q, rows, days))
<1>1. IsFiniteSet(MemoryCandidates(s, q, rows))
  <2> DEFINE S == MatchedMemories(s, q, rows)
             f == [m \in S |-> Candidate("memory", m, MemoryScore(InText(q, m[2]), heat[s][m].value),
                                         Latest(memories[s][m].evidence))]
  <2>1. S \subseteq Memory
    BY RowsAreRows DEF MatchedMemories, ActiveMemories
  <2>2. IsFiniteSet(S)
    BY <2>1, FiniteData, FS_Subset
  <2>3. f \in Surjection(S, MemoryCandidates(s, q, rows))
    BY DEF Surjection, MemoryCandidates
  <2> QED
    BY <2>2, <2>3, FS_Surjection
<1>2. IsFiniteSet(EpisodeCandidates(s, q, days))
  <2> DEFINE S == {x \in ReadableEpisodes(s, q, days) : InEpisode(q, s, x) > 0}
             f == [d \in S |-> Candidate("episode", d, InEpisode(q, s, d) * 100,
                                         Latest(EpisodeEvidence(s, d)))]
  <2>1. S \subseteq Days
    BY RowsAreRows DEF ReadableEpisodes
  <2>2. IsFiniteSet(S)
    BY <2>1, FinitelyMany, FS_Subset
  <2>3. f \in Surjection(S, EpisodeCandidates(s, q, days))
    BY DEF Surjection, EpisodeCandidates
  <2> QED
    BY <2>2, <2>3, FS_Surjection
<1>3. ASSUME NEW taken
      PROVE  IsFiniteSet(ClaimCandidates(s, q, days, taken))
  <2> DEFINE Shown(d, cc) == Candidate("claim", <<d, cc.claim>>, InClaim(q, s, d, cc) * 100,
                                       Latest(FirstIds(cc.evidence)))
             f == [z \in Days \X CitedClaim |-> Shown(z[1], z[2])]
             T == {f[z] : z \in Days \X CitedClaim}
  <2>1. IsFiniteSet(Days \X CitedClaim)
    BY FinitelyMany, FiniteData, FS_Product
  <2>2. f \in Surjection(Days \X CitedClaim, T)
    BY DEF Surjection
  <2>3. IsFiniteSet(T)
    BY <2>1, <2>2, FS_Surjection
  <2>4. ASSUME NEW c \in ClaimCandidates(s, q, days, taken)
        PROVE  c \in T
    <3>0. PICK d \in ReadableEpisodes(s, q, days) :
            \E cc \in Current(s, d).claims : c = Shown(d, cc)
      BY DEF ClaimCandidates
    <3>1. PICK cc \in Current(s, d).claims : c = Shown(d, cc)
      BY <3>0
    <3>2. d \in Days /\ journals[s][d] # <<>>
      BY RowsAreRows DEF ReadableEpisodes
    <3>3. cc \in CitedClaim
      BY <3>2, CurrentClaims
    <3>4. <<d, cc>> \in Days \X CitedClaim /\ f[<<d, cc>>] = Shown(d, cc)
      BY <3>2, <3>3
    <3> QED
      BY <3>1, <3>4
  <2> QED
    BY <2>3, <2>4, FS_Subset
<1> QED
  BY <1>1, <1>2, <1>3, FS_Union DEF CandidatesFor

\* What a recall answers is what KernelStore allows for the memories it matched, no
\* more items than the depth allows.
LEMMA AnswersAllowed ==
  ASSUME TypeOK, NEW s \in Scopes, NEW q \in Requests, NEW exposed \in Answers(s, q)
  PROVE  \E cued \in SUBSET Memory :
           exposed \subseteq Candidates(s, q.need, cued) /\ Cardinality(exposed) <= MaxItems
<1>1. PICK rows \in MemoryRows(s), days \in EpisodeRows(s) :
        \E best \in SUBSET CandidatesFor(s, q, rows, days) :
          /\ Cardinality(best) = AtMost(Cardinality(CandidatesFor(s, q, rows, days)), q.depth)
          /\ exposed = {c.item : c \in best}
  BY DEF Answers, Firsts
<1> DEFINE S == CandidatesFor(s, q, rows, days)
<1>2. PICK best \in SUBSET S : /\ Cardinality(best) = AtMost(Cardinality(S), q.depth)
                               /\ exposed = {c.item : c \in best}
  BY <1>1
<1> HIDE DEF S
<1>3. IsFiniteSet(S)
  BY FiniteCandidates DEF S
<1>4. q.depth \in Nat /\ q.depth <= MaxItems /\ MaxItems \in Nat
  BY RecallOK, ConstantsOK DEF Request
<1>5. Cardinality(S) \in Nat /\ IsFiniteSet(best)
  BY <1>3, FS_CardinalityType, FS_Subset
<1>6. Cardinality(best) <= MaxItems
  BY <1>2, <1>4, <1>5 DEF AtMost
<1> DEFINE f == [c \in best |-> c.item]
<1>7. f \in Surjection(best, exposed)
  BY <1>2 DEF Surjection
<1>8. Cardinality(exposed) <= Cardinality(best) /\ IsFiniteSet(exposed) /\ Cardinality(best) \in Nat
  BY <1>5, <1>7, FS_Surjection, FS_CardinalityType
<1>9. Cardinality(exposed) <= MaxItems
  BY <1>4, <1>6, <1>8, FS_CardinalityType
<1>10. MatchedMemories(s, q, rows) \in SUBSET Memory
  BY MatchedAreRecallable DEF RecallableMemories
<1>11. exposed \subseteq Candidates(s, q.need, MatchedMemories(s, q, rows))
  BY <1>2, CandidatesAllowed DEF S
<1> QED
  BY <1>9, <1>10, <1>11

\* Ranking is a step of the store's recall, and so are the others a step of it.
LEMMA RankedStep == TypeOK /\ [RankedNext]_allVars => [Next]_vars
<1> SUFFICES ASSUME TypeOK, [RankedNext]_allVars
             PROVE  Next \/ UNCHANGED vars
  OBVIOUS
<1>1. ASSUME NEW s \in Scopes, NEW q \in Requests, RankedRecall(s, q)
      PROVE  Next
  <2>1. PICK exposed \in Answers(s, q) :
          /\ Cardinality(audits[s] \cup {exposed}) <= MaxAudits
          /\ audits' = [audits EXCEPT ![s] = @ \cup {exposed}]
    BY <1>1 DEF RankedRecall
  <2>2. PICK cued \in SUBSET Memory :
          exposed \subseteq Candidates(s, q.need, cued) /\ Cardinality(exposed) <= MaxItems
    BY AnswersAllowed
  <2>3. q.need \in MemoryKinds \cup {"episode"}
    BY RecallOK DEF Request
  <2>4. RequestRecall(s, q.need, cued, exposed)
    BY <1>1, <2>1, <2>2 DEF RankedRecall, RequestRecall
  <2> QED
    BY <2>2, <2>3, <2>4 DEF Next
<1>2. HotNext => Next \/ UNCHANGED vars
  BY DEF HotNext, Pass, HotSaveJournal, HotRetainPayloads, HotPurgeScope, Unheated, Next
<1> QED
  BY <1>1, <1>2 DEF RankedNext, allVars

\* The recall with its ranking, limits and filters implements the store.
THEOREM RankingRefinesStore == RankedSpec => RefinesKernelStore
<1>1. HotInit => Init
  BY DEF HotInit
<1>2. TypeOK /\ [Next]_vars => TypeOK'
  BY NextTypeOK
<1>3. Init => TypeOK
  BY InitTypeOK
<1> QED
  BY <1>1, <1>2, <1>3, RankedStep, PTL DEF RankedSpec, RefinesKernelStore, Spec

-----------------------------------------------------------------------------
(* The time of an activation.                                              *)

HeatTimed ==
  /\ clock \in Nat
  /\ DOMAIN heat = Scopes
  /\ \A s \in Scopes : DOMAIN heat[s] = Memory
  /\ \A s \in Scopes, m \in Memory : heat[s][m].at \in 0 .. clock

\* Neither clock nor times go back, also when maintenance comes with a clock that
\* was read before.
LEMMA HeatStep ==
  ASSUME HeatTimed, [HotNext]_allVars
  PROVE  /\ HeatTimed'
         /\ \A s \in Scopes, m \in Memory :
              memories[s][m] # None /\ memories'[s][m] # None => heat[s][m].at <= heat'[s][m].at
<1> DEFINE Kept == \A s \in Scopes, m \in Memory :
                     memories[s][m] # None /\ memories'[s][m] # None => heat[s][m].at <= heat'[s][m].at
<1> USE DEF HeatTimed
<1>1. CASE Pass
  BY <1>1, MaxClockOK DEF Pass
<1>2. ASSUME NEW s \in Scopes, NEW d \in Days, NEW p \in Proposals, HotSaveJournal(s, d, p)
      PROVE  HeatTimed' /\ Kept
  <2>1. clock' = clock /\ DOMAIN heat' = Scopes
    BY <1>2 DEF HotSaveJournal
  <2>2. \A x \in Scopes : x # s => heat'[x] = heat[x]
    BY <1>2 DEF HotSaveJournal
  <2>3. /\ DOMAIN heat'[s] = Memory
        /\ \A m \in Memory : heat'[s][m] = heat[s][m] \/ heat'[s][m].at = clock
    BY <1>2 DEF HotSaveJournal, RaisedBy, SaveTimes
  <2> QED
    BY <2>1, <2>2, <2>3
<1>3. ASSUME NEW s \in Scopes, NEW t \in Times, NEW id \in OpIds, HotRetainPayloads(s, t, id)
      PROVE  HeatTimed' /\ Kept
  <2>1. PICK now \in 0 .. clock :
          heat' = [heat EXCEPT ![s] = [m \in Memory |->
             IF memories[s][m] # None /\ memories[s][m].state = "active"
               THEN Decayed(heat[s][m], now) ELSE heat[s][m]]]
    BY <1>3 DEF HotRetainPayloads, RetainTimes
  <2>2. clock' = clock /\ DOMAIN heat' = Scopes
    BY <1>3, <2>1 DEF HotRetainPayloads
  <2>3. \A x \in Scopes : x # s => heat'[x] = heat[x]
    BY <2>1
  <2>4. /\ DOMAIN heat'[s] = Memory
        /\ \A m \in Memory : heat'[s][m] = heat[s][m] \/ heat'[s][m] = Decayed(heat[s][m], now)
    BY <2>1
  <2>5. \A m \in Memory : heat'[s][m].at \in 0 .. clock /\ heat[s][m].at <= heat'[s][m].at
    <3> TAKE m \in Memory
    <3>1. CASE now <= heat[s][m].at \/ heat[s][m].value = 0
      <4>1. Decayed(heat[s][m], now) = heat[s][m]
        BY <3>1, Zenon DEF Decayed
      <4> QED
        BY <2>4, <4>1
    <3>2. CASE ~(now <= heat[s][m].at \/ heat[s][m].value = 0)
      <4>1. Decayed(heat[s][m], now).at = now
        BY <3>2 DEF Decayed
      <4> QED
        BY <2>4, <3>2, <4>1
    <3> QED
      BY <3>1, <3>2
  <2> QED
    BY <2>2, <2>3, <2>4, <2>5
<1>4. ASSUME NEW s \in Scopes, NEW id \in OpIds, HotPurgeScope(s, id)
      PROVE  HeatTimed' /\ Kept
  <2>1. clock' = clock /\ heat' = [heat EXCEPT ![s] = [m \in Memory |-> Cold]]
    BY <1>4 DEF HotPurgeScope
  <2>2. \A m \in Memory : memories'[s][m] = None
    BY <1>4 DEF HotPurgeScope, PurgeScope
  <2>3. /\ DOMAIN heat' = Scopes
        /\ \A x \in Scopes : x # s => heat'[x] = heat[x]
        /\ DOMAIN heat'[s] = Memory /\ \A m \in Memory : heat'[s][m].at = 0
    BY <2>1 DEF Cold
  <2> QED
    BY <2>1, <2>2, <2>3
<1>5. CASE Unheated \/ UNCHANGED allVars
  BY <1>5 DEF Unheated, allVars, heatVars
<1> QED
  BY <1>1, <1>2, <1>3, <1>4, <1>5 DEF HotNext

\* No idle time of a memory counts twice: the time it was last written never moves
\* back (decay_active_memories, materialize_journal_claim).
THEOREM TimesNeverGoBack == HotSpec => TouchedNeverBack
<1>1. HotInit => HeatTimed
  BY DEF HotInit, HeatTimed, Cold
<1>2. HeatTimed /\ [HotNext]_allVars => HeatTimed'
  BY HeatStep
<1>3. HeatTimed /\ [HotNext]_allVars =>
        [\A s \in Scopes, m \in Memory :
           memories[s][m] # None /\ memories'[s][m] # None =>
             heat[s][m].at <= heat'[s][m].at]_allVars
  BY HeatStep
<1> QED
  BY <1>1, <1>2, <1>3, PTL DEF HotSpec, TouchedNeverBack

=============================================================================
