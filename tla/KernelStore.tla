----------------------------- MODULE KernelStore -----------------------------
(***************************************************************************)
(* The KernelStore of the mnemokernel-store crate: one SQLite connection   *)
(* behind one mutex. Each public operation holds the mutex from its first  *)
(* statement to its return, so an operation is one step, except where it   *)
(* goes on after its transaction has committed (purge_scope and            *)
(* retain_payloads compact and scan afterwards): there a crash or an error *)
(* can separate the two, and the model has one step for each part.         *)
(*                                                                         *)
(* A branch of an operation that changes no row (a replayed event, an      *)
(* opted-out scope, a rejected proposal) is a stuttering step. The rows of *)
(* the table scopes, timestamps of bookkeeping, activation values and the  *)
(* text of titles and statements are left out: no property here tells them *)
(* apart.                                                                  *)
(***************************************************************************)
EXTENDS Naturals, Sequences, FiniteSets

CONSTANTS
  Scopes,       \* the scope ids
  Keys,         \* the source keys of messages, unique inside a scope
  Contents,     \* the message bodies that are told apart
  Times,        \* values of occurred_at_ms and of a retention cutoff
  Days,         \* the journal dates
  DayOf,        \* the journal date whose range holds a time
  ClaimKinds,   \* the kinds of claim a journal proposal makes
  Texts,        \* the normalised claim texts
  Proposals,    \* the journal proposals the model may write
  OpIds,        \* the ids of purges and retention runs: bounds their number
  MaxVersions,  \* bound on the versions of one day's journal
  MaxItems,     \* the number of items a recall exposes (by its depth)
  MaxAudits,    \* bound on the distinct recall audits of a scope
  None          \* no row

Event == Scopes \X Keys

EventRow == [content : Contents, time : Times, payload : {"active", "purged"}]

\* A claim is its kind and its text. The memory it becomes has the same text
\* and, for an open loop, the kind "commitment".
Claim == ClaimKinds \X Texts

JournalMemoryKind(kind) == IF kind = "open_loop" THEN "commitment" ELSE kind

MemoryOf(claim) == <<JournalMemoryKind(claim[1]), claim[2]>>

MemoryKinds == {JournalMemoryKind(k) : k \in ClaimKinds}

Memory == MemoryKinds \X Texts

CitedClaim == [claim : Claim, evidence : SUBSET Event]

\* The digest of a proposal tells every two proposals apart, so it is the
\* proposal itself. "title" stands for all the text outside the claims.
Proposal == [title : STRING, claims : SUBSET CitedClaim]

MemoryStates == {"candidate", "active", "superseded", "archived"}

MemoryRow == [state : MemoryStates, evidence : SUBSET Event]

JobRow == [digest : Proposal, admitted : SUBSET Event]

PolicyRow ==
  {[state |-> "opted_out", reason |-> "administrator_policy"],
   [state |-> "active", reason |-> "explicit_enable"],
   [state |-> "opted_out", reason |-> "explicit_forgetme"]}

\* A row of privacy_operations ("purge") or payload_retention_runs ("retain").
OpRow == [kind : {"purge", "retain"}, scope : Scopes, cutoff : Times \cup {None},
          scan : {"pending", "passed", "failed"}]

\* What a recall exposes: a memory, a claim of a day's journal, or the journal.
Item == [source : {"memory"}, id : Memory]
          \cup [source : {"claim"}, id : Days \X Claim]
          \cup [source : {"episode"}, id : Days]

ASSUME ConstantsOK ==
  /\ Times \subseteq Nat
  /\ DayOf \in [Times -> Days]
  /\ ClaimKinds \subseteq {"fact", "preference", "decision", "commitment",
                           "relationship", "procedure", "open_loop"}
  /\ Proposals \subseteq Proposal
  /\ MaxVersions \in Nat /\ MaxItems \in Nat /\ MaxAudits \in Nat

ASSUME NoneIsNoRow ==
  /\ None \notin EventRow \cup MemoryRow \cup JobRow \cup PolicyRow \cup OpRow
  /\ None \notin OpIds

VARIABLES
  events,    \* raw_events joined with raw_event_payloads
  policy,    \* scope_capture_policies
  jobs,      \* episode_jobs with their job_event_admissions
  journals,  \* episodes: the versions of a day's journal with their claims
  memories,  \* memory_atoms with the evidence of their version
  ops,       \* memory_operations: the decisions recorded for a memory
  audits,    \* recall_audits: what each recall of a scope exposed
  ledger,    \* privacy_operations and payload_retention_runs
  busy       \* the operation that has committed and still holds the mutex

vars == <<events, policy, jobs, journals, memories, ops, audits, ledger, busy>>

derivedVars == <<jobs, journals, memories, ops, audits>>

-----------------------------------------------------------------------------
(* Queries                                                                 *)

Active(e) == events[e] # None /\ events[e].payload = "active"

OptedOut(s) == policy[s] # None /\ policy[s].state = "opted_out"

Forgotten(s) == policy[s] # None /\ policy[s].reason = "explicit_forgetme"

\* Fault: the scope is not part of the selection.
AdmittedAnyScope(s, d) == {e \in Event : Active(e) /\ DayOf[events[e].time] = d}

\* The events a journal of this day may cite: their payload is still active.
Admitted(s, d) ==
  {e \in Event : e[1] = s /\ Active(e) /\ DayOf[events[e].time] = d}

Current(s, d) == journals[s][d][Len(journals[s][d])]

ClaimsOf(versions) == UNION {versions[v].claims : v \in DOMAIN versions}

Terminal(state) == state \in {"superseded", "archived"}

TerminalMemory(s, m) == memories[s][m] # None /\ Terminal(memories[s][m].state)

\* The transitions of a memory's state that the core crate allows.
Allows(from, to) ==
  \/ from = "candidate" /\ to \in {"active", "archived"}
  \/ from = "active" /\ to \in {"superseded", "archived"}
  \/ from = "superseded" /\ to = "archived"

-----------------------------------------------------------------------------
Init ==
  /\ events = [e \in Event |-> None]
  /\ policy = [s \in Scopes |-> None]
  /\ jobs = [s \in Scopes |-> [d \in Days |-> None]]
  /\ journals = [s \in Scopes |-> [d \in Days |-> <<>>]]
  /\ memories = [s \in Scopes |-> [m \in Memory |-> None]]
  /\ ops = [s \in Scopes |-> [m \in Memory |-> {}]]
  /\ audits = [s \in Scopes |-> {}]
  /\ ledger = [id \in OpIds |-> None]
  /\ busy = None

-----------------------------------------------------------------------------
(* Capture                                                                 *)

\* Fault: the capture policy is not consulted.
IngestUnasked(e, content, time) ==
  /\ busy = None
  /\ events[e] = None
  /\ events' = [events EXCEPT
                  ![e] = [content |-> content, time |-> time, payload |-> "active"]]
  /\ UNCHANGED <<policy, derivedVars, ledger, busy>>

\* The row a delivery finds decides: an opted-out scope keeps nothing, a
\* replay of a stored key changes nothing (and one with another body is an
\* error), so only a new key of a scope that consents is inserted.
IngestEvent(e, content, time) ==
  /\ busy = None
  /\ ~OptedOut(e[1])
  /\ events[e] = None
  /\ events' = [events EXCEPT
                  ![e] = [content |-> content, time |-> time, payload |-> "active"]]
  /\ UNCHANGED <<policy, derivedVars, ledger, busy>>

\* Fault: resuming leaves the reason of the pause.
PolicyKeepingReason(action) ==
  [state |-> IF action = "pause" THEN "opted_out" ELSE "active",
   reason |-> "administrator_policy"]

\* What pause and resume write.
PolicyFor(action) ==
  IF action = "pause"
    THEN [state |-> "opted_out", reason |-> "administrator_policy"]
    ELSE [state |-> "active", reason |-> "explicit_enable"]

\* Fault: a forgotten scope can be resumed.
SetPolicyAlways(s, action) ==
  /\ busy = None
  /\ policy' = [policy EXCEPT ![s] = PolicyFor(action)]
  /\ UNCHANGED <<events, derivedVars, ledger, busy>>

\* A forgotten scope answers "blocked" to pause and to resume.
SetCapturePolicy(s, action) ==
  /\ busy = None
  /\ ~Forgotten(s)
  /\ policy' = [policy EXCEPT ![s] = PolicyFor(action)]
  /\ UNCHANGED <<events, derivedVars, ledger, busy>>

-----------------------------------------------------------------------------
(* Journals                                                                *)

\* Every claim cites at least one event, and only admitted events.
ValidFor(p, admitted) ==
  \A cc \in p.claims : cc.evidence # {} /\ cc.evidence \subseteq admitted

\* The claims of a proposal that become memory m, and what they cite together.
Hits(p, m) == {cc \in p.claims : MemoryOf(cc.claim) = m}

Evidence(claims) == UNION {cc.evidence : cc \in claims}

\* Fault: new evidence replaces the old.
MaterializedAnew(row, evidence) ==
  IF row # None /\ Terminal(row.state) THEN row
  ELSE [state |-> "active", evidence |-> evidence]

\* Fault: a retired memory becomes active again.
MaterializedReviving(row, evidence) ==
  [state |-> "active", evidence |-> IF row = None THEN evidence ELSE row.evidence \cup evidence]

\* Fault: a retired memory gains evidence.
MaterializedInAnyState(row, evidence) ==
  [state |-> IF row = None THEN "active" ELSE row.state,
   evidence |-> IF row = None THEN evidence ELSE row.evidence \cup evidence]

\* materialize_journal_claim for all claims of a proposal that hit one memory.
Materialized(row, evidence) ==
  IF row = None THEN [state |-> "active", evidence |-> evidence]
  ELSE IF Terminal(row.state) THEN row
  ELSE [state    |-> IF row.state = "candidate" THEN "active" ELSE row.state,
        evidence |-> row.evidence \cup evidence]

Decisions(row, hits) ==
  IF row = None
    THEN IF \E h \in hits : hits # {h} THEN {"create", "strengthen"} ELSE {"create"}
    ELSE IF Terminal(row.state) THEN {"reject"} ELSE {"strengthen"}

\* Fault: each save replaces the admissions.
RecordedAnew(row, p, admitted) == [digest |-> p, admitted |-> admitted]

\* The job row of the day: the admissions accumulate, the digest is replaced.
Recorded(row, p, admitted) ==
  [digest   |-> p,
   admitted |-> IF row = None THEN admitted ELSE row.admitted \cup admitted]

\* The proposal has the digest of the current version.
SameDigest(s, d, p) == journals[s][d] # <<>> /\ Current(s, d) = p

\* An unchanged journal: only the job and its admissions change.
KeepJournal(s, d, p) ==
  /\ SameDigest(s, d, p)
  /\ UNCHANGED <<journals, memories, ops>>

\* A first or a new version, with its claims materialised as memories.
StoreJournal(s, d, p) ==
  /\ ~SameDigest(s, d, p)
  /\ Len(journals[s][d]) < MaxVersions
  /\ journals' = [journals EXCEPT ![s][d] = Append(@, p)]
  /\ memories' = [memories EXCEPT ![s] = [m \in Memory |->
       IF Hits(p, m) = {} THEN memories[s][m]
       ELSE Materialized(memories[s][m], Evidence(Hits(p, m)))]]
  /\ ops' = [ops EXCEPT ![s] = [m \in Memory |->
       IF Hits(p, m) = {} THEN ops[s][m]
       ELSE ops[s][m] \cup Decisions(memories[s][m], Hits(p, m))]]

SaveJournal(s, d, p) ==
  /\ busy = None
  /\ Admitted(s, d) # {}
  /\ ValidFor(p, Admitted(s, d))
  /\ jobs' = [jobs EXCEPT ![s][d] = Recorded(@, p, Admitted(s, d))]
  /\ KeepJournal(s, d, p) \/ StoreJournal(s, d, p)
  /\ UNCHANGED <<events, policy, audits, ledger, busy>>

\* No operation of the store retires a memory: a maintainer does, in the
\* database, along the transitions the core crate allows.
CurateMemory(s, m, to) ==
  /\ memories[s][m] # None
  /\ Allows(memories[s][m].state, to)
  /\ memories' = [memories EXCEPT ![s][m].state = to]
  /\ UNCHANGED <<events, policy, jobs, journals, ops, audits, ledger, busy>>

-----------------------------------------------------------------------------
(* Recall                                                                  *)

RecallableMemories(s, need) ==
  {m \in Memory : /\ m[1] = need
                  /\ memories[s][m] # None
                  /\ memories[s][m].state = "active"
                  /\ memories[s][m].evidence # {}}

\* Fault: a claim stands in for a retired memory.
RecallableAllClaims(s, need) ==
  {x \in Days \X Claim :
     /\ x[2][1] = need
     /\ journals[s][x[1]] # <<>>
     /\ \E cc \in Current(s, x[1]).claims : cc.claim = x[2] /\ cc.evidence # {}}

\* Claims of a current version stand in for memories the cues did not match,
\* unless their memory was retired.
RecallableClaims(s, need) ==
  {x \in Days \X Claim :
     /\ x[2][1] = need
     /\ journals[s][x[1]] # <<>>
     /\ \E cc \in Current(s, x[1]).claims : cc.claim = x[2] /\ cc.evidence # {}
     /\ ~TerminalMemory(s, MemoryOf(x[2]))}

RecallableEpisodes(s) ==
  {d \in Days : /\ journals[s][d] # <<>>
                /\ Evidence(Current(s, d).claims) # {}}

\* The candidates of a request: cues and time window match any of them; a
\* claim is dropped when its memory matched.
Candidates(s, need, cued) ==
  IF need = "episode" THEN {[source |-> "episode", id |-> d] : d \in RecallableEpisodes(s)}
  ELSE {[source |-> "memory", id |-> m] : m \in RecallableMemories(s, need) \cap cued}
       \cup {[source |-> "claim", id |-> x] :
               x \in {y \in RecallableClaims(s, need) :
                        MemoryOf(y[2]) \notin RecallableMemories(s, need) \cap cued}}

\* Every recall writes an audit row, also one that found nothing and one in a
\* scope that opted out or was forgotten.
RequestRecall(s, need, cued, exposed) ==
  /\ busy = None
  /\ exposed \subseteq Candidates(s, need, cued)
  /\ Cardinality(exposed) <= MaxItems
  /\ Cardinality(audits[s] \cup {exposed}) <= MaxAudits
  /\ audits' = [audits EXCEPT ![s] = @ \cup {exposed}]
  /\ UNCHANGED <<events, policy, jobs, journals, memories, ops, ledger, busy>>

-----------------------------------------------------------------------------
(* Erasure                                                                 *)

Purged(E) ==
  [e \in Event |-> IF e \in E THEN [events[e] EXCEPT !.payload = "purged"] ELSE events[e]]

ScopeEvents(s) == {e \in Event : e[1] = s /\ events[e] # None}

EventsBefore(s, cutoff) == {e \in ScopeEvents(s) : events[e].time < cutoff}

\* A row of the ledger opens as "pending" in the transaction of its operation,
\* which goes on to hold the mutex.
Open(id, kind, s, cutoff) ==
  /\ busy = None
  /\ ledger[id] = None
  /\ ledger' = [ledger EXCEPT
       ![id] = [kind |-> kind, scope |-> s, cutoff |-> cutoff, scan |-> "pending"]]
  /\ busy' = id

\* The evidence rows of a scope's events go, then the memories of the scope:
\* a row left under one of them would make the foreign key refuse the purge.
Unsupported(row, E) ==
  IF row = None THEN None ELSE [row EXCEPT !.evidence = @ \ E]

Deletable(s) ==
  \A m \in Memory : memories[s][m] # None => memories[s][m].evidence \subseteq ScopeEvents(s)

\* Fault: a purge leaves the recall audits.
AuditsKept(s) == audits

AuditsCleared(s) == [audits EXCEPT ![s] = {}]

\* The transaction of purge_scope. The jobs and their admissions stay.
PurgeScope(s, id) ==
  /\ Open(id, "purge", s, None)
  /\ events' = Purged(ScopeEvents(s))
  /\ policy' = [policy EXCEPT
                  ![s] = [state |-> "opted_out", reason |-> "explicit_forgetme"]]
  /\ journals' = [journals EXCEPT ![s] = [d \in Days |-> <<>>]]
  /\ Deletable(s)
  /\ memories' = [x \in Scopes |-> [m \in Memory |->
       IF x = s THEN None ELSE Unsupported(memories[x][m], ScopeEvents(s))]]
  /\ ops' = [ops EXCEPT ![s] = [m \in Memory |-> {}]]
  /\ audits' = AuditsCleared(s)
  /\ UNCHANGED jobs

\* The transaction of retain_payloads. What was derived stays.
RetainPayloads(s, cutoff, id) ==
  /\ Open(id, "retain", s, cutoff)
  /\ events' = Purged(EventsBefore(s, cutoff))
  /\ UNCHANGED <<policy, derivedVars>>

\* Fault: the scan counts the payloads at the cutoff too.
ResidualAtCutoff(row) ==
  {e \in ScopeEvents(row.scope) :
     Active(e) /\ (row.kind = "retain" => events[e].time <= row.cutoff)}

\* The readable payloads that the operation of this row should have purged.
Residual(row) ==
  {e \in IF row.kind = "purge" THEN ScopeEvents(row.scope)
                               ELSE EventsBefore(row.scope, row.cutoff) : Active(e)}

\* After the commit (and, for a purge, a checkpoint and VACUUM) the payloads
\* that should be gone are counted.
ResidualScan ==
  /\ busy # None
  /\ ledger' = [ledger EXCEPT
       ![busy].scan = IF Residual(ledger[busy]) = {} THEN "passed" ELSE "failed"]
  /\ busy' = None
  /\ UNCHANGED <<events, policy, derivedVars>>

\* VACUUM or the scan fails, or the process dies: the committed transaction
\* stays, and so does its "pending" row, which nothing completes later.
Interrupted ==
  /\ busy # None
  /\ busy' = None
  /\ UNCHANGED <<events, policy, derivedVars, ledger>>

-----------------------------------------------------------------------------
Next ==
  \/ \E e \in Event, c \in Contents, t \in Times : IngestEvent(e, c, t)
  \/ \E s \in Scopes, action \in {"pause", "resume"} : SetCapturePolicy(s, action)
  \/ \E s \in Scopes, d \in Days, p \in Proposals : SaveJournal(s, d, p)
  \/ \E s \in Scopes, m \in Memory, to \in MemoryStates : CurateMemory(s, m, to)
  \/ \E s \in Scopes, need \in MemoryKinds \cup {"episode"}, cued \in SUBSET Memory :
       \E exposed \in SUBSET Candidates(s, need, cued) :
         RequestRecall(s, need, cued, exposed)
  \/ \E s \in Scopes, id \in OpIds : PurgeScope(s, id)
  \/ \E s \in Scopes, cutoff \in Times, id \in OpIds : RetainPayloads(s, cutoff, id)
  \/ ResidualScan
  \/ Interrupted

Spec == Init /\ [][Next]_vars

-----------------------------------------------------------------------------
(* Properties                                                              *)

TypeOK ==
  /\ events \in [Event -> EventRow \cup {None}]
  /\ policy \in [Scopes -> PolicyRow \cup {None}]
  /\ jobs \in [Scopes -> [Days -> JobRow \cup {None}]]
  /\ journals \in [Scopes -> [Days -> Seq(Proposal)]]
  /\ memories \in [Scopes -> [Memory -> MemoryRow \cup {None}]]
  /\ ops \in [Scopes -> [Memory -> SUBSET {"create", "strengthen", "reject"}]]
  /\ audits \in [Scopes -> SUBSET SUBSET Item]
  /\ ledger \in [OpIds -> OpRow \cup {None}]
  /\ busy \in OpIds \cup {None}
  /\ busy # None => ledger[busy] # None /\ ledger[busy].scan = "pending"

\* A forgotten scope holds no readable payload, no journal, no memory and no
\* trace of what a recall showed, whatever is replayed, resumed, summarised or
\* recalled in it afterwards.
ForgottenHoldsNothing ==
  \A s \in Scopes : Forgotten(s) =>
    /\ OptedOut(s)
    /\ \A e \in Event : e[1] = s => ~Active(e)
    /\ \A d \in Days : journals[s][d] = <<>>
    /\ \A m \in Memory : memories[s][m] = None /\ ops[s][m] = {}
    /\ audits[s] \subseteq {{}}

\* Whatever a version of a day's journal claims, it cites events, and each of
\* them was admitted to the job of that day, is an event of the same scope and
\* happened on that day; the job row names the version that is current.
JournalGrounded ==
  \A s \in Scopes, d \in Days :
    /\ \A cc \in ClaimsOf(journals[s][d]) :
         cc.evidence # {} /\ cc.evidence \subseteq jobs[s][d].admitted
    /\ journals[s][d] # <<>> => jobs[s][d] # None /\ jobs[s][d].digest = Current(s, d)
    /\ jobs[s][d] # None =>
         \A e \in jobs[s][d].admitted :
           e[1] = s /\ events[e] # None /\ DayOf[events[e].time] = d

\* The claims of every day and version of a scope's journals, and those that
\* name memory m.
StoredClaims(s) == UNION {ClaimsOf(journals[s][d]) : d \in Days}

ClaimsNaming(s, m) == {cc \in StoredClaims(s) : MemoryOf(cc.claim) = m}

\* A memory exists exactly when a stored claim names it. Its evidence is what
\* those claims cite together; after it was retired, claims may cite more.
MemoryGrounded ==
  \A s \in Scopes, m \in Memory :
    /\ memories[s][m] = None <=> ClaimsNaming(s, m) = {}
    /\ memories[s][m] # None =>
         /\ memories[s][m].evidence # {}
         /\ memories[s][m].evidence \subseteq Evidence(ClaimsNaming(s, m))
         /\ ~Terminal(memories[s][m].state) =>
              memories[s][m].evidence = Evidence(ClaimsNaming(s, m))

\* No foreign key ever stands in the way of a purge: the evidence of a memory
\* is of its own scope, although the table of evidence does not say so.
PurgeNeverRefused == \A s \in Scopes : Deletable(s)

\* The decisions recorded for a memory agree with it: it was created once it
\* exists, and only a retired memory ever had a claim rejected.
DecisionsAgree ==
  \A s \in Scopes, m \in Memory :
    /\ memories[s][m] # None <=> "create" \in ops[s][m]
    /\ "reject" \in ops[s][m] => TerminalMemory(s, m)

\* What a recall audit says was exposed is still stored: a purge that removes
\* a memory or journal removes the audits that name it.
AuditsNameStored ==
  \A s \in Scopes : \A exposed \in audits[s] : \A i \in exposed :
    \/ i.source = "memory" /\ memories[s][i.id] # None
    \/ i.source = "episode" /\ journals[s][i.id] # <<>>
    \/ /\ i.source = "claim"
       /\ \E cc \in ClaimsOf(journals[s][i.id[1]]) : cc.claim = i.id[2]

\* No scan ever finds a payload that its transaction should have purged, and a
\* purge in the ledger, also one that never got past "pending", and only such
\* a purge, means that the scope is forgotten.
LedgerSound ==
  /\ \A id \in OpIds : ledger[id] # None => ledger[id].scan # "failed"
  /\ \A s \in Scopes :
       Forgotten(s) <=>
         \E id \in OpIds : ledger[id] # None /\ ledger[id].kind = "purge" /\ ledger[id].scope = s

\* A retired memory is never revived nor strengthened: it keeps its evidence
\* and stays retired until a purge removes it.
RetiredStaysRetired ==
  [][\A s \in Scopes, m \in Memory :
       TerminalMemory(s, m) /\ memories'[s][m] # None =>
         /\ Terminal(memories'[s][m].state)
         /\ memories'[s][m].evidence = memories[s][m].evidence]_vars

\* The statement of a retired memory is not exposed by a recall, neither as
\* the memory nor as a journal claim that says the same.
RetiredNotExposed ==
  [][\A s \in Scopes : \A exposed \in audits'[s] \ audits[s] : \A i \in exposed :
       /\ i.source = "memory" => ~TerminalMemory(s, i.id)
       /\ i.source = "claim" => ~TerminalMemory(s, MemoryOf(i.id[2]))]_vars

\* How the tables show what the contract speaks of.
Consent ==
  [s \in Scopes |-> IF Forgotten(s) THEN "forgotten"
                    ELSE IF OptedOut(s) THEN "paused" ELSE "open"]

Readable == {<<e, events[e].content>> : e \in {x \in Event : Active(x)}}

Erased == {e \in Event : events[e] # None /\ events[e].payload = "purged"}

Cited == Evidence(UNION {StoredClaims(s) : s \in Scopes})

Contract == INSTANCE PrivacyContract WITH
  consent <- Consent, readable <- Readable, erased <- Erased, cited <- Cited

\* The store keeps the promises of PrivacyContract: consent before capture, at
\* most one body for an event, nothing erased that comes back, nothing derived
\* from what could not be read, and nothing left of a forgotten scope.
KeepsContract == Contract!Spec

=============================================================================
