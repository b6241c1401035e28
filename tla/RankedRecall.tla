---------------------------- MODULE RankedRecall ----------------------------
(***************************************************************************)
(* request_recall in full, over MemoryActivation: which rows a recall      *)
(* reads, in which order, with which limits and filters, and what it picks *)
(* of them. KernelStore only says what a recall may expose; RankedSpec     *)
(* implements it.                                                          *)
(*                                                                         *)
(* A text is the cues that are found in it. Where the code breaks a tie by *)
(* a digest, every order is possible.                                      *)
(***************************************************************************)
EXTENDS MemoryActivation

CONSTANTS
  Cues,          \* the normalised cues
  FoundIn,       \* the titles, claim texts and event ids a cue is found in
  IdOrder,       \* the order of event ids
  DayStart,      \* the time a journal date begins
  UtcDayOf,      \* the UTC date of a time
  Requests,      \* the requests that are made
  RowLimit,      \* memories that are read: 256
  EpisodeLimit,  \* journals that are read: 128
  EvidenceLimit  \* events that are read for a memory, claim or journal: 8

Request == [need : MemoryKinds \cup {"episode"}, cues : SUBSET Cues,
            hint : Days \cup {None}, depth : 1 .. MaxItems]

ASSUME RecallOK ==
  /\ UtcDayOf \in [Times -> Days]
  /\ FoundIn \in [Cues -> [titles : SUBSET STRING, texts : SUBSET Texts, ids : SUBSET Event]]
  /\ IdOrder \in [Event -> Nat] /\ DayStart \in [Days -> Nat]
  /\ \A d, e \in Days : DayStart[d] = DayStart[e] => d = e
  /\ Requests \subseteq Request /\ None \notin Days
  /\ RowLimit \in Nat /\ EpisodeLimit \in Nat /\ EvidenceLimit \in Nat \ {0}

\* What one database holds, and what one request asks with.
ASSUME FinitelyMany ==
  /\ IsFiniteSet(Scopes) /\ IsFiniteSet(Keys) /\ IsFiniteSet(Days)
  /\ IsFiniteSet(Texts) /\ IsFiniteSet(Cues)

-----------------------------------------------------------------------------
\* ORDER BY and LIMIT n, or sort and truncate: the sets of n members of S that
\* no other member should have come before.
Firsts(S, n, Before(_, _)) ==
  {F \in SUBSET S : /\ Cardinality(F) = AtMost(Cardinality(S), n)
                    /\ \A x \in S \ F, y \in F : ~Before(x, y)}

\* The events a query reads, of those that are evidence.
FirstIds(E) ==
  LET Before(x, y) == IdOrder[x] < IdOrder[y]
  IN CHOOSE F \in Firsts(E, EvidenceLimit, Before) : TRUE

Latest(E) ==
  CHOOSE t \in {events[e].time : e \in E} : \A e \in E : events[e].time <= t

\* The number of cues that are found in one of these places.
Matched(q, titles, texts, ids) ==
  Cardinality({c \in q.cues : \/ FoundIn[c].titles \cap titles # {}
                              \/ FoundIn[c].texts \cap texts # {}
                              \/ FoundIn[c].ids \cap ids # {}})

InText(q, text) == Matched(q, {}, {text}, {})

\* A hint names a day, and its window is that day in UTC.
InWindow(q, t) == q.hint = None \/ UtcDayOf[t] = q.hint

-----------------------------------------------------------------------------
(* Rows                                                                    *)

ActiveMemories(s) ==
  {m \in Memory : memories[s][m] # None /\ memories[s][m].state = "active"}

\* The rows of memories, of every kind, most active first.
MemoryRows(s) ==
  LET Before(x, y) ==
        \/ heat[s][x].value > heat[s][y].value
        \/ /\ heat[s][x].value = heat[s][y].value
           /\ Latest(memories[s][x].evidence) > Latest(memories[s][y].evidence)
  IN Firsts(ActiveMemories(s), RowLimit, Before)

\* The rows of journals, latest first.
EpisodeRows(s) ==
  LET Before(x, y) == DayStart[x] > DayStart[y]
  IN Firsts({d \in Days : journals[s][d] # <<>>}, EpisodeLimit, Before)

-----------------------------------------------------------------------------
(* Candidates                                                              *)

Candidate(source, id, score, time) ==
  [item |-> [source |-> source, id |-> id], score |-> score, time |-> time]

\* Fault: a cue weighs less than an activation.
ScoreByActivation(matched, value) == matched + ((5 * Unit + value) \div (10 * Unit))

\* A cue weighs more than all of an activation, which counts in tenths.
MemoryScore(matched, value) == matched * 120 + ((5 * Unit + value) \div (10 * Unit))

\* The rows that match: of the kind asked for, in the window, with a cue.
MatchedMemories(s, q, rows) ==
  {m \in rows : /\ m[1] = q.need
                /\ memories[s][m].evidence # {}
                /\ InWindow(q, Latest(memories[s][m].evidence))
                /\ InText(q, m[2]) > 0}

MemoryCandidates(s, q, rows) ==
  {Candidate("memory", m, MemoryScore(InText(q, m[2]), heat[s][m].value),
             Latest(memories[s][m].evidence)) : m \in MatchedMemories(s, q, rows)}

EpisodeEvidence(s, d) == FirstIds(Evidence(Current(s, d).claims))

\* A journal whose claims cite nothing, or whose latest event is outside the
\* window, is passed over with all its claims.
ReadableEpisodes(s, q, days) ==
  {d \in days : /\ EpisodeEvidence(s, d) # {}
                /\ InWindow(q, Latest(EpisodeEvidence(s, d)))}

InEpisode(q, s, d) == Matched(q, {Current(s, d).title}, {}, EpisodeEvidence(s, d))

EpisodeCandidates(s, q, days) ==
  {Candidate("episode", d, InEpisode(q, s, d) * 100, Latest(EpisodeEvidence(s, d))) :
     d \in {x \in ReadableEpisodes(s, q, days) : InEpisode(q, s, x) > 0}}

\* Fault: a claim is passed over when its memory exists.
StandsInForNone(s, cc) == memories[s][MemoryOf(cc.claim)] = None

\* Fault: a claim stands in for a retired memory too.
StandsInAlways(s, cc) == TRUE

\* A claim stands in for its memory unless that was retired.
StandsIn(s, cc) == ~TerminalMemory(s, MemoryOf(cc.claim))

\* The cues of a claim may also be in the text of its journal.
InClaim(q, s, d, cc) ==
  Matched(q, {Current(s, d).title}, {cc.claim[2]}, FirstIds(cc.evidence))

ClaimCandidates(s, q, days, taken) ==
  UNION {{Candidate("claim", <<d, cc.claim>>, InClaim(q, s, d, cc) * 100,
                    Latest(FirstIds(cc.evidence))) :
            cc \in {x \in Current(s, d).claims :
                      /\ x.claim[1] = q.need
                      /\ StandsIn(s, x)
                      /\ x.claim[2] \notin taken
                      /\ FirstIds(x.evidence) # {}
                      /\ InWindow(q, Latest(FirstIds(x.evidence)))
                      /\ InClaim(q, s, d, x) > 0}} :
         d \in ReadableEpisodes(s, q, days)}

\* What a recall ranks, given the rows it read.
CandidatesFor(s, q, rows, days) ==
  IF q.need = "episode" THEN EpisodeCandidates(s, q, days)
  ELSE MemoryCandidates(s, q, rows)
       \cup ClaimCandidates(s, q, days, {m[2] : m \in MatchedMemories(s, q, rows)})

\* What it may answer: the best by score and time, as many as the depth allows.
Answers(s, q) ==
  LET Before(x, y) == x.score > y.score \/ (x.score = y.score /\ x.time > y.time)
  IN UNION {{{c.item : c \in best} :
               best \in Firsts(CandidatesFor(s, q, rows, days), q.depth, Before)} :
            rows \in MemoryRows(s), days \in EpisodeRows(s)}

-----------------------------------------------------------------------------
RankedRecall(s, q) ==
  /\ busy = None
  /\ \E exposed \in Answers(s, q) :
       /\ Cardinality(audits[s] \cup {exposed}) <= MaxAudits
       /\ audits' = [audits EXCEPT ![s] = @ \cup {exposed}]
  /\ UNCHANGED <<events, policy, jobs, journals, memories, ops, ledger, busy, heatVars>>

RankedNext == HotNext \/ \E s \in Scopes, q \in Requests : RankedRecall(s, q)

RankedSpec == HotInit /\ [][RankedNext]_allVars

-----------------------------------------------------------------------------
(* Properties                                                              *)

\* The ranked recall exposes nothing that KernelStore does not allow, so what
\* is proved of KernelStore holds of it.
RefinesKernelStore == Spec

\* The journals that every recall reads, however the ties fall.
RecentJournals(s) ==
  {d \in Days : /\ journals[s][d] # <<>>
                /\ Cardinality({x \in Days : /\ journals[s][x] # <<>>
                                             /\ DayStart[x] > DayStart[d]}) < EpisodeLimit}

\* A claim of a recent journal is found by a cue of its text, although its
\* memory may be beyond the rows a recall reads, as long as it is not retired:
\* the recall does not answer "not_found".
CurrentClaimsFound ==
  \A s \in Scopes, q \in Requests :
    \A d \in RecentJournals(s) : \A cc \in Current(s, d).claims :
      /\ q.hint = None
      /\ cc.claim[1] = q.need
      /\ InText(q, cc.claim[2]) > 0
      /\ ~TerminalMemory(s, MemoryOf(cc.claim))
      => {} \notin Answers(s, q)

\* A memory that is exposed has at least as many of the cues as one of the
\* rows read that is not exposed: activation decides between equals only.
CuesBeforeActivation ==
  \A s \in Scopes, q \in Requests :
    \A rows \in MemoryRows(s), days \in EpisodeRows(s) :
      \A x, y \in CandidatesFor(s, q, rows, days) :
        /\ x.item.source = "memory" /\ y.item.source = "memory"
        /\ InText(q, x.item.id[2]) > InText(q, y.item.id[2])
        => x.score > y.score

\* The journal a recall found is found again when its date is the hint.
HintFindsJournal ==
  \A s \in Scopes, q \in Requests, d \in Days :
    q.need = "episode" /\ {[source |-> "episode", id |-> d]} \in Answers(s, q) =>
      {} \notin Answers(s, [q EXCEPT !.hint = d])

=============================================================================
