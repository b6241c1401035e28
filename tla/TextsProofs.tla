---------------------------- MODULE TextsProofs ------------------------------
(***************************************************************************)
(* Proofs about the loops of the kernel that cut texts and count days:     *)
(* redact, read_journal_context, compose_brief and the dates of a recall.  *)
(* For every text, set of matches, day of messages, budget and list of     *)
(* candidates, and every date from the year 0 on.                          *)
(***************************************************************************)
EXTENDS Redaction, JournalContext, RecallBrief, Calendar, SequenceTheorems, TLAPS

-----------------------------------------------------------------------------
(* Redaction                                                               *)

RedactTypeOK ==
  /\ matches \subseteq Match /\ todo \subseteq matches
  /\ cursor \in Nat /\ at \in Nat
  /\ spans \in Seq(Match)
  /\ next \in 1 .. Len(spans) + 1
  /\ pc \in {"select", "copy", "done"}

\* The loop looks at the matches by where they begin; a span is one of them.
InSequence ==
  /\ \A x \in matches \ todo, y \in todo : x.start <= y.start
  /\ \A i \in 1 .. Len(spans) : spans[i] \in matches \ todo

\* A match that is passed over begins inside a span.
MatchesBegun ==
  \A m \in matches \ todo :
    m.start < m.end => \E i \in 1 .. Len(spans) : Inside(m.start, spans[i])

\* The two cursors stand at the end of a span, or at the begin of the text.
CursorsAtSpans ==
  /\ Len(spans) = 0 => cursor = 0
  /\ Len(spans) > 0 => cursor = spans[Len(spans)].end
  /\ next = 1 => at = 0
  /\ next > 1 => at = spans[next - 1].end
  /\ pc = "select" => next = 1

RedactInv ==
  /\ RedactTypeOK /\ InSequence /\ CursorsAtSpans
  /\ SpansInOrder /\ MatchesBegun /\ BestChosen

\* A match has a begin, an end and a priority that can be compared.
LEMMA MatchType ==
  ASSUME NEW m \in Match
  PROVE  m.start \in Nat /\ m.end \in Nat /\ m.priority \in Nat /\ m.start <= m.end
<1>1. m \in [start : 0 .. Size, end : 0 .. Size, priority : Priorities] /\ m.start <= m.end
  BY DEF Match
<1>2. m.start \in 0 .. Size /\ m.end \in 0 .. Size /\ m.priority \in Priorities
  BY <1>1
<1>3. m.start \in Nat /\ m.end \in Nat
  BY <1>2
<1>4. m.priority \in Nat
  BY <1>2, RedactionOK
<1> QED
  BY <1>1, <1>3, <1>4

\* Before a span is chosen, every match is still to be tried.
LEMMA InitRedactInv == RedactInit => RedactInv
<1> SUFFICES ASSUME RedactInit
             PROVE  RedactInv
  OBVIOUS
<1>1. PICK n \in 0 .. MaxMatches : \E taken \in [1 .. n -> Match] :
        matches = {taken[i] : i \in 1 .. n}
  BY DEF RedactInit
<1>2. matches \subseteq Match
  BY <1>1
<1>3. RedactTypeOK /\ InSequence /\ CursorsAtSpans
  BY <1>2 DEF RedactInit, RedactTypeOK, InSequence, CursorsAtSpans
<1>4. SpansInOrder /\ MatchesBegun /\ BestChosen
  BY DEF RedactInit, SpansInOrder, MatchesBegun, BestChosen
<1> QED
  BY <1>3, <1>4 DEF RedactInv

\* One more span goes behind all others.
LEMMA AppendSpan ==
  ASSUME RedactTypeOK, NEW m \in Match, spans' = Append(spans, m)
  PROVE  /\ spans' \in Seq(Match) /\ Len(spans') = Len(spans) + 1
         /\ Len(spans) \in Nat
         /\ \A i \in 1 .. Len(spans) : spans'[i] = spans[i]
         /\ spans'[Len(spans) + 1] = m
  BY DEF RedactTypeOK

\* A free match becomes the next span.
LEMMA SelectFree ==
  ASSUME RedactInv, pc = "select", NEW m \in todo,
         \A x \in todo \ {m} : Before(m, x),
         todo' = todo \ {m}, Free(m), cursor' = m.end, spans' = Append(spans, m),
         UNCHANGED <<matches, copied, at, next, pc>>
  PROVE  RedactInv'
<1> USE DEF RedactInv
<1>a. m \in Match /\ m \in matches
  BY DEF RedactTypeOK
<1>b. m.start \in Nat /\ m.end \in Nat /\ cursor <= m.start /\ m.start < m.end
  BY <1>a, MatchType DEF Free
<1>c. \A x \in matches : x \in Match /\ x.start \in Nat /\ x.end \in Nat /\ x.priority \in Nat
  BY MatchType DEF RedactTypeOK
<1>d. \A x \in todo : m.start <= x.start
  BY <1>c, <1>a DEF Before, RedactTypeOK
<1>1. RedactTypeOK'
  BY <1>a, <1>b, AppendSpan DEF RedactTypeOK, CursorsAtSpans
<1>2. InSequence'
  <2>1. \A x \in matches' \ todo', y \in todo' : x.start <= y.start
    BY <1>d DEF InSequence
  <2>2. \A i \in 1 .. Len(spans') : spans'[i] \in matches' \ todo'
    BY <1>a, AppendSpan DEF InSequence, RedactTypeOK
  <2> QED
    BY <2>1, <2>2 DEF InSequence
<1>3. CursorsAtSpans'
  BY <1>a, AppendSpan DEF CursorsAtSpans, RedactTypeOK
<1>4. SpansInOrder'
  <2>1. \A i \in 1 .. Len(spans') : spans'[i].start < spans'[i].end /\ spans'[i].end <= cursor'
    <3> SUFFICES ASSUME NEW i \in 1 .. Len(spans')
                 PROVE  spans'[i].start < spans'[i].end /\ spans'[i].end <= cursor'
      OBVIOUS
    <3>1. CASE i = Len(spans) + 1
      BY <3>1, <1>a, <1>b, AppendSpan
    <3>2. CASE i \in 1 .. Len(spans)
      <4>1. spans[i].end \in Nat
        BY <3>2, <1>c DEF InSequence
      <4> QED
        BY <3>2, <4>1, <1>a, <1>b, AppendSpan DEF SpansInOrder, RedactTypeOK
    <3> QED
      BY <3>1, <3>2, <1>a, AppendSpan
  <2>2. \A i, j \in 1 .. Len(spans') : i < j => spans'[i].end <= spans'[j].start
    <3> SUFFICES ASSUME NEW i \in 1 .. Len(spans'), NEW j \in 1 .. Len(spans'), i < j
                 PROVE  spans'[i].end <= spans'[j].start
      OBVIOUS
    <3>1. i \in 1 .. Len(spans) /\ spans[i].end \in Nat
      BY <1>a, <1>c, AppendSpan DEF InSequence
    <3>2. CASE j = Len(spans) + 1
      BY <3>1, <3>2, <1>a, <1>b, AppendSpan DEF SpansInOrder, RedactTypeOK
    <3>3. CASE j \in 1 .. Len(spans)
      BY <3>1, <3>3, <1>a, AppendSpan DEF SpansInOrder
    <3> QED
      BY <3>2, <3>3, <1>a, AppendSpan
  <2>3. next' <= Len(spans') => at' <= spans'[next'].start
    <3>1. at' = 0 /\ next' = 1
      BY DEF CursorsAtSpans
    <3>2. spans'[1] \in Match
      BY <1>1, <1>a, AppendSpan DEF RedactTypeOK
    <3> QED
      BY <3>1, <3>2, MatchType
  <2> QED
    BY <2>1, <2>2, <2>3 DEF SpansInOrder
<1>5. MatchesBegun'
  <2> SUFFICES ASSUME NEW x \in matches \ todo', x.start < x.end
               PROVE  \E i \in 1 .. Len(spans') : Inside(x.start, spans'[i])
    BY DEF MatchesBegun, Inside
  <2>1. CASE x = m
    BY <2>1, <1>a, <1>b, AppendSpan DEF Inside
  <2>2. CASE x # m
    <3>1. PICK i \in 1 .. Len(spans) : Inside(x.start, spans[i])
      BY <2>2 DEF MatchesBegun
    <3> QED
      BY <3>1, <1>a, AppendSpan
  <2> QED
    BY <2>1, <2>2
<1>6. BestChosen'
  <2> SUFFICES ASSUME NEW i \in 1 .. Len(spans'), NEW x \in matches,
                      x.start = spans'[i].start, x.start < x.end
               PROVE  /\ spans'[i].priority <= x.priority
                      /\ spans'[i].priority = x.priority => x.end <= spans'[i].end
    BY DEF BestChosen
  <2>1. CASE i \in 1 .. Len(spans)
    BY <2>1, <1>a, AppendSpan DEF BestChosen
  <2>2. CASE i = Len(spans) + 1
    <3>1. x \in todo
      <4> SUFFICES ASSUME x \notin todo
                   PROVE  FALSE
        OBVIOUS
      <4>1. PICK j \in 1 .. Len(spans) : Inside(x.start, spans[j])
        BY DEF MatchesBegun
      <4>2. spans[j].end <= cursor /\ spans[j].end \in Nat
        BY <1>c DEF SpansInOrder, InSequence
      <4> QED
        BY <4>1, <4>2, <2>2, <1>a, <1>b, AppendSpan DEF Inside, RedactTypeOK
    <3> QED
      BY <3>1, <2>2, <1>a, <1>c, AppendSpan DEF Before
  <2> QED
    BY <2>1, <2>2, <1>a, AppendSpan
<1> QED
  BY <1>1, <1>2, <1>3, <1>4, <1>5, <1>6

\* A match that is passed over begins inside the last span, or is empty.
LEMMA SelectTaken ==
  ASSUME RedactInv, pc = "select", NEW m \in todo,
         \A x \in todo \ {m} : Before(m, x),
         todo' = todo \ {m}, ~Free(m),
         UNCHANGED <<matches, cursor, spans, copied, at, next, pc>>
  PROVE  RedactInv'
<1> USE DEF RedactInv
<1>a. \A x \in matches : x \in Match /\ x.start \in Nat /\ x.end \in Nat /\ x.priority \in Nat
  BY MatchType DEF RedactTypeOK
<1>b. \A x \in todo : m.start <= x.start
  BY <1>a DEF Before, RedactTypeOK
<1>1. RedactTypeOK' /\ CursorsAtSpans'
  BY DEF RedactTypeOK, CursorsAtSpans
<1>2. InSequence'
  BY <1>b DEF InSequence
<1>3. SpansInOrder' /\ BestChosen'
  BY DEF SpansInOrder, BestChosen
<1>4. MatchesBegun'
  <2> SUFFICES ASSUME NEW x \in matches \ todo', x.start < x.end
               PROVE  \E i \in 1 .. Len(spans) : Inside(x.start, spans[i])
    BY DEF MatchesBegun, Inside
  <2>1. CASE x # m
    BY <2>1 DEF MatchesBegun
  <2>2. CASE x = m
    <3>1. m.start < cursor /\ m.start \in Nat
      BY <2>2, <1>a DEF Free, RedactTypeOK
    <3>2. Len(spans) > 0 /\ cursor = spans[Len(spans)].end /\ Len(spans) \in Nat
      BY <3>1 DEF CursorsAtSpans, RedactTypeOK
    <3>3. spans[Len(spans)].start <= m.start
      BY <3>2 DEF InSequence
    <3> QED
      BY <2>2, <3>1, <3>2, <3>3 DEF Inside
  <2> QED
    BY <2>1, <2>2
<1> QED
  BY <1>1, <1>2, <1>3, <1>4

LEMMA SelectKeepsInv ==
  ASSUME RedactInv, Select
  PROVE  RedactInv'
  BY SelectFree, SelectTaken DEF Select

\* Copying goes from span to span.
LEMMA ReplaceKeepsInv ==
  ASSUME RedactInv, Replace
  PROVE  RedactInv'
<1> USE DEF RedactInv, Replace
<1>a. spans[next] \in Match /\ next \in 1 .. Len(spans) /\ Len(spans) \in Nat
  BY DEF RedactTypeOK
<1>1. RedactTypeOK'
  BY <1>a, MatchType DEF RedactTypeOK, After
<1>2. InSequence' /\ MatchesBegun' /\ BestChosen'
  BY DEF InSequence, MatchesBegun, BestChosen
<1>3. CursorsAtSpans'
  BY <1>a DEF CursorsAtSpans, After
<1>4. SpansInOrder'
  BY <1>a DEF SpansInOrder, After
<1> QED
  BY <1>1, <1>2, <1>3, <1>4

\* Every step of redact keeps the invariant.
LEMMA RedactNextKeepsInv == RedactInv /\ [RedactNext]_redactVars => RedactInv'
<1> SUFFICES ASSUME RedactInv, [RedactNext]_redactVars
             PROVE  RedactInv'
  OBVIOUS
<1>1. CASE Select
  BY <1>1, SelectKeepsInv
<1>2. CASE Replace
  BY <1>2, ReplaceKeepsInv
<1>3. CASE Selected \/ CopyRest \/ UNCHANGED redactVars
  <2> USE <1>3 DEF Selected, CopyRest, redactVars, RedactInv
  <2>1. RedactTypeOK' /\ CursorsAtSpans' /\ InSequence'
    BY DEF RedactTypeOK, CursorsAtSpans, InSequence
  <2>2. SpansInOrder' /\ MatchesBegun' /\ BestChosen'
    BY DEF SpansInOrder, MatchesBegun, BestChosen
  <2> QED
    BY <2>1, <2>2
<1> QED
  BY <1>1, <1>2, <1>3 DEF RedactNext

\* The invariant holds in every reachable state.
THEOREM RedactInvHolds == RedactSpec => []RedactInv
  BY InitRedactInv, RedactNextKeepsInv, PTL DEF RedactSpec

\* Spans do not overlap, whatever the patterns match: no slice runs backwards, and
\* the result is defined for every text (redact).
THEOREM SpansAreInOrder == RedactSpec => []SpansInOrder
<1>1. RedactInv => SpansInOrder
  BY DEF RedactInv
<1> QED
  BY <1>1, RedactInvHolds, PTL

\* What follows the span that a match begins in, the span having come first.
LEMMA TailsAreCrossed ==
  ASSUME RedactInv, NEW m \in matches \ todo, NEW p \in m.start .. m.end - 1, ~Covered(p)
  PROVE  \E i \in 1 .. Len(spans) : Crosses(spans[i], m) /\ spans[i].end <= p
<1>1. /\ m \in Match /\ m.start \in Nat /\ m.end \in Nat /\ m.priority \in Nat
      /\ p \in Int /\ m.start <= p /\ p < m.end
  <2>1. m \in Match
    BY DEF RedactInv, RedactTypeOK
  <2> QED BY <2>1, MatchType
<1>2. PICK i \in 1 .. Len(spans) : Inside(m.start, spans[i])
  BY <1>1 DEF RedactInv, MatchesBegun
<1> DEFINE x == spans[i]
<1>3. x \in Match /\ x.start \in Nat /\ x.end \in Nat /\ x.priority \in Nat
  BY MatchType DEF RedactInv, RedactTypeOK
<1>4. x.start <= m.start /\ m.start < x.end
  BY <1>2 DEF Inside
<1>5. ~Inside(p, x)
  BY DEF Covered
<1>6. m.start = x.start => x.priority <= m.priority /\ (x.priority = m.priority => m.end <= x.end)
  BY <1>1 DEF RedactInv, BestChosen
<1> HIDE DEF x
<1>7. x.end <= p
  BY <1>1, <1>3, <1>4, <1>5 DEF Inside
<1>8. Before(x, m)
  BY <1>1, <1>3, <1>4, <1>6, <1>7 DEF Before
<1>9. Crosses(x, m)
  BY <1>1, <1>3, <1>4, <1>7, <1>8 DEF Crosses
<1> QED BY <1>7, <1>9 DEF x

\* Nothing of a match is left but what lies behind a span that crosses it: a match
\* that overlaps no other, or only such as it contains, goes whole.
THEOREM OnlyTails == RedactSpec => []OnlyTailsAreLeft
<1>1. RedactInv => OnlyTailsAreLeft
  BY TailsAreCrossed DEF OnlyTailsAreLeft
<1> QED
  BY <1>1, RedactInvHolds, PTL

\* What is replaced was matched.
THEOREM OnlyMatchesGo == RedactSpec => []SpansAreMatches
<1>1. RedactInv => SpansAreMatches
  BY DEF RedactInv, InSequence, SpansAreMatches
<1> QED
  BY <1>1, RedactInvHolds, PTL

\* Of the matches that begin together the span is one with the best priority, and
\* the longest of those.
THEOREM BestIsChosen == RedactSpec => []BestChosen
<1>1. RedactInv => BestChosen
  BY DEF RedactInv
<1> QED
  BY <1>1, RedactInvHolds, PTL

-----------------------------------------------------------------------------
(* What is copied. A position is handled when it is before the cursor.     *)

\* p is copied exactly when it is in none of the first n spans.
Right(p, n) ==
  (\E i \in 1 .. Len(copied) : copied[i] = p) <=> ~\E i \in 1 .. n : Inside(p, spans[i])

CopiedInv ==
  /\ copied \in Seq(Nat)
  /\ \A i, j \in 1 .. Len(copied) : i < j => copied[i] < copied[j]
  /\ at <= Size
  /\ pc = "select" => Len(copied) = 0
  /\ pc # "done" =>
       /\ \A i \in 1 .. Len(copied) : copied[i] < at
       /\ \A p \in Nat : p < at => Right(p, next - 1)
  /\ pc = "done" => next > Len(spans) /\ \A p \in 0 .. Size - 1 : Right(p, Len(spans))

\* Appending a slice appends its positions in order.
LEMMA SliceAppended ==
  ASSUME NEW s \in Seq(Nat), NEW i \in Nat, NEW j \in Nat, i <= j
  PROVE  /\ s \o Slice(i, j) \in Seq(Nat)
         /\ Len(s) \in Nat
         /\ Len(s \o Slice(i, j)) = Len(s) + (j - i)
         /\ \A k \in 1 .. Len(s) : (s \o Slice(i, j))[k] = s[k]
         /\ \A k \in 1 .. j - i : (s \o Slice(i, j))[Len(s) + k] = i + k - 1
<1>1. j - i \in Nat /\ Slice(i, j) \in [1 .. j - i -> Nat]
  BY DEF Slice
<1>2. Slice(i, j) \in Seq(Nat) /\ Len(Slice(i, j)) = j - i
  BY <1>1, SeqDef, LenProperties
<1>3. \A k \in 1 .. j - i : Slice(i, j)[k] = i + k - 1
  BY DEF Slice
<1> DEFINE u == Slice(i, j)
<1> HIDE DEF u
<1>4. /\ s \o u \in Seq(Nat) /\ Len(s \o u) = Len(s) + Len(u) /\ Len(s) \in Nat
      /\ \A k \in 1 .. Len(s) + Len(u) :
           (s \o u)[k] = IF k <= Len(s) THEN s[k] ELSE u[k - Len(s)]
  BY <1>2, ConcatProperties, LenProperties DEF u
<1>5. ASSUME NEW k \in 1 .. Len(s)
      PROVE  (s \o u)[k] = s[k]
  BY <1>1, <1>2, <1>4 DEF u
<1>6. ASSUME NEW k \in 1 .. j - i
      PROVE  (s \o u)[Len(s) + k] = i + k - 1
  <2>1. Len(s) + k \in 1 .. Len(s) + Len(u) /\ ~(Len(s) + k <= Len(s)) /\ Len(s) + k - Len(s) = k
    BY <1>1, <1>2, <1>4 DEF u
  <2> QED
    BY <1>3, <1>4, <2>1 DEF u
<1> QED
  BY <1>2, <1>4, <1>5, <1>6 DEF u

\* So a slice from the cursor on keeps what is copied in order, and copies its
\* positions and no others.
LEMMA SliceCopied ==
  ASSUME copied \in Seq(Nat), at \in Nat, NEW j \in Nat, at <= j,
         \A x, y \in 1 .. Len(copied) : x < y => copied[x] < copied[y],
         \A x \in 1 .. Len(copied) : copied[x] < at,
         copied' = copied \o Slice(at, j)
  PROVE  /\ copied' \in Seq(Nat)
         /\ \A x, y \in 1 .. Len(copied') : x < y => copied'[x] < copied'[y]
         /\ \A x \in 1 .. Len(copied') : copied'[x] < j
         /\ \A p \in Nat : p < at =>
              ((\E i \in 1 .. Len(copied') : copied'[i] = p)
                 <=> \E i \in 1 .. Len(copied) : copied[i] = p)
         /\ \A p \in Nat : at <= p =>
              ((\E i \in 1 .. Len(copied') : copied'[i] = p) <=> p < j)
<1> DEFINE n == Len(copied)
<1>1. /\ copied' \in Seq(Nat) /\ n \in Nat /\ Len(copied') = n + (j - at)
      /\ \A k \in 1 .. n : copied'[k] = copied[k]
      /\ \A k \in 1 .. j - at : copied'[n + k] = at + k - 1
  <2>1. copied \in Seq(Nat) /\ at \in Nat /\ j \in Nat /\ at <= j
    OBVIOUS
  <2>2. /\ copied \o Slice(at, j) \in Seq(Nat)
        /\ Len(copied) \in Nat
        /\ Len(copied \o Slice(at, j)) = Len(copied) + (j - at)
        /\ \A k \in 1 .. Len(copied) : (copied \o Slice(at, j))[k] = copied[k]
        /\ \A k \in 1 .. j - at : (copied \o Slice(at, j))[Len(copied) + k] = at + k - 1
    BY <2>1, SliceAppended, Zenon
  <2>3. copied' = copied \o Slice(at, j)
    OBVIOUS
  <2> QED
    BY <2>2, <2>3, Zenon
<1>2. \A k \in 1 .. Len(copied') : k > n => copied'[k] = at + (k - n) - 1
  <2> SUFFICES ASSUME NEW k \in 1 .. Len(copied'), k > n
               PROVE  copied'[k] = at + (k - n) - 1
    OBVIOUS
  <2>1. k - n \in 1 .. j - at /\ n + (k - n) = k
    BY <1>1
  <2> QED
    BY <1>1, <2>1
<1>3. \A k \in 1 .. n : copied[k] \in Nat /\ k \in 1 .. Len(copied')
  BY <1>1
<1> HIDE DEF n
<1>4. ASSUME NEW x \in 1 .. Len(copied'), NEW y \in 1 .. Len(copied'), x < y
      PROVE  copied'[x] < copied'[y]
  <2>1. CASE y <= n
    BY <1>1, <1>3, <1>4, <2>1 DEF n
  <2>2. CASE x <= n /\ y > n
    <3>1. copied'[x] < at
      BY <1>1, <1>4, <2>2 DEF n
    <3>2. copied'[y] >= at
      BY <1>1, <1>2, <1>4, <2>2
    <3>3. copied'[x] \in Nat /\ copied'[y] \in Nat
      BY <1>1, ElementOfSeq
    <3> QED
      BY <3>1, <3>2, <3>3, SMTT(30)
  <2>3. CASE x > n
    <3>1. x \in Int /\ y \in Int /\ n \in Int /\ y > n
      BY <1>1, <1>4, <2>3
    <3>2. copied'[x] = at + (x - n) - 1 /\ copied'[y] = at + (y - n) - 1
      BY <1>2, <2>3, <3>1, Zenon
    <3> QED BY <1>4, <3>1, <3>2
  <2>4. Len(copied') \in Nat /\ x \in Nat /\ y \in Nat /\ n \in Nat
    BY <1>1
  <2> QED
    BY <1>4, <2>1, <2>2, <2>3, <2>4
<1>5. ASSUME NEW x \in 1 .. Len(copied')
      PROVE  copied'[x] < j /\ (x <= n => copied'[x] < at) /\ (x > n => copied'[x] >= at)
  <2>1. x \in Int /\ n \in Int /\ x >= 1 /\ x <= n + (j - at)
    BY <1>1
  <2>2. CASE x <= n
    <3>1. x \in 1 .. n
      BY <2>1, <2>2
    <3>2. copied'[x] = copied[x] /\ copied[x] \in Nat
      BY <1>1, <1>3, <3>1, Zenon
    <3>3. copied[x] < at
      BY <3>1, Zenon DEF n
    <3> QED BY <2>1, <2>2, <3>2, <3>3
  <2>3. CASE x > n
    <3>1. copied'[x] = at + (x - n) - 1
      BY <1>2, <2>3, Zenon
    <3> QED BY <2>1, <2>3, <3>1
  <2> QED
    BY <2>1, <2>2, <2>3
<1>6. ASSUME NEW p \in Nat, p < at
      PROVE  (\E i \in 1 .. Len(copied') : copied'[i] = p)
               <=> \E i \in 1 .. Len(copied) : copied[i] = p
  <2>1. ASSUME NEW i \in 1 .. Len(copied'), copied'[i] = p
        PROVE  i \in 1 .. n /\ copied[i] = p
    <3>1. i \in Int /\ n \in Int /\ i >= 1 /\ (i > n => copied'[i] >= at)
      BY <1>1, <1>5
    <3>2. i \in 1 .. n
      BY <1>6, <2>1, <3>1
    <3> QED BY <1>1, <2>1, <3>2, Zenon
  <2>2. ASSUME NEW i \in 1 .. n, copied[i] = p
        PROVE  i \in 1 .. Len(copied') /\ copied'[i] = p
    BY <1>1, <1>3, <2>2
  <2> QED
    BY <2>1, <2>2 DEF n
<1>7. ASSUME NEW p \in Nat, at <= p
      PROVE  (\E i \in 1 .. Len(copied') : copied'[i] = p) <=> p < j
  <2>1. ASSUME p < j
        PROVE  \E i \in 1 .. Len(copied') : copied'[i] = p
    <3>1. n + (p - at + 1) \in 1 .. Len(copied') /\ p - at + 1 \in 1 .. j - at
      BY <1>1, <1>7, <2>1
    <3>2. copied'[n + (p - at + 1)] = at + (p - at + 1) - 1
      BY <1>1, <3>1
    <3>3. at + (p - at + 1) - 1 = p
      OBVIOUS
    <3> QED
      BY <3>1, <3>2, <3>3
  <2> QED
    BY <1>5, <2>1
<1> QED
  BY <1>1, <1>4, <1>5, <1>6, <1>7

LEMMA InitCopiedInv == RedactInit => CopiedInv
  BY RedactionOK DEF RedactInit, CopiedInv

\* Positions before the cursor were handled with the spans before it.
LEMMA SpansBehind ==
  ASSUME RedactInv
  PROVE  /\ \A i \in 1 .. next - 1 : i \in 1 .. Len(spans) /\ spans[i].end <= at
         /\ \A i \in 1 .. Len(spans) : spans[i] \in Match
  <1> USE DEF RedactInv
  <1>1. \A i \in 1 .. Len(spans) : spans[i] \in Match
    BY DEF RedactTypeOK
  <1>2. ASSUME NEW i \in 1 .. next - 1
        PROVE  i \in 1 .. Len(spans) /\ spans[i].end <= at
    <2>1. i \in 1 .. Len(spans) /\ next - 1 \in 1 .. Len(spans) /\ Len(spans) \in Nat
      BY DEF RedactTypeOK
    <2>2. at = spans[next - 1].end
      BY DEF CursorsAtSpans, RedactTypeOK
    <2>3. /\ spans[i].end \in Nat /\ spans[next - 1].start \in Nat
          /\ spans[next - 1].end \in Nat /\ spans[next - 1].start <= spans[next - 1].end
      BY <1>1, <2>1, MatchType
    <2>4. CASE i = next - 1
      BY <2>1, <2>2, <2>3, <2>4
    <2>5. CASE i < next - 1
      <3>1. spans[i].end <= spans[next - 1].start
        BY <2>1, <2>5 DEF SpansInOrder
      <3> QED
        BY <2>1, <2>2, <2>3, <3>1
    <2> QED
      BY <2>1, <2>4, <2>5 DEF RedactTypeOK
  <1> QED
    BY <1>1, <1>2

\* One span is replaced: the text before it is copied, its own is not.
LEMMA ReplaceKeepsCopied ==
  ASSUME RedactInv, CopiedInv, Replace
  PROVE  CopiedInv'
<1> DEFINE m == spans[next]
<1>1. /\ m \in Match /\ m.start \in Nat /\ m.end \in Nat /\ m.start < m.end /\ m.end <= Size
      /\ at \in Nat /\ at <= m.start /\ next \in 1 .. Len(spans) /\ Len(spans) \in Nat
  <2>1. next \in 1 .. Len(spans) /\ Len(spans) \in Nat /\ m \in Match /\ at \in Nat
    BY DEF RedactInv, RedactTypeOK, Replace
  <2>2. m.start < m.end /\ at <= m.start
    BY <2>1 DEF RedactInv, SpansInOrder, Replace
  <2>3. m.end <= Size
    BY <2>1, RedactionOK DEF Match
  <2> QED
    BY <2>1, <2>2, <2>3, MatchType
<1> HIDE DEF m
<1>2. /\ copied' \in Seq(Nat)
      /\ \A x, y \in 1 .. Len(copied') : x < y => copied'[x] < copied'[y]
      /\ \A x \in 1 .. Len(copied') : copied'[x] < m.start
      /\ \A p \in Nat : p < at =>
           ((\E i \in 1 .. Len(copied') : copied'[i] = p)
              <=> \E i \in 1 .. Len(copied) : copied[i] = p)
      /\ \A p \in Nat : at <= p =>
           ((\E i \in 1 .. Len(copied') : copied'[i] = p) <=> p < m.start)
  <2>1. /\ copied \in Seq(Nat)
        /\ \A i, j \in 1 .. Len(copied) : i < j => copied[i] < copied[j]
        /\ \A i \in 1 .. Len(copied) : copied[i] < at
        /\ copied' = copied \o Slice(at, m.start)
    BY DEF CopiedInv, Replace, m
  <2> QED
    BY <1>1, <2>1, SliceCopied
<1>3. at' = m.end /\ next' = next + 1 /\ spans' = spans /\ pc' = "copy"
  BY DEF Replace, After, m
<1>4. \A i \in 1 .. Len(copied') : copied'[i] < at'
  <2> TAKE i \in 1 .. Len(copied')
  <2>1. copied'[i] \in Nat /\ copied'[i] < m.start
    BY <1>2
  <2> QED
    BY <1>1, <1>3, <2>1
<1>5. ASSUME NEW p \in Nat, p < at'
      PROVE  Right(p, next - 1)'
  <2>1. CASE p < at
    <3>1. (\E i \in 1 .. Len(copied) : copied[i] = p) <=> ~\E i \in 1 .. next - 1 : Inside(p, spans[i])
      BY <2>1 DEF CopiedInv, Right, Replace
    <3>2. ~Inside(p, m)
      BY <1>1, <2>1 DEF Inside
    <3>3. \A i \in 1 .. next : i = next \/ i \in 1 .. next - 1
      BY <1>1
    <3>4. (\E i \in 1 .. next - 1 : Inside(p, spans[i])) <=> \E i \in 1 .. next : Inside(p, spans[i])
      BY <1>1, <3>2, <3>3 DEF m
    <3>5. next' - 1 = next
      BY <1>1, <1>3
    <3> QED
      BY <1>2, <1>3, <2>1, <3>1, <3>4, <3>5 DEF Right, Inside
  <2>2. CASE at <= p
    <3>1. (\E i \in 1 .. Len(copied') : copied'[i] = p) <=> p < m.start
      BY <1>2, <2>2
    <3>2. \A i \in 1 .. next - 1 : ~Inside(p, spans[i])
      <4> TAKE i \in 1 .. next - 1
      <4>1. i \in 1 .. Len(spans) /\ spans[i].end <= at /\ spans[i].end \in Nat
        BY SpansBehind, MatchType
      <4> QED
        BY <1>1, <2>2, <4>1 DEF Inside
    <3>3. Inside(p, m) <=> ~(p < m.start)
      BY <1>1, <1>3, <1>5 DEF Inside
    <3>4. (\E i \in 1 .. next : Inside(p, spans[i])) <=> Inside(p, m)
      <4>1. \A i \in 1 .. next : i = next \/ i \in 1 .. next - 1
        BY <1>1
      <4> QED
        BY <1>1, <3>2, <4>1 DEF m
    <3>5. next' - 1 = next
      BY <1>1, <1>3
    <3> QED
      BY <1>3, <3>1, <3>3, <3>4, <3>5 DEF Right, Inside
  <2> QED
    BY <1>1, <2>1, <2>2
<1> QED
  BY <1>1, <1>2, <1>3, <1>4, <1>5 DEF CopiedInv

\* The rest of the text lies behind every span.
LEMMA CopyRestKeepsCopied ==
  ASSUME RedactInv, CopiedInv, CopyRest
  PROVE  CopiedInv'
<1>1. /\ at \in Nat /\ at <= Size /\ Size \in Nat /\ Len(spans) \in Nat
      /\ next - 1 = Len(spans)
  <2>1. at \in Nat /\ spans \in Seq(Match) /\ next \in 1 .. Len(spans) + 1 /\ next > Len(spans)
    BY DEF RedactInv, RedactTypeOK, CopyRest
  <2>2. Len(spans) \in Nat
    BY <2>1, LenProperties
  <2> QED
    BY <2>1, <2>2, RedactionOK DEF CopiedInv
<1>2. /\ copied' \in Seq(Nat)
      /\ \A x, y \in 1 .. Len(copied') : x < y => copied'[x] < copied'[y]
      /\ \A p \in Nat : p < at =>
           ((\E i \in 1 .. Len(copied') : copied'[i] = p)
              <=> \E i \in 1 .. Len(copied) : copied[i] = p)
      /\ \A p \in Nat : at <= p =>
           ((\E i \in 1 .. Len(copied') : copied'[i] = p) <=> p < Size)
  <2>1. /\ copied \in Seq(Nat)
        /\ \A i, j \in 1 .. Len(copied) : i < j => copied[i] < copied[j]
        /\ \A i \in 1 .. Len(copied) : copied[i] < at
        /\ copied' = copied \o Slice(at, Size)
    BY DEF CopiedInv, CopyRest
  <2> QED
    BY <1>1, <2>1, SliceCopied
<1>3. ASSUME NEW p \in 0 .. Size - 1
      PROVE  Right(p, Len(spans))'
  <2>1. CASE p < at
    <3>1. (\E i \in 1 .. Len(copied) : copied[i] = p)
            <=> ~\E i \in 1 .. Len(spans) : Inside(p, spans[i])
      <4>1. \A q \in Nat : q < at => Right(q, next - 1)
        BY DEF CopiedInv, CopyRest
      <4> QED
        BY <1>1, <2>1, <4>1 DEF Right
    <3>2. (\E i \in 1 .. Len(copied') : copied'[i] = p) <=> \E i \in 1 .. Len(copied) : copied[i] = p
      BY <1>2, <2>1
    <3> QED
      BY <3>1, <3>2 DEF Right, CopyRest, Inside
  <2>2. CASE at <= p
    <3>1. \A i \in 1 .. Len(spans) : ~Inside(p, spans[i])
      <4> TAKE i \in 1 .. Len(spans)
      <4>1. spans[i].end <= at /\ spans[i].end \in Nat
        BY <1>1, SpansBehind, MatchType
      <4> QED
        BY <1>1, <2>2, <4>1 DEF Inside
    <3>2. \E i \in 1 .. Len(copied') : copied'[i] = p
      BY <1>1, <1>2, <2>2
    <3> QED
      BY <3>1, <3>2 DEF Right, CopyRest, Inside
  <2> QED
    BY <1>1, <2>1, <2>2
<1>4. next' > Len(spans') /\ pc' = "done" /\ at' <= Size
  BY <1>1 DEF CopyRest
<1> QED
  BY <1>2, <1>3, <1>4 DEF CopiedInv

LEMMA NextKeepsCopied == RedactInv /\ CopiedInv /\ [RedactNext]_redactVars => CopiedInv'
<1> SUFFICES ASSUME RedactInv, CopiedInv, [RedactNext]_redactVars
             PROVE  CopiedInv'
  OBVIOUS
<1>1. CASE Select
  <2>1. /\ UNCHANGED <<copied, at, next, pc>> /\ pc = "select" /\ at = 0 /\ at' = 0
    BY <1>1 DEF Select, RedactInv, CursorsAtSpans
  <2>2. \A p \in Nat : ~(p < at')
    BY <2>1
  <2> QED
    BY <2>1, <2>2 DEF CopiedInv
<1>2. CASE Selected \/ UNCHANGED redactVars
  BY <1>2 DEF Selected, redactVars, CopiedInv, Right, Inside
<1>3. CASE Replace \/ CopyRest
  BY <1>3, ReplaceKeepsCopied, CopyRestKeepsCopied, ZenonT(30)
<1> QED
  BY <1>1, <1>2, <1>3 DEF RedactNext

\* The result holds every position outside the spans once and in order, and none
\* inside one: what a span covers is gone, and nothing else is lost or doubled.
THEOREM RestIsCopied == RedactSpec => []RestCopied
<1>1. CopiedInv => RestCopied
  BY DEF CopiedInv, RestCopied, Right, Covered
<1>2. RedactSpec => []CopiedInv
  BY InitCopiedInv, RedactInvHolds, NextKeepsCopied, PTL DEF RedactSpec
<1> QED
  BY <1>1, <1>2, PTL

\* All of it, for a text of any length, any number of matches and any priorities of
\* the patterns: only matched text goes, and of a match all but the tail behind a
\* better one (redact).
THEOREM RedactionHolds == RedactSpec => []Redacted
<1>1. SpansInOrder /\ SpansAreMatches /\ OnlyTailsAreLeft /\ BestChosen /\ RestCopied => Redacted
  BY DEF Redacted
<1> QED
  BY <1>1, SpansAreInOrder, OnlyMatchesGo, OnlyTails, BestIsChosen, RestIsCopied, PTL

-----------------------------------------------------------------------------
(* The journal context                                                     *)

\* What a quotient is bounded by.
LEMMA DivBounds ==
  ASSUME NEW b \in Nat, NEW n \in Nat, n > 0
  PROVE  /\ b \div n \in Nat
         /\ n * (b \div n) <= b
         /\ n <= b => b \div n > 0
OBVIOUS

\* Products of numbers keep their order.
LEMMA ProductGrows ==
  ASSUME NEW x \in Nat, NEW y \in Nat, NEW n \in Nat, x <= y
  PROVE  x * n <= y * n
OBVIOUS

\* Every event has a share of the budget, and the shares are within the budget.
LEMMA ShareIsFair ==
  ASSUME NEW n \in 1 .. EventLimit
  PROVE  /\ Share(n) \in Nat \ {0}
         /\ Share(n) * n <= Budget
<1> DEFINE q == Budget \div n
<1>1. n \in Nat /\ n > 0 /\ n <= Budget /\ Budget \in Nat
  BY ContextOK
<1>2. q \in Nat /\ n * q <= Budget /\ q > 0
  BY <1>1, DivBounds
<1>3. Share(n) = Shorter(q, ContentLimit)
  BY <1>1 DEF Share
<1> HIDE DEF q
<1>4. Share(n) \in Nat \ {0} /\ Share(n) <= q
  BY <1>2, <1>3, ContextOK DEF Shorter
<1>5. Share(n) * n <= q * n
  BY <1>1, <1>2, <1>4, ProductGrows
<1> QED BY <1>1, <1>2, <1>4, <1>5

Shown == [length : Nat, truncated : BOOLEAN]

ContextTypeOK ==
  /\ day \in Seq(Nat \ {0})
  /\ shown \in Seq(Shown)
  /\ turn \in Nat \ {0}
  /\ flag \in BOOLEAN
  /\ phase \in {"query", "limit", "shorten", "done"}

\* What is left of the i-th body is not nothing, and its flag tells whether
\* it is all of it.
EventHonest(i) ==
  /\ shown[i].length > 0 /\ shown[i].length <= day[i]
  /\ shown[i].truncated <=> shown[i].length # day[i]

\* The events before this turn have their share, and the flag of the context
\* knows of them and of the events that are not shown.
TurnsTaken ==
  /\ Len(shown) = Shorter(Len(day), EventLimit)
  /\ turn <= Len(shown) + 1
  /\ \A i \in 1 .. Len(shown) : i < turn => shown[i].length <= Share(Len(shown))
  /\ flag <=> Len(shown) # Len(day) \/ \E i \in 1 .. Len(shown) : i < turn /\ shown[i].truncated

ContextInv ==
  /\ ContextTypeOK
  /\ Len(shown) <= Len(day) /\ \A i \in 1 .. Len(shown) : EventHonest(i)
  /\ phase \in {"query", "limit"} => turn = 1
  /\ phase = "limit" => Len(shown) = Shorter(Len(day), RowsRead)
  /\ phase \in {"shorten", "done"} => TurnsTaken
  /\ phase = "done" => turn > Len(shown)

\* Cutting an honest body leaves an honest one.
LEMMA CutIsHonest ==
  ASSUME NEW event \in Shown, NEW maximum \in Nat \ {0}, NEW whole \in Nat,
         event.length > 0, event.length <= whole,
         event.truncated <=> event.length # whole
  PROVE  /\ Cut(event, maximum) \in Shown
         /\ Cut(event, maximum).length > 0
         /\ Cut(event, maximum).length <= maximum
         /\ Cut(event, maximum).length <= whole
         /\ Cut(event, maximum).truncated <=> Cut(event, maximum).length # whole
<1>1. event.length \in Nat /\ event.truncated \in BOOLEAN
  BY DEF Shown
<1> DEFINE n == event.length
           t == event.truncated
<1>2. Cut(event, maximum).length = Shorter(n, maximum)
  BY DEF Cut
<1>3. Cut(event, maximum).truncated = (t \/ n > maximum)
  BY DEF Cut
<1>4. Cut(event, maximum) \in Shown
  BY <1>1 DEF Cut, Shown, Shorter
<1>5. n \in Nat /\ n > 0 /\ n <= whole
  BY <1>1
<1>6. t <=> n # whole
  OBVIOUS
<1> HIDE DEF n, t
<1>7. Shorter(n, maximum) > 0 /\ Shorter(n, maximum) <= maximum /\ Shorter(n, maximum) <= whole
  BY <1>5 DEF Shorter
<1>8. (n # whole \/ n > maximum) <=> Shorter(n, maximum) # whole
  BY <1>5 DEF Shorter
<1> QED BY <1>2, <1>3, <1>4, <1>6, <1>7, <1>8

\* What is kept of a day while its events are read, limited and shortened.
LEMMA InitContextInv == ContextInit => ContextInv
<1> SUFFICES ASSUME ContextInit PROVE ContextInv
  OBVIOUS
<1>1. PICK n \in 0 .. MaxEvents : day \in [1 .. n -> Lengths]
  BY DEF ContextInit
<1>2. n \in Nat /\ Lengths \subseteq Nat \ {0}
  BY ContextOK
<1>3. day \in Seq(Nat \ {0})
  <2>1. day \in [1 .. n -> Nat \ {0}]
    BY <1>1, <1>2
  <2> QED BY <1>2, <2>1
<1>4. Len(shown) = 0 /\ shown \in Seq(Shown) /\ Len(day) \in Nat
  BY <1>3 DEF ContextInit
<1>5. \A i \in 1 .. Len(shown) : EventHonest(i)
  BY <1>4
<1>6. ContextTypeOK
  <2>1. turn = 1 /\ flag = FALSE /\ phase = "query"
    BY DEF ContextInit
  <2>2. flag \in BOOLEAN
    BY <2>1
  <2>3. turn \in Nat \ {0}
    BY <2>1
  <2> QED BY <1>3, <1>4, <2>1, <2>2, <2>3 DEF ContextTypeOK
<1> QED BY <1>4, <1>5, <1>6 DEF ContextInit, ContextInv

LEMMA ReadRowsKeepsInv == ContextInv /\ ReadRows => ContextInv'
<1> SUFFICES ASSUME ContextInv, ReadRows PROVE ContextInv'
  OBVIOUS
<1> USE DEF ContextInv, ContextTypeOK
<1> DEFINE n == Shorter(Len(day), RowsRead)
           Row(i) == [length |-> day[i], truncated |-> FALSE]
<1>1. n \in Nat /\ n <= Len(day)
  BY ContextOK DEF RowsRead, Shorter
<1> HIDE DEF n
<1>2. shown' = [i \in 1 .. n |-> Cut(Row(i), ContentLimit)]
  BY DEF ReadRows, n
<1>3. \A i \in 1 .. n :
        /\ Cut(Row(i), ContentLimit) \in Shown
        /\ Cut(Row(i), ContentLimit).length > 0
        /\ Cut(Row(i), ContentLimit).length <= day[i]
        /\ Cut(Row(i), ContentLimit).truncated <=> Cut(Row(i), ContentLimit).length # day[i]
  <2> SUFFICES ASSUME NEW i \in 1 .. n
               PROVE  /\ Cut(Row(i), ContentLimit) \in Shown
                      /\ Cut(Row(i), ContentLimit).length > 0
                      /\ Cut(Row(i), ContentLimit).length <= day[i]
                      /\ Cut(Row(i), ContentLimit).truncated <=> Cut(Row(i), ContentLimit).length # day[i]
    OBVIOUS
  <2>1. day[i] \in Nat /\ day[i] > 0
    BY <1>1
  <2>2. Row(i) \in Shown /\ Row(i).length = day[i] /\ Row(i).truncated = FALSE
    BY <2>1 DEF Shown
  <2> HIDE DEF Row
  <2>3. Row(i).length > 0 /\ Row(i).length <= day[i] /\ (Row(i).truncated <=> Row(i).length # day[i])
    BY <2>1, <2>2
  <2> QED BY <2>1, <2>2, <2>3, CutIsHonest, ContextOK
<1> HIDE DEF Row
<1>4. shown' \in Seq(Shown) /\ Len(shown') = n /\ \A i \in 1 .. n : shown'[i] = Cut(Row(i), ContentLimit)
  BY <1>1, <1>2, <1>3
<1>5. \A i \in 1 .. Len(shown') : EventHonest(i)'
  BY <1>3, <1>4, ZenonT(30) DEF ReadRows, EventHonest
<1>6. Len(shown') = Shorter(Len(day), RowsRead)
  BY <1>4 DEF n
<1> QED BY <1>1, <1>4, <1>5, <1>6 DEF ReadRows

LEMMA LimitEventsKeepsInv == ContextInv /\ LimitEvents => ContextInv'
<1> SUFFICES ASSUME ContextInv, LimitEvents PROVE ContextInv'
  OBVIOUS
<1> USE DEF ContextInv, ContextTypeOK
<1> DEFINE n == Shorter(Len(shown), EventLimit)
<1>1. n \in Nat /\ n <= Len(shown) /\ n = Shorter(Len(day), EventLimit)
  BY ContextOK DEF LimitEvents, RowsRead, Shorter
<1>2. Len(shown) > EventLimit <=> n # Len(day)
  BY ContextOK DEF LimitEvents, RowsRead, Shorter
<1> HIDE DEF n
<1>3. shown' = SubSeq(shown, 1, n)
  BY DEF LimitEvents, n
<1>4. shown' \in Seq(Shown) /\ Len(shown') = n /\ \A i \in 1 .. n : shown'[i] = shown[i]
  BY <1>1, <1>3
<1>5. \A i \in 1 .. Len(shown') : EventHonest(i)'
  BY <1>1, <1>4 DEF LimitEvents, EventHonest
<1>6. TurnsTaken'
  <2>1. turn = 1 /\ turn' = 1 /\ day' = day /\ flag' = (Len(shown) > EventLimit)
    BY DEF LimitEvents
  <2>2. \A i \in 1 .. Len(shown') : ~(i < turn')
    BY <1>1, <1>4, <2>1
  <2>3. flag' <=> Len(shown') # Len(day')
    BY <1>2, <1>4, <2>1
  <2>4. Len(shown') = Shorter(Len(day'), EventLimit) /\ turn' <= Len(shown') + 1
    BY <1>1, <1>4, <2>1
  <2> QED BY <2>2, <2>3, <2>4 DEF TurnsTaken
<1> QED BY <1>1, <1>4, <1>5, <1>6 DEF LimitEvents

LEMMA ShortenEventKeepsInv == ContextInv /\ ShortenEvent => ContextInv'
<1> SUFFICES ASSUME ContextInv, ShortenEvent PROVE ContextInv'
  OBVIOUS
<1> USE DEF ContextInv, ContextTypeOK
<1> DEFINE n == Len(shown)
           c == Cut(shown[turn], Share(n))
<1>1. TurnsTaken /\ turn \in 1 .. n /\ n \in 1 .. EventLimit
  BY ContextOK DEF ShortenEvent, TurnsTaken, Shorter
<1>2. Share(n) \in Nat \ {0}
  BY <1>1, ShareIsFair
<1>3. shown[turn] \in Shown /\ day[turn] \in Nat /\ EventHonest(turn)
  BY <1>1
<1>4. /\ c \in Shown /\ c.length > 0 /\ c.length <= Share(n) /\ c.length <= day[turn]
      /\ c.truncated <=> c.length # day[turn]
  BY <1>2, <1>3, CutIsHonest DEF EventHonest
<1>5. shown' = [shown EXCEPT ![turn] = c] /\ flag' = (flag \/ c.truncated) /\ turn' = turn + 1
  BY DEF ShortenEvent
<1> HIDE DEF c
<1>6. /\ shown' \in Seq(Shown) /\ Len(shown') = n
      /\ shown'[turn] = c /\ \A i \in 1 .. n : i # turn => shown'[i] = shown[i]
  BY <1>1, <1>4, <1>5
<1>7. \A i \in 1 .. Len(shown') : EventHonest(i)'
  BY <1>4, <1>6 DEF ShortenEvent, EventHonest
<1>8. TurnsTaken'
  <2>1. \A i \in 1 .. Len(shown') : i < turn' => shown'[i].length <= Share(Len(shown'))
    BY <1>1, <1>4, <1>5, <1>6 DEF TurnsTaken
  <2>2. flag' <=> Len(shown') # Len(day') \/ \E i \in 1 .. Len(shown') : i < turn' /\ shown'[i].truncated
    <3>1. day' = day /\ (flag <=> n # Len(day) \/ \E i \in 1 .. n : i < turn /\ shown[i].truncated)
      BY <1>1 DEF TurnsTaken, ShortenEvent
    <3>2. \A i \in 1 .. n : i < turn' <=> i < turn \/ i = turn
      BY <1>1, <1>5
    <3>3. \A i \in 1 .. n : i < turn => shown'[i] = shown[i]
      BY <1>1, <1>6
    <3>4. (\E i \in 1 .. n : i < turn' /\ shown'[i].truncated)
             <=> c.truncated \/ \E i \in 1 .. n : i < turn /\ shown[i].truncated
      BY <1>1, <1>6, <3>2, <3>3
    <3> QED BY <1>5, <1>6, <3>1, <3>4
  <2> QED BY <1>1, <1>5, <1>6, <2>1, <2>2 DEF TurnsTaken, ShortenEvent
<1>9. flag' \in BOOLEAN
  BY <1>4, <1>5 DEF Shown
<1> QED BY <1>1, <1>5, <1>6, <1>7, <1>8, <1>9 DEF ShortenEvent

LEMMA AnswerKeepsInv == ContextInv /\ Answer => ContextInv'
<1> SUFFICES ASSUME ContextInv, Answer PROVE ContextInv'
  OBVIOUS
<1> QED BY DEF Answer, ContextInv, ContextTypeOK, EventHonest, TurnsTaken

LEMMA ContextNextKeepsInv == ContextInv /\ [ContextNext]_contextVars => ContextInv'
<1> SUFFICES ASSUME ContextInv, [ContextNext]_contextVars PROVE ContextInv'
  OBVIOUS
<1>1. CASE ReadRows BY <1>1, ReadRowsKeepsInv
<1>2. CASE LimitEvents BY <1>2, LimitEventsKeepsInv
<1>3. CASE ShortenEvent BY <1>3, ShortenEventKeepsInv
<1>4. CASE Answer BY <1>4, AnswerKeepsInv
<1>5. CASE UNCHANGED contextVars
  BY <1>5 DEF contextVars, ContextInv, ContextTypeOK, EventHonest, TurnsTaken
<1> QED BY <1>1, <1>2, <1>3, <1>4, <1>5 DEF ContextNext

\* At the end every turn is taken: no event is longer than its share, so the day is
\* within the budget, and the flag is up exactly if something is missing.
LEMMA InvIsHonest == ContextInv => ContextHonest
<1> SUFFICES ASSUME ContextInv, phase = "done"
             PROVE  FlagExact /\ BudgetKept
  BY DEF ContextHonest, FlagExact, BudgetKept
<1> USE DEF ContextInv, ContextTypeOK
<1>1. TurnsTaken /\ turn > Len(shown)
  OBVIOUS
<1>2. FlagExact
  BY <1>1 DEF FlagExact, EventHonest, TurnsTaken
<1>3. ASSUME NEW i \in 1 .. Len(shown)
      PROVE  shown[i].length * Len(shown) <= Budget /\ shown[i].length > 0
  <2> DEFINE n == Len(shown)
             k == shown[i].length
  <2>1. n \in 1 .. EventLimit
    BY <1>1, ContextOK DEF TurnsTaken, Shorter
  <2>2. k \in Nat /\ k > 0
    <3>1. shown[i] \in Shown /\ EventHonest(i)
      OBVIOUS
    <3> QED BY <3>1 DEF Shown, EventHonest
  <2>3. k <= Share(n)
    BY <1>1 DEF TurnsTaken
  <2>4. Share(n) \in Nat /\ Share(n) * n <= Budget
    BY <2>1, ShareIsFair
  <2> HIDE DEF n, k
  <2>5. k * n <= Share(n) * n
    <3>1. n \in Nat /\ k \in Nat /\ Share(n) \in Nat
      BY <2>1, <2>2, <2>4
    <3> QED BY <2>3, <3>1, ProductGrows
  <2>6. k * n <= Budget
    <3> DEFINE kn == k * n
               sn == Share(n) * n
    <3>1. kn \in Nat /\ sn \in Nat /\ kn <= sn /\ sn <= Budget /\ Budget \in Nat
      BY <2>1, <2>2, <2>4, <2>5, ContextOK
    <3> HIDE DEF kn, sn
    <3>2. kn <= Budget
      BY <3>1
    <3> QED BY <3>2 DEF kn
  <2> QED BY <2>2, <2>6 DEF n, k
<1> QED BY <1>2, <1>3 DEF BudgetKept

\* For days of any length and bodies of any length: the model reads no more than
\* the budget of characters, no body is cut to nothing, and the flags of the
\* context and of its events are set exactly when something is missing.
THEOREM ContextIsHonest == ContextSpec => []ContextHonest
<1>1. ContextSpec => []ContextInv
  BY InitContextInv, ContextNextKeepsInv, PTL DEF ContextSpec
<1> QED BY <1>1, InvIsHonest, PTL

-----------------------------------------------------------------------------
(* The brief of a recall                                                   *)

BriefTypeOK ==
  /\ depth \in Depths
  /\ found \in Seq(RecallItem)
  /\ length \in Nat
  /\ ends \in Seq(Nat)
  /\ step \in {"rank", "write", "done"}

\* A line has at most 326 characters, and a line break goes before the next.
LinesAreShort ==
  /\ step # "done" => length <= 11 + 327 * Len(ends)
  /\ \A i \in 1 .. Len(ends) : ends[i] <= 10 + 327 * i

\* The items written and those to be written are no more than the depth allows.
ItemsAreFew ==
  /\ step = "rank" => ends = <<>>
  /\ step # "rank" => Len(ends) + Len(found) <= ItemLimit(depth)

BriefInv == BriefTypeOK /\ LinesAreShort /\ ItemsAreFew

\* The parts of a line have limits of their own.
LEMMA LineIsShort ==
  ASSUME NEW item \in RecallItem PROVE LineWidth(item) \in 0 .. 326
<1>1. item.statement \in Nat /\ item.kind \in 0 .. 12 /\ item.evidence \in Nat \ {0}
  BY BriefOK DEF RecallItem
<1>2. StatementShown(item.statement) \in 0 .. 260
  BY <1>1 DEF StatementShown, Least
<1>3. EvidenceWidth(item.evidence) \in 0 .. 17
  BY DEF EvidenceWidth
<1> DEFINE s == StatementShown(item.statement)
           k == item.kind
           e == EvidenceWidth(item.evidence)
<1>4. LineWidth(item) = 4 + s + 14 + 4 + k + 8 + 7 + e
  BY DEF LineWidth
<1>5. s \in 0 .. 260 /\ k \in 0 .. 12 /\ e \in 0 .. 17
  BY <1>1, <1>2, <1>3
<1> HIDE DEF s, k, e
<1> QED BY <1>4, <1>5

\* What is kept of a brief while its lines are written.
LEMMA InitBriefInv == BriefInit => BriefInv
<1> SUFFICES ASSUME BriefInit PROVE BriefInv
  OBVIOUS
<1>1. PICK n \in 1 .. MaxFound : found \in [1 .. n -> RecallItem]
  BY DEF BriefInit
<1>2. found \in Seq(RecallItem)
  BY <1>1, BriefOK
<1> QED BY <1>2 DEF BriefInit, BriefInv, BriefTypeOK, LinesAreShort, ItemsAreFew

\* A depth allows one to three items.
LEMMA ItemLimits == ASSUME depth \in Depths PROVE ItemLimit(depth) \in 1 .. 3
BY DEF Depths, ItemLimit

LEMMA KeepBestKeepsInv == BriefInv /\ KeepBest => BriefInv'
<1> SUFFICES ASSUME BriefInv, KeepBest PROVE BriefInv'
  OBVIOUS
<1> USE DEF BriefInv, BriefTypeOK
<1> DEFINE n == Least(Len(found), ItemLimit(depth))
<1>1. n \in 0 .. Len(found) /\ n <= ItemLimit(depth)
  BY ItemLimits DEF Least
<1>2. found' \in Seq(RecallItem) /\ Len(found') = n
  BY <1>1 DEF KeepBest
<1>3. BriefTypeOK'
  BY <1>2 DEF KeepBest
<1>4. LinesAreShort'
  BY DEF KeepBest, LinesAreShort
<1>5. ItemsAreFew'
  <2>1. ends = <<>> /\ Len(ends) = 0
    BY DEF KeepBest, ItemsAreFew
  <2> QED BY <1>1, <1>2, <2>1, ItemLimits DEF KeepBest, ItemsAreFew
<1> QED BY <1>3, <1>4, <1>5

LEMMA WriteLineKeepsInv == BriefInv /\ WriteLine => BriefInv'
<1> SUFFICES ASSUME BriefInv, WriteLine PROVE BriefInv'
  OBVIOUS
<1> USE DEF BriefInv, BriefTypeOK
<1> DEFINE w == LineWidth(Head(found))
<1>1. w \in 0 .. 326
  <2>1. Head(found) \in RecallItem
    BY DEF WriteLine
  <2> QED BY <2>1, LineIsShort
<1>2. found' \in Seq(RecallItem) /\ Len(found') = Len(found) - 1
  BY DEF WriteLine
<1> HIDE DEF w
<1>3. ends' = Append(ends, length + w) /\ length' = length + w + 1
  BY DEF WriteLine, w
<1>4. BriefTypeOK'
  BY <1>1, <1>2, <1>3 DEF WriteLine
<1>5. Len(ends') = Len(ends) + 1
  BY <1>1, <1>3
<1>6. LinesAreShort'
  <2>1. length <= 11 + 327 * Len(ends)
    BY DEF WriteLine, LinesAreShort
  <2>2. length' <= 11 + 327 * Len(ends')
    BY <1>1, <1>3, <1>5, <2>1
  <2>3. ASSUME NEW i \in 1 .. Len(ends') PROVE ends'[i] <= 10 + 327 * i
    <3>1. CASE i = Len(ends) + 1
      BY <1>1, <1>3, <2>1, <3>1
    <3>2. CASE i # Len(ends) + 1
      <4>1. i \in 1 .. Len(ends) /\ ends'[i] = ends[i]
        BY <1>1, <1>3, <1>5, <3>2
      <4> QED BY <4>1 DEF LinesAreShort
    <3> QED BY <3>1, <3>2
  <2> QED BY <2>2, <2>3 DEF LinesAreShort
<1>7. ItemsAreFew'
  BY <1>2, <1>5, ItemLimits DEF WriteLine, ItemsAreFew
<1> QED BY <1>4, <1>6, <1>7

LEMMA CutBriefKeepsInv == BriefInv /\ CutBrief => BriefInv'
<1> SUFFICES ASSUME BriefInv, CutBrief PROVE BriefInv'
  OBVIOUS
<1> USE DEF BriefInv, BriefTypeOK
<1>1. BriefTypeOK'
  BY DEF CutBrief, Least, BriefLimit, Depths
<1> QED BY <1>1 DEF CutBrief, LinesAreShort, ItemsAreFew

LEMMA BriefNextKeepsInv == BriefInv /\ [BriefNext]_briefVars => BriefInv'
<1> SUFFICES ASSUME BriefInv, [BriefNext]_briefVars PROVE BriefInv'
  OBVIOUS
<1>1. CASE KeepBest BY <1>1, KeepBestKeepsInv
<1>2. CASE WriteLine BY <1>2, WriteLineKeepsInv
<1>3. CASE CutBrief BY <1>3, CutBriefKeepsInv
<1>4. CASE UNCHANGED briefVars
  BY <1>4 DEF briefVars, BriefInv, BriefTypeOK, LinesAreShort, ItemsAreFew
<1> QED BY <1>1, <1>2, <1>3, <1>4 DEF BriefNext

\* The first line and every line before the last that the depth allows end
\* before the cut: one of 337 characters, two of 664.
LEMMA EvidenceBeforeCut == BriefInv => EarlierEvidenceKept
<1> SUFFICES ASSUME BriefInv, NEW i \in 1 .. Len(ends), i = 1 \/ i < ItemLimit(depth)
             PROVE  ends[i] <= BriefLimit(depth)
  BY DEF EarlierEvidenceKept
<1> USE DEF BriefInv, BriefTypeOK
<1>1. ends[i] \in Nat /\ ends[i] <= 10 + 327 * i
  BY DEF LinesAreShort
<1>2. i = 1 \/ (i = 2 /\ depth = "deep")
  BY DEF ItemLimit, Depths
<1>3. BriefLimit(depth) \in Int /\ BriefLimit(depth) >= 420
  BY DEF BriefLimit, Depths
<1>4. depth = "deep" => BriefLimit(depth) = 800
  BY DEF BriefLimit
<1> QED BY <1>1, <1>2, <1>3, <1>4

\* For every length of the stored statements and every number of candidates, the
\* evidence of the first item and of all but the last survives the cut of the
\* brief. This is what format_recall_brief promises the model that reads it.
THEOREM EvidenceIsKept == BriefSpec => []EarlierEvidenceKept
<1>1. BriefSpec => []BriefInv
  BY InitBriefInv, BriefNextKeepsInv, PTL DEF BriefSpec
<1> QED BY <1>1, EvidenceBeforeCut, PTL

-----------------------------------------------------------------------------
(* Quotients, and the parts of a year                                      *)

\* What a quotient and a remainder are, when one knows them.
LEMMA QuotientIs ==
  ASSUME NEW x \in Int, NEW b \in Nat \ {0}, NEW q \in Int, b * q <= x, x < b * q + b
  PROVE  x \div b = q
<1> DEFINE p == x \div b
<1>1. p \in Int /\ b * p <= x /\ x < b * p + b
  OBVIOUS
<1> HIDE DEF p
<1>2. ~(p > q)
  <2> SUFFICES ASSUME p >= q + 1 PROVE FALSE
    BY <1>1
  <2>1. b * p >= b * (q + 1)
    BY <1>1
  <2> QED BY <1>1, <2>1
<1>3. ~(p < q)
  <2> SUFFICES ASSUME q >= p + 1 PROVE FALSE
    BY <1>1
  <2>1. b * q >= b * (p + 1)
    BY <1>1
  <2> QED BY <1>1, <2>1
<1>4. p = q
  BY <1>1, <1>2, <1>3
<1> QED BY <1>4 DEF p

\* A remainder, when one knows it.
LEMMA RemainderIs ==
  ASSUME NEW b \in {4, 100, 400}, NEW q \in Int, NEW r \in 0 .. b - 1
  PROVE  (b * q + r) % b = r
<1>1. CASE b = 4
  BY <1>1
<1>2. CASE b = 100
  BY <1>2
<1>3. CASE b = 400
  BY <1>3
<1> QED BY <1>1, <1>2, <1>3

\* The era of a number is the number rounded down, also before the first era.
LEMMA EraIs ==
  ASSUME NEW size \in Nat \ {0}, NEW e \in Int, NEW r \in 0 .. size - 1
  PROVE  Era(e * size + r, size) = e
<1> DEFINE x == e * size + r
<1>1. x \in Int /\ size * e <= x /\ x < size * e + size
  OBVIOUS
<1> HIDE DEF x
<1>2. CASE x >= 0
  <2>1. x \div size = e
    BY <1>1, QuotientIs
  <2> QED BY <1>2, <2>1 DEF Era, Quotient, x
<1>3. CASE x < 0
  <2> DEFINE v == (size - 1) - x
  <2>1. v \in Int /\ size * (-e) <= v /\ v < size * (-e) + size /\ -e \in Int
    BY <1>1
  <2>2. v = -(x - (size - 1)) /\ x - (size - 1) < 0 /\ ~(x >= 0) /\ ~(x - (size - 1) >= 0)
    BY <1>1, <1>3
  <2> HIDE DEF v
  <2>3. v \div size = -e
    BY <2>1, QuotientIs
  <2>4. -(v \div size) = e
    BY <2>3
  <2>5. Era(x, size) = -(v \div size)
    BY <2>2 DEF Era, Quotient
  <2> QED BY <2>4, <2>5 DEF x
<1> QED BY <1>1, <1>2, <1>3

\* A year as its era, and its century, leap cycle and year in the cycle.
Parts(y, e, c, q, k) ==
  /\ y \in Int /\ e \in Int /\ c \in 0 .. 3 /\ q \in 0 .. 24 /\ k \in 0 .. 3
  /\ y = 400 * e + 100 * c + 4 * q + k

\* Every year has its parts.
LEMMA YearParts == ASSUME NEW y \in Int PROVE \E e, c, q, k : Parts(y, e, c, q, k)
<1> DEFINE e == y \div 400
           r == y - 400 * e
           c == r \div 100
           s == r - 100 * c
           q == s \div 4
<1>1. e \in Int /\ r \in 0 .. 399
  OBVIOUS
<1>2. c \in 0 .. 3 /\ s \in 0 .. 99
  <2> HIDE DEF r
  <2> QED BY <1>1
<1>3. q \in 0 .. 24 /\ s - 4 * q \in 0 .. 3
  <2> HIDE DEF s
  <2> QED BY <1>2
<1>4. y = 400 * e + r /\ r = 100 * c + s
  <2> HIDE DEF e, c
  <2> QED BY <1>1, <1>2
<1> HIDE DEF e, r, c, s, q
<1>5. Parts(y, e, c, q, s - 4 * q)
  BY <1>1, <1>2, <1>3, <1>4 DEF Parts
<1> QED BY <1>5

FebruaryOf(c, q, k) == IF k = 0 /\ (q # 0 \/ c = 0) THEN 29 ELSE 28

\* Leap years have their place in an era.
LEMMA LeapIs ==
  ASSUME NEW y, NEW e, NEW c, NEW q, NEW k, Parts(y, e, c, q, k)
  PROVE  /\ Leap(y) <=> k = 0 /\ (q # 0 \/ c = 0)
         /\ LastOfFebruary(y) = FebruaryOf(c, q, k)
<1> USE DEF Parts
<1>1. y % 4 = k
  <2>1. y = 4 * (100 * e + 25 * c + q) + k /\ 100 * e + 25 * c + q \in Int /\ k \in 0 .. 4 - 1
    OBVIOUS
  <2> QED BY <2>1, RemainderIs
<1>2. y % 100 = 4 * q + k
  <2>1. y = 100 * (4 * e + c) + (4 * q + k) /\ 4 * e + c \in Int /\ 4 * q + k \in 0 .. 100 - 1
    OBVIOUS
  <2> QED BY <2>1, RemainderIs
<1>3. y % 400 = 100 * c + 4 * q + k
  <2>1. y = 400 * e + (100 * c + 4 * q + k) /\ 100 * c + 4 * q + k \in 0 .. 400 - 1
    OBVIOUS
  <2> QED BY <2>1, RemainderIs
<1>4. Leap(y) <=> k = 0 /\ (q # 0 \/ c = 0)
  BY <1>1, <1>2, <1>3 DEF Leap
<1>5. LastOfFebruary(y) = FebruaryOf(c, q, k)
  BY <1>1, <1>2, <1>3 DEF LastOfFebruary, FebruaryOf
<1> QED BY <1>4, <1>5

\* The number of days before the March of a year, and before that of its parts.
March(y) == Era(y, 400) * 146097 + DaysBefore(y - Era(y, 400) * 400)

MarchOf(e, c, q, k) == 146097 * e + 36524 * c + 1461 * q + 365 * k

\* The days before the March of a year, counted by its parts.
LEMMA MarchIs ==
  ASSUME NEW y, NEW e, NEW c, NEW q, NEW k, Parts(y, e, c, q, k)
  PROVE  /\ Era(y, 400) = e
         /\ DaysBefore(100 * c + 4 * q + k) = 36524 * c + 1461 * q + 365 * k
         /\ March(y) = MarchOf(e, c, q, k)
<1> DEFINE r == 100 * c + 4 * q + k
<1>1. /\ y = e * 400 + r /\ r \in 0 .. 400 - 1 /\ y \in Int /\ e \in Int
      /\ c \in 0 .. 3 /\ q \in 0 .. 24 /\ k \in 0 .. 3
  BY DEF Parts
<1>2. r \div 4 = 25 * c + q
  <2>1. 25 * c + q \in Int /\ 4 * (25 * c + q) <= r /\ r < 4 * (25 * c + q) + 4
    BY <1>1
  <2> HIDE DEF r
  <2> QED BY <1>1, <2>1, QuotientIs
<1>3. r \div 100 = c
  <2>1. c \in Int /\ 100 * c <= r /\ r < 100 * c + 100
    BY <1>1
  <2> HIDE DEF r
  <2> QED BY <1>1, <2>1, QuotientIs
<1>4. DaysBefore(r) = r * 365 + (25 * c + q) - c
  <2> HIDE DEF r
  <2> QED BY <1>1, <1>2, <1>3 DEF DaysBefore, Quotient
<1>5. DaysBefore(r) = 36524 * c + 1461 * q + 365 * k
  BY <1>1, <1>4
<1> HIDE DEF r
<1>6. Era(y, 400) = e
  <2> DEFINE size == 400
  <2>1. size \in Nat \ {0} /\ r \in 0 .. size - 1 /\ y = e * size + r
    BY <1>1
  <2> HIDE DEF size
  <2>2. size \in Nat \ {0} /\ r \in 0 .. size - 1 /\ e \in Int
    BY <1>1, <2>1
  <2>3. Era(e * size + r, size) = e
    BY <2>2, EraIs, Zenon
  <2>4. Era(y, size) = e
    BY <2>1, <2>3
  <2> QED BY <2>4 DEF size
<1>7. y - Era(y, 400) * 400 = r
  BY <1>1, <1>6
<1>8. March(y) = e * 146097 + DaysBefore(r)
  BY <1>6, <1>7 DEF March
<1>9. March(y) = MarchOf(e, c, q, k)
  BY <1>1, <1>5, <1>8 DEF MarchOf
<1> QED BY <1>5, <1>6, <1>9 DEF r

\* From one March to the next.
LEMMA YearLength ==
  ASSUME NEW y \in Int
  PROVE  /\ March(y) \in Int
         /\ LastOfFebruary(y + 1) \in {28, 29}
         /\ March(y + 1) = March(y) + 337 + LastOfFebruary(y + 1)
<1>1. PICK e, c, q, k : Parts(y, e, c, q, k)
  BY YearParts
<1>2. March(y) = MarchOf(e, c, q, k)
  BY <1>1, MarchIs
<1>8. March(y) \in Int
  BY <1>1, <1>2 DEF Parts, MarchOf
<1>3. ASSUME NEW e2, NEW c2, NEW q2, NEW k2, Parts(y + 1, e2, c2, q2, k2),
             MarchOf(e2, c2, q2, k2) =
               MarchOf(e, c, q, k) + 337 + FebruaryOf(c2, q2, k2)
      PROVE  /\ LastOfFebruary(y + 1) \in {28, 29}
             /\ March(y + 1) = March(y) + 337 + LastOfFebruary(y + 1)
  <2>1. March(y + 1) = MarchOf(e2, c2, q2, k2)
    BY <1>3, MarchIs
  <2>2. LastOfFebruary(y + 1) = FebruaryOf(c2, q2, k2)
    BY <1>3, LeapIs
  <2> QED BY <1>2, <1>3, <2>1, <2>2 DEF FebruaryOf
<1>4. CASE k < 3
  <2>1. Parts(y + 1, e, c, q, k + 1)
    BY <1>1, <1>4 DEF Parts
  <2>2. MarchOf(e, c, q, k + 1) =
          MarchOf(e, c, q, k) + 337 + FebruaryOf(c, q, k + 1)
    BY <1>1 DEF Parts, MarchOf, FebruaryOf
  <2> QED BY <1>3, <1>8, <2>1, <2>2
<1>5. CASE k = 3 /\ q < 24
  <2>1. Parts(y + 1, e, c, q + 1, 0)
    BY <1>1, <1>5 DEF Parts
  <2>2. MarchOf(e, c, q + 1, 0) =
          MarchOf(e, c, q, k) + 337 + FebruaryOf(c, q + 1, 0)
    BY <1>1, <1>5 DEF Parts, MarchOf, FebruaryOf
  <2> QED BY <1>3, <1>8, <2>1, <2>2
<1>6. CASE k = 3 /\ q = 24 /\ c < 3
  <2>1. Parts(y + 1, e, c + 1, 0, 0)
    BY <1>1, <1>6 DEF Parts
  <2>2. MarchOf(e, c + 1, 0, 0) =
          MarchOf(e, c, q, k) + 337 + FebruaryOf(c + 1, 0, 0)
    BY <1>1, <1>6 DEF Parts, MarchOf, FebruaryOf
  <2> QED BY <1>3, <1>8, <2>1, <2>2
<1>7. CASE k = 3 /\ q = 24 /\ c = 3
  <2>1. Parts(y + 1, e + 1, 0, 0, 0)
    BY <1>1, <1>7 DEF Parts
  <2>2. MarchOf(e + 1, 0, 0, 0) =
          MarchOf(e, c, q, k) + 337 + FebruaryOf(0, 0, 0)
    BY <1>1, <1>7 DEF Parts, MarchOf, FebruaryOf
  <2> QED BY <1>3, <1>8, <2>1, <2>2
<1>9. CASE k = 3
  BY <1>1, <1>5, <1>6, <1>7, <1>9 DEF Parts
<1> QED BY <1>1, <1>4, <1>8, <1>9 DEF Parts

-----------------------------------------------------------------------------
(* Months                                                                  *)

\* The months of a year that begins in March, and the days before each.
MonthPrime(m) == IF m > 2 THEN m - 3 ELSE m + 9

Starts(m) == <<306, 337, 0, 31, 61, 92, 122, 153, 184, 214, 245, 275>>[m]

YearOf(y, m) == IF m <= 2 THEN y - 1 ELSE y

\* The formula for the days before a month gives the table.
LEMMA StartsIs ==
  ASSUME NEW m \in 1 .. 12
  PROVE  Starts(m) \in Nat /\ Quotient(153 * MonthPrime(m) + 2, 5) = Starts(m)
<1>1. /\ Starts(1) = 306 /\ Starts(2) = 337 /\ Starts(3) = 0 /\ Starts(4) = 31
      /\ Starts(5) = 61 /\ Starts(6) = 92 /\ Starts(7) = 122 /\ Starts(8) = 153
      /\ Starts(9) = 184 /\ Starts(10) = 214 /\ Starts(11) = 245 /\ Starts(12) = 275
  BY DEF Starts
<1>2. \/ m = 1 \/ m = 2 \/ m = 3 \/ m = 4 \/ m = 5 \/ m = 6
      \/ m = 7 \/ m = 8 \/ m = 9 \/ m = 10 \/ m = 11 \/ m = 12
  OBVIOUS
<1>3. Starts(m) \in Nat
  BY <1>1, <1>2
<1>4. (153 * MonthPrime(m) + 2) \div 5 = Starts(m) /\ 153 * MonthPrime(m) + 2 >= 0
  BY <1>1, <1>2 DEF MonthPrime
<1> QED BY <1>3, <1>4 DEF Quotient

\* A month ends where the next begins.
LEMMA MonthEnds ==
  ASSUME NEW y \in Int, NEW m \in 1 .. 12
  PROVE  /\ LengthOf(y, m) \in 28 .. 31
         /\ m = 2 => LengthOf(y, m) = LastOfFebruary(y)
         /\ m \in 1 .. 11 \ {2} => Starts(m + 1) = Starts(m) + LengthOf(y, m)
         /\ m = 12 => Starts(m) + LengthOf(y, m) = Starts(1)
<1>1. /\ Starts(1) = 306 /\ Starts(2) = 337 /\ Starts(3) = 0 /\ Starts(4) = 31
      /\ Starts(5) = 61 /\ Starts(6) = 92 /\ Starts(7) = 122 /\ Starts(8) = 153
      /\ Starts(9) = 184 /\ Starts(10) = 214 /\ Starts(11) = 245 /\ Starts(12) = 275
  BY DEF Starts
<1>2. /\ LengthOf(y, 1) = 31 /\ LengthOf(y, 3) = 31 /\ LengthOf(y, 4) = 30
      /\ LengthOf(y, 5) = 31 /\ LengthOf(y, 6) = 30 /\ LengthOf(y, 7) = 31 /\ LengthOf(y, 8) = 31
      /\ LengthOf(y, 9) = 30 /\ LengthOf(y, 10) = 31 /\ LengthOf(y, 11) = 30 /\ LengthOf(y, 12) = 31
  BY DEF LengthOf
<1>3. LengthOf(y, 2) = LastOfFebruary(y) /\ LastOfFebruary(y) \in 28 .. 31
  BY DEF LengthOf, LastOfFebruary
<1>4. \/ m = 1 \/ m = 2 \/ m = 3 \/ m = 4 \/ m = 5 \/ m = 6
      \/ m = 7 \/ m = 8 \/ m = 9 \/ m = 10 \/ m = 11 \/ m = 12
  OBVIOUS
<1> QED BY <1>1, <1>2, <1>3, <1>4

\* A date of the calendar.
ValidDate(d) ==
  /\ d \in [year : Int, month : 1 .. 12, day : Nat]
  /\ d.day >= 1 /\ d.day <= LengthOf(d.year, d.month)

\* A hint counts from the March before it.
LEMMA HintIs ==
  ASSUME NEW d \in [year : Int, month : 1 .. 12, day : Nat]
  PROVE  DayOfHint(d) = March(YearOf(d.year, d.month)) + Starts(d.month) + d.day - 719469
<1> DEFINE y == YearOf(d.year, d.month)
           mp == MonthPrime(d.month)
<1>1. /\ d.month \in 1 .. 12 /\ d.day \in Nat /\ d.year \in Int /\ y \in Int /\ mp \in Int
      /\ Era(y, 400) \in Int /\ DaysBefore(y - Era(y, 400) * 400) \in Int
  <2>1. d.month \in 1 .. 12 /\ d.day \in Nat /\ d.year \in Int
    OBVIOUS
  <2>2. y \in Int /\ mp \in Int
    BY <2>1 DEF YearOf, MonthPrime
  <2> HIDE DEF y
  <2>3. PICK e, c, q, k : Parts(y, e, c, q, k)
    BY <2>2, YearParts
  <2>4. Era(y, 400) = e /\ DaysBefore(100 * c + 4 * q + k) = 36524 * c + 1461 * q + 365 * k
    BY <2>3, MarchIs
  <2>5. y - Era(y, 400) * 400 = 100 * c + 4 * q + k
    BY <2>3, <2>4 DEF Parts
  <2>6. DaysBefore(y - Era(y, 400) * 400) \in Int
    BY <2>3, <2>4, <2>5 DEF Parts
  <2> QED BY <2>1, <2>2, <2>3, <2>4, <2>6 DEF Parts
<1>2. Starts(d.month) \in Nat /\ Quotient(153 * mp + 2, 5) = Starts(d.month)
  BY <1>1, StartsIs
<1>3. /\ d.year - (IF d.month <= 2 THEN 1 ELSE 0) = y
      /\ d.month + (IF d.month > 2 THEN -3 ELSE 9) = mp
  BY <1>1 DEF YearOf, MonthPrime
<1>4. DayOfHint(d) = (Era(y, 400) * 146097 + (DaysBefore(y - Era(y, 400) * 400)
                       + ((Quotient(153 * mp + 2, 5) + d.day) - 1))) - 719468
  <2> HIDE DEF y, mp
  <2> QED BY <1>3 DEF DayOfHint
<1> HIDE DEF y, mp
<1>5. DayOfHint(d) = March(y) + Starts(d.month) + d.day - 719469
  BY <1>1, <1>2, <1>4 DEF March
<1> QED BY <1>5 DEF y

\* The day after a date of the calendar is one, and its number is the next.
LEMMA TomorrowIs ==
  ASSUME NEW d, ValidDate(d)
  PROVE  ValidDate(Tomorrow(d)) /\ DayOfHint(Tomorrow(d)) = DayOfHint(d) + 1
<1> DEFINE y == d.year
           m == d.month
           t == Tomorrow(d)
<1>1. /\ d \in [year : Int, month : 1 .. 12, day : Nat] /\ y \in Int /\ m \in 1 .. 12
      /\ d.day \in Nat /\ d.day >= 1 /\ d.day <= LengthOf(y, m) /\ LengthOf(y, m) \in 28 .. 31
  BY MonthEnds DEF ValidDate
<1>2. /\ DayOfHint(d) = March(YearOf(y, m)) + Starts(m) + d.day - 719469
      /\ YearOf(y, m) \in Int /\ March(YearOf(y, m)) \in Int /\ Starts(m) \in Nat
  <2>1. YearOf(y, m) \in Int
    BY <1>1 DEF YearOf
  <2> QED BY <1>1, <2>1, HintIs, YearLength, StartsIs
<1>3. CASE d.day < LengthOf(y, m)
  <2>1. t = [d EXCEPT !.day = @ + 1]
    BY <1>3 DEF Tomorrow
  <2>2. t.year = y /\ t.month = m /\ t.day = d.day + 1 /\ t \in [year : Int, month : 1 .. 12, day : Nat]
    BY <1>1, <2>1
  <2> HIDE DEF t
  <2>3. DayOfHint(t) = March(YearOf(y, m)) + Starts(m) + (d.day + 1) - 719469
    BY <2>2, HintIs
  <2>4. ValidDate(t)
    BY <1>1, <1>3, <2>2 DEF ValidDate
  <2> HIDE DEF y, m
  <2>5. DayOfHint(t) = DayOfHint(d) + 1
    BY <1>1, <1>2, <2>3
  <2> QED BY <2>4, <2>5 DEF t
\* What is left to show of a step to the first day of a month.
<1>4. ASSUME NEW y2 \in Int, NEW m2 \in 1 .. 12, t = Date(y2, m2, 1), d.day = LengthOf(y, m),
             March(YearOf(y2, m2)) + Starts(m2) = March(YearOf(y, m)) + Starts(m) + LengthOf(y, m)
      PROVE  ValidDate(t) /\ DayOfHint(t) = DayOfHint(d) + 1
  <2> HIDE DEF t
  <2>1. t.year = y2 /\ t.month = m2 /\ t.day = 1 /\ t \in [year : Int, month : 1 .. 12, day : Nat]
    BY <1>4 DEF Date
  <2>2. LengthOf(y2, m2) \in 28 .. 31
    BY MonthEnds
  <2>3. ValidDate(t)
    BY <2>1, <2>2 DEF ValidDate
  <2>4. DayOfHint(t) = March(YearOf(y2, m2)) + Starts(m2) + 1 - 719469
    BY <2>1, HintIs
  <2>5. March(YearOf(y2, m2)) \in Int /\ Starts(m2) \in Nat
    <3>1. YearOf(y2, m2) \in Int
      BY DEF YearOf
    <3> QED BY <3>1, YearLength, StartsIs
  <2> HIDE DEF y, m
  <2>6. DayOfHint(t) = DayOfHint(d) + 1
    BY <1>1, <1>2, <1>4, <2>4, <2>5
  <2> QED BY <2>3, <2>6
<1>5. CASE d.day = LengthOf(y, m) /\ m = 12
  <2>1. t = Date(y + 1, 1, 1)
    BY <1>1, <1>5 DEF Tomorrow
  <2>2. YearOf(y + 1, 1) = y /\ YearOf(y, m) = y
    BY <1>1, <1>5 DEF YearOf
  <2>3. Starts(1) = Starts(m) + LengthOf(y, m)
    BY <1>1, <1>5, MonthEnds
  <2>4. March(YearOf(y + 1, 1)) + Starts(1) = March(YearOf(y, m)) + Starts(m) + LengthOf(y, m)
    <3> HIDE DEF y, m
    <3> QED BY <1>1, <1>2, <2>2, <2>3
  <2> QED BY <1>1, <1>4, <1>5, <2>1, <2>4
<1>6. CASE d.day = LengthOf(y, m) /\ m # 12
  <2>1. t = Date(y, m + 1, 1) /\ m + 1 \in 1 .. 12
    BY <1>1, <1>6 DEF Tomorrow
  <2>2. CASE m # 2
    <3>1. YearOf(y, m + 1) = YearOf(y, m)
      BY <1>1, <1>6, <2>2 DEF YearOf
    <3>2. Starts(m + 1) = Starts(m) + LengthOf(y, m)
      BY <1>1, <1>6, <2>2, MonthEnds
    <3>3. March(YearOf(y, m + 1)) + Starts(m + 1) = March(YearOf(y, m)) + Starts(m) + LengthOf(y, m)
      <4> HIDE DEF y, m
      <4> QED BY <1>1, <1>2, <3>1, <3>2
    <3> QED BY <1>1, <1>4, <1>6, <2>1, <3>3
  <2>3. CASE m = 2
    <3>1. YearOf(y, m + 1) = y /\ YearOf(y, m) = y - 1 /\ y - 1 \in Int /\ (y - 1) + 1 = y
      BY <1>1, <2>3 DEF YearOf
    <3>2. March(y) = March(y - 1) + 337 + LengthOf(y, m)
      BY <1>1, <2>3, <3>1, YearLength, MonthEnds
    <3>3. Starts(m) = 337 /\ Starts(m + 1) = 0
      BY <2>3 DEF Starts
    <3>4. March(YearOf(y, m + 1)) + Starts(m + 1) = March(YearOf(y, m)) + Starts(m) + LengthOf(y, m)
      <4> HIDE DEF y, m
      <4> QED BY <1>1, <1>2, <3>1, <3>2, <3>3
    <3> QED BY <1>1, <1>4, <1>6, <2>1, <3>4
  <2> QED BY <2>2, <2>3
<1>7. \/ d.day < LengthOf(y, m) \/ d.day = LengthOf(y, m)
  BY <1>1
<1> QED BY <1>3, <1>5, <1>6, <1>7

-----------------------------------------------------------------------------
(* From days to dates                                                      *)

\* Day d of an era is day n of the year with these parts; only a leap year has a
\* day 365.
DayParts(d, c, q, k, n) ==
  /\ c \in 0 .. 3 /\ q \in 0 .. 24 /\ k \in 0 .. 3 /\ n \in 0 .. 365
  /\ n = 365 => k = 3 /\ (q # 24 \/ c = 3)
  /\ d = 36524 * c + 1461 * q + 365 * k + n

\* The year of an era, found by dividing by the average lengths of years: the
\* last day of a leap year is in that year.
LEMMA YearOfEraIs ==
  ASSUME NEW d, NEW c, NEW q, NEW k, NEW n, DayParts(d, c, q, k, n)
  PROVE  d \in Nat /\ d <= 146096 /\ YearOfEra(d) = 100 * c + 4 * q + k
<1> DEFINE late == IF 24 * c + q + 365 * k + n >= 1460 THEN 1 ELSE 0
           last == IF d = 146096 THEN 1 ELSE 0
           cycles == 25 * c + q + late
           centuries == c + last
           rest == ((d - cycles) + centuries) - last
           r == 100 * c + 4 * q + k
<1>1. d \in Nat /\ d <= 146096
  BY DEF DayParts
<1>2. (late = 0 \/ late = 1) /\ (last = 0 \/ last = 1)
  OBVIOUS
<1>3. d \div 1460 = cycles
  <2>1. cycles \in Int /\ 1460 * cycles <= d /\ d < 1460 * cycles + 1460
    BY DEF DayParts
  <2> HIDE DEF cycles, late, last
  <2> QED BY <1>1, <2>1
<1>4. d \div 36524 = centuries
  <2>1. centuries \in Int /\ 36524 * centuries <= d /\ d < 36524 * centuries + 36524
    BY DEF DayParts
  <2> HIDE DEF centuries, late, last
  <2> QED BY <1>1, <2>1
<1>5. d \div 146096 = last
  <2>1. last \in Int /\ 146096 * last <= d /\ d < 146096 * last + 146096
    <3>1. CASE d = 146096
      BY <3>1
    <3>2. CASE d # 146096
      <4>1. last = 0
        BY <3>2
      <4> HIDE DEF last
      <4> QED BY <1>1, <3>2, <4>1
    <3> QED BY <3>1, <3>2
  <2> HIDE DEF last, late
  <2> QED BY <1>1, <2>1
<1>6. rest = 365 * r + (n - late) /\ n - late \in 0 .. 364 /\ r \in Int /\ rest \in Int /\ rest >= 0
  BY DEF DayParts
<1>7. rest \div 365 = r
  <2> HIDE DEF rest, r, late
  <2>1. 365 * r <= rest /\ rest < 365 * r + 365
    BY <1>2, <1>6
  <2> QED BY <1>6, <2>1
<1>8. YearOfEra(d) = Quotient(rest, 365)
  <2> HIDE DEF last, cycles, centuries
  <2>1. Quotient(d, 1460) = cycles
    BY <1>1, <1>3 DEF Quotient
  <2>2. Quotient(d, 36524) = centuries
    BY <1>1, <1>4 DEF Quotient
  <2>3. Quotient(d, 146096) = last
    BY <1>1, <1>5 DEF Quotient
  <2> QED BY <2>1, <2>2, <2>3 DEF YearOfEra
<1>9. YearOfEra(d) = r
  <2> HIDE DEF rest, r
  <2> QED BY <1>6, <1>7, <1>8 DEF Quotient
<1> HIDE DEF late, last, cycles, centuries, rest
<1> QED BY <1>1, <1>9

\* Day n of a year that begins in March is a day of month m of year y.
MonthDay(y, m, nth, n) ==
  y \in Int /\ m \in 1 .. 12 /\ nth \in 1 .. LengthOf(y, m) /\ n = Starts(m) + nth - 1

\* The month of a day of the year.
LEMMA MonthPrimeIs ==
  ASSUME NEW y, NEW m, NEW nth, NEW n, MonthDay(y, m, nth, n)
  PROVE  /\ n \in 0 .. 365 /\ Quotient(5 * n + 2, 153) = MonthPrime(m)
         /\ n = 365 => m = 2 /\ LastOfFebruary(y) = 29
<1> USE DEF MonthDay
<1>1. /\ Starts(1) = 306 /\ Starts(2) = 337 /\ Starts(3) = 0 /\ Starts(4) = 31
      /\ Starts(5) = 61 /\ Starts(6) = 92 /\ Starts(7) = 122 /\ Starts(8) = 153
      /\ Starts(9) = 184 /\ Starts(10) = 214 /\ Starts(11) = 245 /\ Starts(12) = 275
  BY DEF Starts
<1>2. /\ LengthOf(y, 1) = 31 /\ LengthOf(y, 3) = 31 /\ LengthOf(y, 4) = 30
      /\ LengthOf(y, 5) = 31 /\ LengthOf(y, 6) = 30 /\ LengthOf(y, 7) = 31 /\ LengthOf(y, 8) = 31
      /\ LengthOf(y, 9) = 30 /\ LengthOf(y, 10) = 31 /\ LengthOf(y, 11) = 30 /\ LengthOf(y, 12) = 31
  BY DEF LengthOf
<1>3. LengthOf(y, 2) = LastOfFebruary(y) /\ LastOfFebruary(y) \in 28 .. 29
  BY DEF LengthOf, LastOfFebruary
<1>4. \/ m = 1 \/ m = 2 \/ m = 3 \/ m = 4 \/ m = 5 \/ m = 6
      \/ m = 7 \/ m = 8 \/ m = 9 \/ m = 10 \/ m = 11 \/ m = 12
  OBVIOUS
<1>5. nth \in Int /\ nth >= 1 /\ nth <= LengthOf(y, m) /\ Starts(m) \in Nat /\ LengthOf(y, m) \in 28 .. 31
  BY MonthEnds, StartsIs
<1>6. n \in 0 .. 365
  BY <1>1, <1>2, <1>3, <1>4, <1>5
<1>7. n = 365 => m = 2 /\ LastOfFebruary(y) = 29
  BY <1>1, <1>2, <1>3, <1>4, <1>5
<1>8. /\ MonthPrime(m) \in Int /\ 153 * MonthPrime(m) <= 5 * n + 2
      /\ 5 * n + 2 < 153 * MonthPrime(m) + 153
  BY <1>1, <1>2, <1>3, <1>4, <1>5 DEF MonthPrime
<1>9. Quotient(5 * n + 2, 153) = MonthPrime(m)
  <2>1. 5 * n + 2 \in Int /\ 5 * n + 2 >= 0
    BY <1>6
  <2>2. (5 * n + 2) \div 153 = MonthPrime(m)
    BY <1>8, <2>1, QuotientIs
  <2> QED BY <2>1, <2>2 DEF Quotient
<1> QED BY <1>6, <1>7, <1>9

\* The two formulas are inverses: the date of the day of a hint is the hint.
LEMMA DateOfHint ==
  ASSUME NEW date0, ValidDate(date0)
  PROVE  UtcDate(DayOfHint(date0)) = date0
<1> DEFINE y == date0.year
           m == date0.month
           nth == date0.day
           yr == YearOf(y, m)
           n == Starts(m) + nth - 1
           days == DayOfHint(date0)
<1>1. /\ date0 \in [year : Int, month : 1 .. 12, day : Nat] /\ y \in Int /\ m \in 1 .. 12
      /\ nth \in Nat /\ nth \in 1 .. LengthOf(y, m) /\ LengthOf(y, m) \in 28 .. 31
      /\ date0 = Date(y, m, nth) /\ Starts(m) \in Nat /\ yr \in Int
  <2>1. date0 \in [year : Int, month : 1 .. 12, day : Nat] /\ nth >= 1 /\ nth <= LengthOf(y, m)
    BY DEF ValidDate
  <2>2. y \in Int /\ m \in 1 .. 12 /\ nth \in Nat /\ date0 = Date(y, m, nth)
    BY <2>1 DEF Date
  <2>3. LengthOf(y, m) \in 28 .. 31 /\ Starts(m) \in Nat
    BY <2>2, MonthEnds, StartsIs
  <2>4. yr \in Int
    BY <2>2 DEF YearOf
  <2> HIDE DEF y, m, nth, yr
  <2> QED BY <2>1, <2>2, <2>3, <2>4
<1>2. days = March(yr) + Starts(m) + nth - 719469
  BY <1>1, HintIs
<1>3. PICK e, c, q, k : Parts(yr, e, c, q, k)
  BY <1>1, YearParts
<1> DEFINE r == 100 * c + 4 * q + k
           d == 36524 * c + 1461 * q + 365 * k + n
<1>4. /\ yr \in Int /\ e \in Int /\ c \in 0 .. 3 /\ q \in 0 .. 24 /\ k \in 0 .. 3
      /\ yr = 400 * e + r
  BY <1>3 DEF Parts
<1>5. /\ March(yr) = 146097 * e + 36524 * c + 1461 * q + 365 * k
      /\ DaysBefore(r) = 36524 * c + 1461 * q + 365 * k
  BY <1>3, MarchIs DEF MarchOf
<1>6. /\ n \in 0 .. 365 /\ Quotient(5 * n + 2, 153) = MonthPrime(m)
      /\ n = 365 => m = 2 /\ LastOfFebruary(y) = 29
  <2>1. MonthDay(y, m, nth, n)
    BY <1>1 DEF MonthDay
  <2> HIDE DEF y, m, nth, n
  <2> QED BY <2>1, MonthPrimeIs
<1>7. n = 365 => k = 3 /\ (q # 24 \/ c = 3)
  <2> SUFFICES ASSUME n = 365 PROVE k = 3 /\ (q # 24 \/ c = 3)
    OBVIOUS
  <2>1. m = 2 /\ y = yr + 1 /\ LastOfFebruary(y) = 29
    BY <1>1, <1>6 DEF YearOf
  <2>2. CASE k < 3
    <3>1. Parts(y, e, c, q, k + 1)
      BY <1>3, <2>1, <2>2 DEF Parts
    <3>2. LastOfFebruary(y) = FebruaryOf(c, q, k + 1)
      BY <3>1, LeapIs
    <3> QED BY <1>4, <2>1, <3>2 DEF FebruaryOf
  <2>3. CASE k = 3 /\ q = 24 /\ c < 3
    <3>1. Parts(y, e, c + 1, 0, 0)
      BY <1>3, <2>1, <2>3 DEF Parts
    <3>2. LastOfFebruary(y) = FebruaryOf(c + 1, 0, 0)
      BY <3>1, LeapIs
    <3> QED BY <1>4, <2>1, <3>2 DEF FebruaryOf
  <2> QED BY <1>4, <2>2, <2>3
<1>8. d \in Nat /\ d <= 146096 /\ YearOfEra(d) = r
  <2>1. d = 36524 * c + 1461 * q + 365 * k + n
    OBVIOUS
  <2> HIDE DEF d, n
  <2>2. DayParts(d, c, q, k, n)
    BY <1>4, <1>6, <1>7, <2>1 DEF DayParts
  <2> QED BY <2>2, YearOfEraIs
<1>9. days + 719468 = e * 146097 + d
  <2> HIDE DEF days, yr, m, nth
  <2> QED BY <1>1, <1>2, <1>4, <1>5
<1>10. Era(days + 719468, 146097) = e
  <2> HIDE DEF days, d
  <2> DEFINE size == 146097
  <2>1. size \in Nat \ {0} /\ d <= size - 1 /\ size - 1 \in Int /\ days + 719468 = e * size + d
    BY <1>8, <1>9
  <2> HIDE DEF size
  <2>2. size \in Nat \ {0} /\ d \in 0 .. size - 1 /\ e \in Int
    BY <1>4, <1>8, <2>1
  <2>3. Era(e * size + d, size) = e
    BY <2>2, EraIs, Zenon
  <2>4. Era(days + 719468, size) = e
    BY <2>1, <2>3
  <2> QED BY <2>4 DEF size
<1>11. (days + 719468) - e * 146097 = d
  <2> HIDE DEF days, d
  <2> QED BY <1>4, <1>8, <1>9
<1>12. d - DaysBefore(r) = n
  <2> HIDE DEF n
  <2> QED BY <1>4, <1>5, <1>6
<1> DEFINE mp == MonthPrime(m)
           month == mp + (IF mp < 10 THEN 3 ELSE -9)
<1>13. month = m /\ Quotient(153 * mp + 2, 5) = Starts(m)
  <2>1. month = m
    BY <1>1 DEF MonthPrime
  <2> QED BY <1>1, <2>1, StartsIs
<1>14. UtcDate(days) = Date((r + e * 400) + (IF month <= 2 THEN 1 ELSE 0), month,
                            (n - Quotient(153 * mp + 2, 5)) + 1)
  <2> HIDE DEF days, d, r, n
  <2> QED BY <1>6, <1>8, <1>10, <1>11, <1>12 DEF UtcDate
<1>15. (r + e * 400) + (IF m <= 2 THEN 1 ELSE 0) = y /\ (n - Starts(m)) + 1 = nth
  <2>1. yr = IF m <= 2 THEN y - 1 ELSE y
    BY DEF YearOf
  <2> HIDE DEF yr, r, m, y, nth
  <2>2. r = yr - 400 * e /\ r \in Int
    BY <1>4 DEF r
  <2> QED BY <1>1, <1>4, <2>1, <2>2
<1>16. UtcDate(days) = Date(y, m, nth)
  <2> HIDE DEF days, month, mp, y, m, nth, r, n
  <2> QED BY <1>13, <1>14, <1>15
<1> QED BY <1>1, <1>16

-----------------------------------------------------------------------------
(* The walk                                                                *)

\* The number of a day is that of its date.
CalendarInv == ValidDate(date) /\ number = DayOfHint(date) /\ left \in Nat

\* The two days that walks begin at have the numbers that the formula gives.
LEMMA InitCalendarInv == CalendarInit => CalendarInv
<1> SUFFICES ASSUME NEW w \in Walks, number = w.number, date = w.date, left = w.days
             PROVE  CalendarInv
  BY DEF CalendarInit
<1>1. left \in Nat /\ \/ number = 0 /\ date = Date(1970, 1, 1)
                      \/ number = -719528 /\ date = Date(0, 1, 1)
  BY WalksOK
<1>2. ASSUME NEW y \in Int, NEW e, NEW c, NEW q, NEW k, Parts(y - 1, e, c, q, k)
      PROVE  /\ ValidDate(Date(y, 1, 1))
             /\ DayOfHint(Date(y, 1, 1)) = MarchOf(e, c, q, k) + 306 + 1 - 719469
  <2> DEFINE d == Date(y, 1, 1)
  <2>1. /\ d \in [year : Int, month : 1 .. 12, day : Nat]
        /\ d.year = y /\ d.month = 1 /\ d.day = 1
    BY DEF Date
  <2> HIDE DEF d
  <2>2. LengthOf(y, 1) \in 28 .. 31
    BY MonthEnds
  <2>3. ValidDate(d)
    BY <2>1, <2>2 DEF ValidDate
  <2>4. YearOf(y, 1) = y - 1 /\ Starts(1) = 306
    BY DEF YearOf, Starts
  <2>5. March(y - 1) = MarchOf(e, c, q, k)
    BY <1>2, MarchIs
  <2>6. DayOfHint(d) = MarchOf(e, c, q, k) + 306 + 1 - 719469
    BY <2>1, <2>4, <2>5, HintIs
  <2> QED BY <2>3, <2>6 DEF d
<1>3. CASE number = 0 /\ date = Date(1970, 1, 1)
  <2>1. Parts(1970 - 1, 4, 3, 17, 1)
    BY DEF Parts
  <2>2. MarchOf(4, 3, 17, 1) + 306 + 1 - 719469 = 0
    BY DEF MarchOf
  <2> QED BY <1>1, <1>2, <1>3, <2>1, <2>2 DEF CalendarInv
<1>4. CASE number = -719528 /\ date = Date(0, 1, 1)
  <2>1. Parts(0 - 1, -1, 3, 24, 3)
    BY DEF Parts
  <2>2. MarchOf(-1, 3, 24, 3) + 306 + 1 - 719469 = -719528
    BY DEF MarchOf
  <2> QED BY <1>1, <1>2, <1>4, <2>1, <2>2 DEF CalendarInv
<1> QED BY <1>1, <1>3, <1>4

\* A step of the walk keeps number and date together.
LEMMA CalendarStep == CalendarInv /\ [NextDay]_calendarVars => CalendarInv'
<1> SUFFICES ASSUME CalendarInv, [NextDay]_calendarVars PROVE CalendarInv'
  OBVIOUS
<1>1. CASE NextDay
  <2>1. number' = number + 1 /\ date' = Tomorrow(date) /\ left' \in Nat
    BY <1>1 DEF NextDay, CalendarInv
  <2>2. ValidDate(Tomorrow(date)) /\ DayOfHint(Tomorrow(date)) = DayOfHint(date) + 1
    BY TomorrowIs DEF CalendarInv
  <2> QED BY <2>1, <2>2 DEF CalendarInv
<1>2. CASE UNCHANGED calendarVars
  BY <1>2 DEF calendarVars, CalendarInv
<1> QED BY <1>1, <1>2

\* The days that the calendar's months have are those a hint is accepted for.
LEMMA AcceptedIs ==
  ASSUME NEW d \in [year : Int, month : 1 .. 12, day : Int]
  PROVE  Accepted(d) <=> d.day >= 1 /\ d.day <= LengthOf(d.year, d.month)
<1> DEFINE y == d.year
           m == d.month
<1>1. y \in Int /\ m \in 1 .. 12
  OBVIOUS
<1> HIDE DEF y, m
<1>2. MonthDays(y, m) = LengthOf(y, m)
  <2>1. CASE m = 2
    <3>1. PICK e, c, q, k : Parts(y, e, c, q, k)
      BY <1>1, YearParts
    <3>2. LastOfFebruary(y) = IF Leap(y) THEN 29 ELSE 28
      BY <3>1, LeapIs DEF FebruaryOf
    <3> QED BY <2>1, <3>2 DEF MonthDays, LengthOf
  <2>2. CASE m # 2
    <3>1. \/ m = 1 \/ m = 3 \/ m = 4 \/ m = 5 \/ m = 6
          \/ m = 7 \/ m = 8 \/ m = 9 \/ m = 10 \/ m = 11 \/ m = 12
      BY <1>1, <2>2
    <3>2. LengthOf(y, m) = IF m \in {4, 6, 9, 11} THEN 30 ELSE 31
      BY <3>1 DEF LengthOf
    <3> QED BY <2>2, <3>2 DEF MonthDays
  <2> QED BY <2>1, <2>2
<1> QED BY <1>1, <1>2 DEF Accepted, y, m

\* For a walk of any length, so for every date from the year 0 on: the day of a hint
\* is the number of days from the epoch, a hint of no date is not accepted, and from
\* the epoch on the date the brief prints is that of the day
\* (utc_date_from_unix_ms, parse_recall_date_hint).
THEOREM DatesAreRight == CalendarSpec => []DatesAgree
<1>1. CalendarInv => DatesAgree
  <2> SUFFICES ASSUME CalendarInv PROVE DatesAgree
    OBVIOUS
  <2>1. /\ ValidDate(date) /\ number = DayOfHint(date)
        /\ date \in [year : Int, month : 1 .. 12, day : Nat]
        /\ date.day >= 1 /\ date.day <= LengthOf(date.year, date.month)
    BY DEF CalendarInv, ValidDate
  <2>2. BriefDateRight
    BY <2>1, DateOfHint DEF BriefDateRight
  <2>3. HintDayRight
    BY <2>1, AcceptedIs DEF HintDayRight
  <2>4. NoSuchDay
    <3> SUFFICES ASSUME NEW n \in {0} \cup (LengthOf(date.year, date.month) + 1) .. 32
                 PROVE  ~Accepted([date EXCEPT !.day = n])
      BY DEF NoSuchDay
    <3> DEFINE d == [date EXCEPT !.day = n]
               last == LengthOf(date.year, date.month)
    <3>1. last \in 28 .. 31
      BY <2>1, MonthEnds
    <3>2. n \in Int /\ (n = 0 \/ n >= last + 1)
      <4> HIDE DEF last
      <4> QED BY <3>1 DEF last
    <3>3. /\ d \in [year : Int, month : 1 .. 12, day : Int]
          /\ d.year = date.year /\ d.month = date.month /\ d.day = n
      BY <2>1, <3>2
    <3> HIDE DEF d
    <3>4. Accepted(d) <=> n >= 1 /\ n <= last
      BY <3>3, AcceptedIs
    <3> HIDE DEF last
    <3> QED BY <3>1, <3>2, <3>4 DEF d
  <2> QED BY <2>2, <2>3, <2>4 DEF DatesAgree
<1> QED BY <1>1, InitCalendarInv, CalendarStep, PTL DEF CalendarSpec

=============================================================================
