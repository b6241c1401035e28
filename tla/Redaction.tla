----------------------------- MODULE Redaction ------------------------------
(***************************************************************************)
(* redact: how the matches of several patterns, which may overlap, become  *)
(* spans, and how the text around the spans is copied. What the patterns   *)
(* match is any set of intervals of the text: a match covers the positions *)
(* from start up to but not including end.                                 *)
(***************************************************************************)
EXTENDS Naturals, Sequences

CONSTANTS
  Size,        \* the number of positions of the text
  Priorities,  \* the priorities of the patterns
  MaxMatches   \* bound on the matches of a text

Match == {m \in [start : 0 .. Size, end : 0 .. Size, priority : Priorities] :
            m.start <= m.end}

ASSUME RedactionOK ==
  /\ Size \in Nat
  /\ Priorities \subseteq Nat
  /\ MaxMatches \in Nat

VARIABLES
  matches,  \* all matches
  todo,     \* the matches the loop has not looked at
  cursor,   \* where the last span ends
  spans,    \* the matches that were selected
  copied,   \* the positions copied to the result, in order
  at,       \* byte_cursor: where copying goes on
  next,     \* the span that is replaced next
  pc        \* "select", "copy", "done"

redactVars == <<matches, todo, cursor, spans, copied, at, next, pc>>

-----------------------------------------------------------------------------
\* The order of the matches: where they begin, then priority, then the longest.
Before(x, y) ==
  \/ x.start < y.start
  \/ x.start = y.start /\ x.priority < y.priority
  \/ x.start = y.start /\ x.priority = y.priority /\ x.end > y.end

\* Fault: a match that touches the last span is passed over.
FreeBeyond(m) == m.start > cursor /\ m.start < m.end

\* A match that begins inside the last span is passed over.
Free(m) == m.start >= cursor /\ m.start < m.end

\* Positions from i up to but not including j; a slice needs i <= j.
Slice(i, j) == [k \in 1 .. j - i |-> i + k - 1]

RedactInit ==
  /\ \E n \in 0 .. MaxMatches : \E found \in [1 .. n -> Match] :
       matches = {found[i] : i \in 1 .. n}
  /\ todo = matches
  /\ cursor = 0
  /\ spans = <<>>
  /\ copied = <<>>
  /\ at = 0
  /\ next = 1
  /\ pc = "select"

Select ==
  /\ pc = "select"
  /\ \E m \in todo :
       /\ \A x \in todo \ {m} : Before(m, x)
       /\ todo' = todo \ {m}
       /\ IF Free(m)
            THEN cursor' = m.end /\ spans' = Append(spans, m)
            ELSE UNCHANGED <<cursor, spans>>
  /\ UNCHANGED <<matches, copied, at, next, pc>>

Selected ==
  /\ pc = "select"
  /\ todo = {}
  /\ pc' = "copy"
  /\ UNCHANGED <<matches, todo, cursor, spans, copied, at, next>>

\* Where copying goes on after a span.
After(m) == m.end

\* The text before a span is copied, a mark stands for the span.
Replace ==
  /\ pc = "copy"
  /\ next <= Len(spans)
  /\ copied' = copied \o Slice(at, spans[next].start)
  /\ at' = After(spans[next])
  /\ next' = next + 1
  /\ UNCHANGED <<matches, todo, cursor, spans, pc>>

CopyRest ==
  /\ pc = "copy"
  /\ next > Len(spans)
  /\ copied' = copied \o Slice(at, Size)
  /\ pc' = "done"
  /\ UNCHANGED <<matches, todo, cursor, spans, at, next>>

RedactNext == Select \/ Selected \/ Replace \/ CopyRest

RedactSpec == RedactInit /\ [][RedactNext]_redactVars

-----------------------------------------------------------------------------
(* Properties                                                              *)

Inside(i, m) == m.start <= i /\ i < m.end

\* The spans come one after the other and never overlap, so no slice of the
\* text runs backwards and the offsets stored with the message are in order.
SpansInOrder ==
  /\ \A i \in 1 .. Len(spans) : spans[i].start < spans[i].end /\ spans[i].end <= cursor
  /\ \A i, j \in 1 .. Len(spans) : i < j => spans[i].end <= spans[j].start
  /\ next <= Len(spans) => at <= spans[next].start

Covered(p) == \E i \in 1 .. Len(spans) : Inside(p, spans[i])

\* x comes before m in the order, reaches into it and ends before m does.
Crosses(x, m) == Before(x, m) /\ m.start < x.end /\ x.end < m.end

\* A match that no span crosses is covered whole. Of one that is crossed, all but
\* what lies behind the end of the span that crosses it.
OnlyTailsAreLeft ==
  \A m \in matches \ todo : \A p \in m.start .. m.end - 1 :
    Covered(p) \/ \E i \in 1 .. Len(spans) : Crosses(spans[i], m) /\ spans[i].end <= p

\* Where matches begin together, the span is one with the best priority, and
\* the longest of those.
BestChosen ==
  \A i \in 1 .. Len(spans) : \A m \in matches :
    m.start = spans[i].start /\ m.start < m.end =>
      /\ spans[i].priority <= m.priority
      /\ spans[i].priority = m.priority => m.end <= spans[i].end

SpansAreMatches == \A i \in 1 .. Len(spans) : spans[i] \in matches

\* The result holds every position outside the spans once, in order, and none
\* inside.
RestCopied ==
  pc = "done" =>
    /\ \A i, j \in 1 .. Len(copied) : i < j => copied[i] < copied[j]
    /\ \A p \in 0 .. Size - 1 :
         (\E i \in 1 .. Len(copied) : copied[i] = p) <=> ~Covered(p)

\* What redact does with any matches: only matched text goes, and a match goes whole
\* unless a better one that is replaced ends inside it. Then the tail of the match
\* stays, as NothingMatchedStays denies.
Redacted == SpansInOrder /\ SpansAreMatches /\ OnlyTailsAreLeft /\ BestChosen /\ RestCopied

\* "Native masking of sensitive fields" (README.md:36): nothing of a match is in the
\* result. The test of redact (redaction.rs:267) asserts, for a text in which no match
\* crosses another, that the result contains none of its secrets.
NothingMatchedStays ==
  pc = "done" => \A m \in matches : \A i \in 1 .. Len(copied) : ~Inside(copied[i], m)

=============================================================================
