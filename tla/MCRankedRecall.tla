--------------------------- MODULE MCRankedRecall ---------------------------
(***************************************************************************)
(* Small instances of RankedRecall for TLC.                                *)
(***************************************************************************)
EXTENDS RankedRecall, TLC

CONSTANTS s1, k1, k2, d1, d2, o1, c1, c2

E1 == <<s1, k1>>
E2 == <<s1, k2>>

TwoDays == [t \in {1, 2} |-> IF t = 1 THEN d1 ELSE d2]

DayOrder == [d \in {d1, d2} |-> IF d = d1 THEN 1 ELSE 2]

KeyOrder == [e \in Event |-> IF e[2] = k1 THEN 1 ELSE 2]

\* The zone of the journals is ahead of UTC: the first message of the second
\* day is still on the first in UTC.
UtcDays == [t \in {1, 2} |-> d1]

Says(kind, text, evidence) == [claim |-> <<kind, text>>, evidence |-> evidence]

Write(title, claims) == [title |-> title, claims |-> claims]

\* The cue c1 is found in both texts, c2 in one of them, in a title and in an
\* event id.
CueTable ==
  [c \in {c1, c2} |->
    [titles |-> IF c = c1 THEN {} ELSE {"y"}, ids |-> IF c = c1 THEN {} ELSE {E2},
     texts |-> IF c = c1 THEN {"t", "u"} ELSE {"u"}]]

RankProposals ==
  {Write(title, {Says("fact", "t", {E1})}) : title \in {"x", "y"}}
    \cup {Write("x", {Says("fact", "u", {E2}), Says("decision", "u", {E2})}),
          Write("y", {Says("fact", "u", {E2}), Says("decision", "u", {E1, E2})})}

Ask(need, cues, hint, depth) == [need |-> need, cues |-> cues, hint |-> hint, depth |-> depth]

RankRequests ==
  {Ask("fact", {c1}, None, 1), Ask("fact", {c1, c2}, None, 1), Ask("fact", {c2}, d1, 2),
   Ask("decision", {c1}, None, 2), Ask("episode", {c2}, None, 2), Ask("episode", {c2}, d2, 1)}

=============================================================================
