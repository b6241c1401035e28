---------------------------- MODULE RecallBrief -----------------------------
(***************************************************************************)
(* The text of a recall's answer: a heading, a line for every item that    *)
(* the depth allows, cut at the limit of the depth. Only lengths are kept. *)
(* The plugin hands this text, and nothing else, to the model.             *)
(***************************************************************************)
EXTENDS Naturals, Sequences

CONSTANTS
  Statements,  \* lengths of stored statements
  KindWidths,  \* lengths of the names of kinds
  Evidences,   \* numbers of the evidence events of an item
  MaxFound     \* bound on the ranked candidates

RecallItem == [statement : Statements, kind : KindWidths, evidence : Evidences]

Depths == {"glance", "focused", "deep"}

ASSUME BriefOK ==
  /\ Statements \subseteq Nat
  /\ KindWidths \subseteq 0 .. 12  \* "relationship" is the longest
  /\ Evidences \subseteq Nat \ {0}
  /\ MaxFound \in Nat

VARIABLES
  depth,   \* the depth of the request
  found,   \* the ranked candidates, then the items still to be written
  length,  \* the length of the text
  ends,    \* of the items written, where the evidence ids end in the text
  step     \* "rank", "write", "done"

briefVars == <<depth, found, length, ends, step>>

-----------------------------------------------------------------------------
ItemLimit(d) == CASE d = "glance" -> 1 [] d = "focused" -> 2 [] d = "deep" -> 3

BriefLimit(d) == CASE d = "glance" -> 420 [] d = "focused" -> 620 [] d = "deep" -> 800

Least(x, y) == IF x <= y THEN x ELSE y

\* Fault: a statement is not shortened.
StatementUncut(n) == n

StatementShown(n) == Least(n, 260)

\* Eight characters of the first two ids, with a separator between them.
EvidenceWidth(n) == IF n = 1 THEN 8 ELSE 17

\* From the line break to the end of the ids: number, statement, date, kind,
\* confidence (two digits: it is at most 0.96), evidence.
LineWidth(item) ==
  4 + StatementShown(item.statement) + 14 + 4 + item.kind + 8 + 7 + EvidenceWidth(item.evidence)

BriefInit ==
  /\ depth \in Depths
  /\ \E n \in 1 .. MaxFound : found \in [1 .. n -> RecallItem]
  /\ length = 11
  /\ ends = <<>>
  /\ step = "rank"

\* candidates.truncate(item_limit)
KeepBest ==
  /\ step = "rank"
  /\ found' = SubSeq(found, 1, Least(Len(found), ItemLimit(depth)))
  /\ step' = "write"
  /\ UNCHANGED <<depth, length, ends>>

WriteLine ==
  /\ step = "write"
  /\ found # <<>>
  /\ found' = Tail(found)
  /\ ends' = Append(ends, length + LineWidth(Head(found)))
  /\ length' = length + LineWidth(Head(found)) + 1
  /\ UNCHANGED <<depth, step>>

CutBrief ==
  /\ step = "write"
  /\ found = <<>>
  /\ length' = Least(length, BriefLimit(depth))
  /\ step' = "done"
  /\ UNCHANGED <<depth, found, ends>>

BriefNext == KeepBest \/ WriteLine \/ CutBrief

BriefSpec == BriefInit /\ [][BriefNext]_briefVars

-----------------------------------------------------------------------------
(* Properties                                                              *)

\* The cut never takes the evidence of the first item, nor of any item but the
\* last the depth allows, however long the statements are.
EarlierEvidenceKept ==
  \A i \in 1 .. Len(ends) :
    i = 1 \/ i < ItemLimit(depth) => ends[i] <= BriefLimit(depth)

=============================================================================
