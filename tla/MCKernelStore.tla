---------------------------- MODULE MCKernelStore ----------------------------
(***************************************************************************)
(* Small instances of KernelStore for TLC.                                 *)
(***************************************************************************)
EXTENDS KernelStore, TLC

CONSTANTS s1, s2, k1, k2, d1, d2, o1, o2

\* Two days with one time each.
TwoDays == [t \in {1, 2} |-> IF t = 1 THEN d1 ELSE d2]

OneDay == [t \in {1, 2} |-> d1]

Says(kind, evidence) == [claim |-> <<kind, "t">>, evidence |-> evidence]

Write(title, claims) == [title |-> title, claims |-> claims]

E1 == <<s1, k1>>
E2 == <<s1, k2>>
F1 == <<s2, k1>>

\* One scope: an open loop and a commitment of the same text are one memory.
JournalProposals ==
  {Write("x", {}),
   Write("x", {Says("commitment", {E1})}),
   Write("y", {Says("commitment", {E1})}),
   Write("x", {Says("commitment", {E2})}),
   Write("x", {Says("open_loop", {E1, E2})}),
   Write("x", {Says("commitment", {E1}), Says("open_loop", {E2})}),
   Write("x", {Says("commitment", {})})}

\* Two scopes: a proposal that cites the other scope's event is refused.
ScopeProposals ==
  {Write("x", {Says("fact", {E1})}),
   Write("x", {Says("fact", {F1})}),
   Write("x", {Says("fact", {E1, F1})})}

\* Operation ids are only compared. So are scopes, and ScopeProposals is closed
\* under their exchange; JournalProposals tells the keys apart.
OpSymmetry == Permutations(OpIds)

ScopeSymmetry == Permutations(Scopes) \cup Permutations(OpIds)

=============================================================================
