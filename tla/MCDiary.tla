------------------------------- MODULE MCDiary -------------------------------
(***************************************************************************)
(* Small instances of Diary for TLC.                                       *)
(***************************************************************************)
EXTENDS Diary, TLC

CONSTANTS s1, k1, k2, d1, d2, o1, r1, r2, r3

\* Every time is on the first day.
DayOne == [t \in Times |-> d1]

OneDue == <<d1>>

TwoDue == <<d1, d2>>

Says(evidence) == [claim |-> <<"fact", "t">>, evidence |-> evidence]

\* Two texts for a day. The second cites an event that retention may erase.
DiaryProposals ==
  {[title |-> "x", claims |-> {}],
   [title |-> "y", claims |-> {Says({<<s1, k1>>})}]}

OneProposal == {[title |-> "x", claims |-> {}]}

RunSymmetry == Permutations(Runs)

=============================================================================
