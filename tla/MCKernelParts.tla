---------------------------- MODULE MCKernelParts ----------------------------
(***************************************************************************)
(* The smaller parts of the kernel, for TLC: the loops that cut texts and  *)
(* count days, and the activation of memories in a small store. They share *)
(* no state: every initial state is one for one of them, and the others    *)
(* have come to their end or stay where they begin.                        *)
(***************************************************************************)
EXTENDS Redaction, JournalContext, RecallBrief, Calendar, MemoryActivation, TLC

CONSTANTS s1, k1, d1, o1, o2, o3

VARIABLE part

\* A whole cycle of the calendar, and some years from the year 0 on.
AllWalks ==
  {[number |-> 0, date |-> Date(1970, 1, 1), days |-> 146097],
   [number |-> -719528, date |-> Date(0, 1, 1), days |-> 1827]}

OneDay == [t \in {1, 2} |-> d1]

Says(kind) == [claim |-> <<kind, "t">>, evidence |-> {<<s1, k1>>}]

\* One claim, and an open loop beside the commitment it falls together with.
HotProposals ==
  {[title |-> "x", claims |-> {Says("commitment")}],
   [title |-> "y", claims |-> {Says("commitment"), Says("open_loop")}]}

OpSymmetry == Permutations(OpIds)

-----------------------------------------------------------------------------
RedactEnded ==
  /\ matches = {} /\ todo = {} /\ cursor = 0 /\ spans = <<>>
  /\ copied = Slice(0, Size) /\ at = 0 /\ next = 1 /\ pc = "done"

ContextEnded == day = <<>> /\ shown = <<>> /\ turn = 1 /\ flag = FALSE /\ phase = "done"

BriefEnded == depth = "glance" /\ found = <<>> /\ length = 11 /\ ends = <<>> /\ step = "done"

CalendarEnded == number = 0 /\ date = Date(1970, 1, 1) /\ left = 0

PartsInit ==
  /\ part \in {"redact", "context", "brief", "calendar", "activation"}
  /\ IF part = "redact" THEN RedactInit ELSE RedactEnded
  /\ IF part = "context" THEN ContextInit ELSE ContextEnded
  /\ IF part = "brief" THEN BriefInit ELSE BriefEnded
  /\ IF part = "calendar" THEN CalendarInit ELSE CalendarEnded
  /\ HotInit

PartsNext ==
  /\ UNCHANGED part
  /\ \/ part = "redact" /\ RedactNext /\ UNCHANGED <<contextVars, briefVars, calendarVars, allVars>>
     \/ part = "context" /\ ContextNext /\ UNCHANGED <<redactVars, briefVars, calendarVars, allVars>>
     \/ part = "brief" /\ BriefNext /\ UNCHANGED <<redactVars, contextVars, calendarVars, allVars>>
     \/ part = "calendar" /\ NextDay /\ UNCHANGED <<redactVars, contextVars, briefVars, allVars>>
     \/ part = "activation" /\ HotNext
          /\ UNCHANGED <<redactVars, contextVars, briefVars, calendarVars>>

PartsVars == <<part, redactVars, contextVars, briefVars, calendarVars, allVars>>

PartsSpec == PartsInit /\ [][PartsNext]_PartsVars

=============================================================================
