--------------------------- MODULE JournalContext ---------------------------
(***************************************************************************)
(* journal_context: the events of a day that the model reads, under a      *)
(* limit of events and a budget of characters, and the flags that tell the *)
(* model what was left out. An event is the length of its body. It runs    *)
(* with the mutex held, so the rows do not change meanwhile.               *)
(***************************************************************************)
EXTENDS Naturals, Sequences

CONSTANTS
  Lengths,       \* lengths of message bodies
  MaxEvents,     \* bound on the events of a day
  EventLimit,    \* JOURNAL_EVENT_LIMIT: 96
  ContentLimit,  \* JOURNAL_EVENT_CONTENT_LIMIT: 2000
  Budget         \* JOURNAL_CONTENT_BUDGET: 64000

ASSUME ContextOK ==
  /\ Lengths \subseteq Nat \ {0}
  /\ MaxEvents \in Nat
  /\ EventLimit \in Nat \ {0} /\ ContentLimit \in Nat \ {0} /\ Budget \in Nat
  /\ EventLimit <= Budget

VARIABLES
  day,    \* the active events of the day, by time and id
  shown,  \* the events read: how long each body still is, and its flag
  turn,   \* the event whose turn it is
  flag,   \* context_truncated
  phase   \* "query", "limit", "shorten", "done"

contextVars == <<day, shown, turn, flag, phase>>

-----------------------------------------------------------------------------
Shorter(x, y) == IF x <= y THEN x ELSE y

\* truncate_chars: what is left of a body and whether something is missing.
Cut(event, maximum) ==
  [length |-> Shorter(event.length, maximum),
   truncated |-> event.truncated \/ event.length > maximum]

\* Fault: the query asks for no event more than the limit.
RowsAtLimit == EventLimit

\* LIMIT 97: one more than is shown, to see that there are more.
RowsRead == EventLimit + 1

\* per_event_budget
Share(n) == IF n = 0 THEN 0 ELSE Shorter(Budget \div n, ContentLimit)

ContextInit ==
  /\ \E n \in 0 .. MaxEvents : day \in [1 .. n -> Lengths]
  /\ shown = <<>>
  /\ turn = 1
  /\ flag = FALSE
  /\ phase = "query"

\* The rows in order, each body cut at the limit of one event.
ReadRows ==
  /\ phase = "query"
  /\ shown' = [i \in 1 .. Shorter(Len(day), RowsRead) |->
                 Cut([length |-> day[i], truncated |-> FALSE], ContentLimit)]
  /\ phase' = "limit"
  /\ UNCHANGED <<day, turn, flag>>

LimitEvents ==
  /\ phase = "limit"
  /\ flag' = (Len(shown) > EventLimit)
  /\ shown' = SubSeq(shown, 1, Shorter(Len(shown), EventLimit))
  /\ phase' = "shorten"
  /\ UNCHANGED <<day, turn>>

\* Each event shares the budget; its flag goes into that of the context.
ShortenEvent ==
  /\ phase = "shorten"
  /\ turn <= Len(shown)
  /\ shown' = [shown EXCEPT ![turn] = Cut(@, Share(Len(shown)))]
  /\ flag' = (flag \/ Cut(shown[turn], Share(Len(shown))).truncated)
  /\ turn' = turn + 1
  /\ UNCHANGED <<day, phase>>

Answer ==
  /\ phase = "shorten"
  /\ turn > Len(shown)
  /\ phase' = "done"
  /\ UNCHANGED <<day, shown, turn, flag>>

ContextNext == ReadRows \/ LimitEvents \/ ShortenEvent \/ Answer

ContextSpec == ContextInit /\ [][ContextNext]_contextVars

-----------------------------------------------------------------------------
(* Properties                                                              *)

\* The context says that it was truncated exactly when an event or a part of
\* one is missing from it, after two cuts and two limits; so does each event.
FlagExact ==
  phase = "done" =>
    /\ \A i \in 1 .. Len(shown) : shown[i].truncated <=> shown[i].length # day[i]
    /\ flag <=> Len(shown) # Len(day) \/ \E i \in 1 .. Len(shown) : shown[i].length # day[i]

\* The bodies together never exceed the budget: none is longer than an equal
\* share. And none is cut to nothing.
BudgetKept ==
  phase = "done" =>
    \A i \in 1 .. Len(shown) :
      /\ shown[i].length * Len(shown) <= Budget
      /\ shown[i].length > 0

\* The model reads no more than the budget and knows whether it reads all.
ContextHonest == FlagExact /\ BudgetKept

=============================================================================
