--------------------------- MODULE InspectorPage ----------------------------
(***************************************************************************)
(* The administrator's page: a list of scopes, and the records of the      *)
(* chosen scope and collection, both in pages of Limit. Every load asks    *)
(* the plugin and goes on when the answer comes; answers come in any order *)
(* or fail, and tickets tell which of them the page still waits for. What  *)
(* is searched for is left out, and the tables are taken as constant.      *)
(***************************************************************************)
EXTENDS Integers, Sequences, FiniteSets, SequencesExt

CONSTANTS
  Collections,  \* memories, journals, events, recalls
  ScopeRows,    \* the rows of scopes: what can be chosen, with their time
  Rows,         \* the rows of the tables: scope, collection, id and time
  Limit,        \* 20 rows make a page
  NoScope,      \* the value of an empty select
  MaxTickets    \* bound on the tickets of either kind

ASSUME PageOK ==
  /\ Limit \in Nat \ {0} /\ MaxTickets \in Nat
  /\ Collections # {}

\* Primary keys: an id is one row of a collection, and the empty text is no scope.
ASSUME RowsOK ==
  /\ IsFiniteSet(Rows) /\ IsFiniteSet(ScopeRows)
  /\ \A x \in Rows \cup ScopeRows : x.id \in Int /\ x.time \in Int
  /\ \A x, y \in Rows : x.scope = y.scope /\ x.collection = y.collection /\ x.id = y.id => x = y
  /\ \A x, y \in ScopeRows : x.id = y.id => x = y
  /\ \A x \in ScopeRows : x.id # NoScope

VARIABLE page

Nothing == [rows |-> <<>>, offset |-> -1]

-----------------------------------------------------------------------------
(* KernelStore::inspect: one query counts, the other takes a page of them.  *)

\* ORDER BY time_ms DESC, id
Later(x, y) == x.time > y.time \/ (x.time = y.time /\ x.id < y.id)

Place(rows, x) == Cardinality({y \in rows : Later(y, x)}) + 1

Sorted(rows) == [i \in 1 .. Cardinality(rows) |-> CHOOSE x \in rows : Place(rows, x) = i]

Limited(rows, offset) ==
  SubSeq(Sorted(rows), offset + 1, IF offset + Limit < Cardinality(rows) THEN offset + Limit ELSE Cardinality(rows))

Browse(rows, offset) == [items |-> Limited(rows, offset), total |-> Cardinality(rows), offset |-> offset]

Chosen(scope, collection) == {row \in Rows : row.scope = scope /\ row.collection = collection}

-----------------------------------------------------------------------------
(* The parts of the handlers between two awaits.                           *)

\* Only a refresh waits for the loads it made, in its finally.
Ends(u, r) == IF r.refresh THEN [u EXCEPT !.refresh = TRUE] ELSE u

Cleared(u) ==
  [u EXCEPT !.serial = @ + 1, !.records = Nothing, !.prev = FALSE, !.next = FALSE]

LoadRecords(u, ofRefresh) ==
  LET c == Cleared(u)
      r == [kind |-> "records", ticket |-> c.serial, refresh |-> ofRefresh,
            scope |-> c.scope, collection |-> c.collection, offset |-> c.offset, previous |-> NoScope]
  IN IF c.scope = NoScope THEN Ends(c, r) ELSE [c EXCEPT !.requests = @ \cup {r}]

LoadScopes(u, ofRefresh) ==
  LET c == [Cleared(u) EXCEPT !.scopeSerial = @ + 1, !.options = <<>>, !.scope = NoScope,
              !.canChoose = FALSE, !.scopePrev = FALSE, !.scopeNext = FALSE]
      r == [kind |-> "scopes", ticket |-> c.scopeSerial, refresh |-> ofRefresh,
            scope |-> NoScope, collection |-> "scopes", offset |-> c.scopeOffset, previous |-> u.scope]
  IN [c EXCEPT !.requests = @ \cup {r}]

Answered(r) == [page EXCEPT !.requests = @ \ {r}]

\* Fault: an answer is shown whenever it comes.
WantedAlways(r) == TRUE

\* The ticket is still the last one that was drawn.
Wanted(r) ==
  CASE r.kind = "records" -> r.ticket = page.serial
    [] r.kind = "scopes" -> r.ticket = page.scopeSerial
    [] r.kind = "status" -> TRUE

-----------------------------------------------------------------------------
PageInit ==
  page = [options |-> <<>>, scope |-> NoScope, canChoose |-> TRUE, scopeOffset |-> 0, scopeSerial |-> 0,
          scopePrev |-> FALSE, scopeNext |-> FALSE,
          collection |-> CHOOSE c \in Collections : TRUE, offset |-> 0, serial |-> 0,
          records |-> Nothing, prev |-> FALSE, next |-> FALSE, seen |-> {},
          refresh |-> TRUE, requests |-> {}]

CanLoad == page.serial < MaxTickets /\ page.scopeSerial < MaxTickets

ChooseScope(s) ==
  /\ CanLoad
  /\ page.canChoose /\ s # page.scope
  /\ \E i \in DOMAIN page.options : page.options[i] = s
  /\ page' = LoadRecords([page EXCEPT !.scope = s, !.offset = 0, !.seen = {}], FALSE)

ChooseCollection(c) ==
  /\ CanLoad
  /\ c # page.collection
  /\ page' = LoadRecords([page EXCEPT !.collection = c, !.offset = 0, !.seen = {}], FALSE)

\* Submitting the search, with the same text.
SearchRecords == CanLoad /\ page' = LoadRecords([page EXCEPT !.offset = 0, !.seen = {}], FALSE)

SearchScopes == CanLoad /\ page' = LoadScopes([page EXCEPT !.scopeOffset = 0], FALSE)

TurnPage ==
  /\ CanLoad
  /\ \/ page.prev /\ page' = LoadRecords([page EXCEPT !.offset = IF @ > Limit THEN @ - Limit ELSE 0], FALSE)
     \/ page.next /\ page' = LoadRecords([page EXCEPT !.offset = @ + Limit], FALSE)

TurnScopes ==
  /\ CanLoad
  /\ \/ page.scopePrev /\ page' = LoadScopes([page EXCEPT !.scopeOffset = IF @ > Limit THEN @ - Limit ELSE 0], FALSE)
     \/ page.scopeNext /\ page' = LoadScopes([page EXCEPT !.scopeOffset = @ + Limit], FALSE)

Refresh ==
  /\ CanLoad
  /\ page.refresh
  /\ LET c == [Cleared(page) EXCEPT !.refresh = FALSE, !.scopeSerial = @ + 1, !.options = <<>>, !.scope = NoScope]
         r == [kind |-> "status", ticket |-> 0, refresh |-> TRUE, scope |-> NoScope,
               collection |-> "status", offset |-> 0, previous |-> NoScope]
     IN page' = [c EXCEPT !.requests = @ \cup {r}]

Follows(offset, total) == offset + Limit < total

ShowRecords(r) ==
  LET result == Browse(Chosen(r.scope, r.collection), r.offset) IN
  /\ r.kind = "records" /\ Wanted(r)
  /\ page' = Ends([Answered(r) EXCEPT
       !.records = [rows |-> result.items, offset |-> r.offset, scope |-> r.scope, collection |-> r.collection],
       !.prev = page.offset # 0, !.next = Follows(page.offset, result.total),
       !.seen = @ \cup ToSet(result.items)], r)

\* The scope that was chosen before stays chosen when it is listed again; else the
\* select shows its first option.
ShowScopes(r) ==
  LET result  == Browse(ScopeRows, r.offset)
      options == [i \in DOMAIN result.items |-> result.items[i].id]
      scope   == IF options = <<>> THEN NoScope
                 ELSE IF r.previous \in ToSet(options) THEN r.previous ELSE Head(options)
  IN /\ r.kind = "scopes" /\ Wanted(r)
     /\ page' = LoadRecords([Answered(r) EXCEPT
          !.options = options, !.scope = scope, !.canChoose = options # <<>>,
          !.scopePrev = page.scopeOffset # 0, !.scopeNext = Follows(page.scopeOffset, result.total),
          !.offset = 0, !.seen = {}], r.refresh)

ShowStatus(r) == r.kind = "status" /\ page' = LoadScopes(Answered(r), TRUE)

\* Fault: a refresh whose load was overtaken never ends.
DropSilently(r) == ~Wanted(r) /\ page' = Answered(r)

Drop(r) == ~Wanted(r) /\ page' = Ends(Answered(r), r)

\* The host or the plugin answers with an error, or the kernel is unavailable.
ShowError(r) == page' = Ends(Answered(r), r)

Answer(r) == ShowRecords(r) \/ ShowScopes(r) \/ ShowStatus(r) \/ Drop(r) \/ ShowError(r)

PageNext ==
  \/ \E row \in ScopeRows : ChooseScope(row.id)
  \/ \E c \in Collections : ChooseCollection(c)
  \/ SearchRecords \/ SearchScopes \/ TurnPage \/ TurnScopes \/ Refresh
  \/ \E r \in page.requests : Answer(r)

\* The host answers what it was asked.
PageFairness == WF_page(\E r \in page.requests : Answer(r))

PageSpec == PageInit /\ [][PageNext]_page /\ PageFairness

-----------------------------------------------------------------------------
(* Properties                                                              *)

\* Whatever the order of the answers, records on the page are those of the scope,
\* the collection and the offset that the page's controls name.
ShownIsChosen ==
  page.records # Nothing =>
    /\ page.records.scope = page.scope
    /\ page.records.collection = page.collection
    /\ page.records.offset = page.offset

\* A list of scopes is the page of them at the current offset, and the chosen one
\* is in it.
ListIsCurrent ==
  page.options # <<>> =>
    /\ page.options = [i \in DOMAIN Limited(ScopeRows, page.scopeOffset) |-> Limited(ScopeRows, page.scopeOffset)[i].id]
    /\ page.scope \in ToSet(page.options)

\* Who turned the pages from the first to one without a next has seen every row.
PagesComplete ==
  page.records # Nothing /\ ~page.next => page.seen = Chosen(page.scope, page.collection)

\* A refresh ends, also when another load overtakes the ones it made.
RefreshReturns == ~page.refresh ~> page.refresh

\* Whatever overlapped, failed or came late, the page shows what its controls
\* name, and its pages tile the table.
PageIsCurrent == ShownIsChosen /\ ListIsCurrent /\ PagesComplete

=============================================================================
