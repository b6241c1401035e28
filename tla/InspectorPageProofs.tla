------------------------- MODULE InspectorPageProofs -------------------------
(***************************************************************************)
(* Proofs about the administrator's page: what it shows is what its        *)
(* controls name, for any tables, in any order of answers.                 *)
(***************************************************************************)
EXTENDS InspectorPage, FiniteSetTheorems, TLAPS

-----------------------------------------------------------------------------
(* The order of a table                                                    *)

\* Numbers and unique ids: ORDER BY leaves no tie.
Table(rows) ==
  /\ IsFiniteSet(rows)
  /\ \A x \in rows : x.id \in Int /\ x.time \in Int
  /\ \A x, y \in rows : x.id = y.id => x = y

\* Rows are ordered by time and then id: none comes before itself, one of two comes
\* first, and what comes before stays before.
LEMMA LaterOrders ==
  ASSUME NEW rows, Table(rows)
  PROVE  /\ \A x \in rows : ~Later(x, x)
         /\ \A x, y \in rows : x # y => Later(x, y) \/ Later(y, x)
         /\ \A x, y, z \in rows : Later(x, y) /\ Later(y, z) => Later(x, z)
<1>1. \A x \in rows : x.id \in Int /\ x.time \in Int
  BY DEF Table
<1>2. \A x \in rows : ~Later(x, x)
  BY <1>1 DEF Later
<1>3. ASSUME NEW x \in rows, NEW y \in rows, x # y PROVE Later(x, y) \/ Later(y, x)
  <2>1. x.id # y.id
    BY <1>3 DEF Table
  <2> QED BY <1>1, <2>1 DEF Later
<1>4. ASSUME NEW x \in rows, NEW y \in rows, NEW z \in rows, Later(x, y), Later(y, z) PROVE Later(x, z)
  <2> DEFINE a == x.time  b == y.time  c == z.time
             i == x.id    j == y.id    k == z.id
  <2>1. a \in Int /\ b \in Int /\ c \in Int /\ i \in Int /\ j \in Int /\ k \in Int
    BY <1>1
  <2>2. (a > b \/ (a = b /\ i < j)) /\ (b > c \/ (b = c /\ j < k))
    BY <1>4 DEF Later
  <2>3. (a > c \/ (a = c /\ i < k)) => Later(x, z)
    BY DEF Later
  <2> HIDE DEF a, b, c, i, j, k
  <2>4. a > c \/ (a = c /\ i < k)
    BY <2>1, <2>2
  <2> QED BY <2>3, <2>4
<1> QED BY <1>2, <1>3, <1>4

\* Every row has a place of its own.
LEMMA PlacesDiffer ==
  ASSUME NEW rows, Table(rows), NEW x \in rows
  PROVE  /\ Place(rows, x) \in 1 .. Cardinality(rows)
         /\ \A y \in rows : Place(rows, x) = Place(rows, y) => x = y
<1> DEFINE Before(z) == {v \in rows : Later(v, z)}
<1>1. \A z \in rows : IsFiniteSet(Before(z)) /\ Cardinality(Before(z)) \in Nat
  <2> TAKE z \in rows
  <2>1. Before(z) \in SUBSET rows /\ IsFiniteSet(rows)
    BY DEF Table
  <2> QED BY <2>1, FS_Subset, FS_CardinalityType
<1>2. Cardinality(Before(x)) < Cardinality(rows)
  <2>1. Before(x) \in SUBSET rows /\ Before(x) # rows
    BY LaterOrders
  <2>2. IsFiniteSet(rows)
    BY DEF Table
  <2>3. Cardinality(Before(x)) <= Cardinality(rows) /\ Cardinality(Before(x)) # Cardinality(rows)
    BY <2>1, <2>2, FS_Subset
  <2> QED BY <1>1, <2>2, <2>3, FS_CardinalityType
<1>3. ASSUME NEW y \in rows, NEW z \in rows, Later(y, z) PROVE Cardinality(Before(y)) < Cardinality(Before(z))
  <2>1. Before(y) \in SUBSET Before(z)
    BY <1>3, LaterOrders
  <2>2. y \in Before(z) /\ y \notin Before(y)
    BY <1>3, LaterOrders
  <2>3. Cardinality(Before(y)) <= Cardinality(Before(z)) /\ Cardinality(Before(y)) # Cardinality(Before(z))
    BY <1>1, <2>1, <2>2, FS_Subset
  <2> QED BY <1>1, <2>3
<1>4. \A z \in rows : Place(rows, z) = Cardinality(Before(z)) + 1
  BY DEF Place
<1> HIDE DEF Before
<1>5. Place(rows, x) \in 1 .. Cardinality(rows)
  <2>1. Cardinality(rows) \in Nat
    BY FS_CardinalityType DEF Table
  <2> QED BY <1>1, <1>2, <1>4, <2>1
<1>6. ASSUME NEW y \in rows, x # y PROVE Place(rows, x) # Place(rows, y)
  <2>1. Later(x, y) \/ Later(y, x)
    BY <1>6, LaterOrders
  <2>2. Cardinality(Before(x)) # Cardinality(Before(y))
    BY <1>1, <1>3, <2>1
  <2> QED BY <1>1, <1>4, <2>2
<1> QED BY <1>5, <1>6

\* Every place has a row: so many rows have different places among so many.
LEMMA PlacesTaken ==
  ASSUME NEW rows, Table(rows), NEW i \in 1 .. Cardinality(rows)
  PROVE  \E x \in rows : Place(rows, x) = i
<1> DEFINE n == Cardinality(rows)
           place == [x \in rows |-> Place(rows, x)]
<1>1. IsFiniteSet(rows) /\ n \in Nat
  BY FS_CardinalityType DEF Table
<1>2. place \in Injection(rows, 1 .. n)
  <2>1. place \in [rows -> 1 .. n]
    BY PlacesDiffer
  <2>2. \A x, y \in rows : place[x] = place[y] => x = y
    BY PlacesDiffer
  <2> QED BY <2>1, <2>2 DEF Injection, IsInjective
<1>3. IsFiniteSet(1 .. n) /\ Cardinality(1 .. n) = n
  BY <1>1, FS_Interval
<1>4. place \in Surjection(rows, 1 .. n)
  BY <1>2, <1>3, FS_Injection
<1> QED BY <1>4 DEF Surjection

\* The query's rows: each row once, in the order of their places.
LEMMA SortedLists ==
  ASSUME NEW rows, Table(rows)
  PROVE  /\ Cardinality(rows) \in Nat
         /\ Sorted(rows) \in Seq(rows) /\ Len(Sorted(rows)) = Cardinality(rows)
         /\ \A x \in rows : \E i \in 1 .. Cardinality(rows) : Sorted(rows)[i] = x
<1> DEFINE n == Cardinality(rows)
           row(i) == CHOOSE x \in rows : Place(rows, x) = i
<1>1. n \in Nat
  BY FS_CardinalityType DEF Table
<1>2. \A i \in 1 .. n : row(i) \in rows /\ Place(rows, row(i)) = i
  BY PlacesTaken
<1>3. Sorted(rows) = [i \in 1 .. n |-> row(i)]
  BY DEF Sorted
<1> HIDE DEF row
<1>4. Sorted(rows) \in Seq(rows) /\ Len(Sorted(rows)) = n
  BY <1>1, <1>2, <1>3
<1>5. ASSUME NEW x \in rows PROVE \E i \in 1 .. n : Sorted(rows)[i] = x
  <2>1. Place(rows, x) \in 1 .. n
    BY PlacesDiffer
  <2>2. row(Place(rows, x)) = x
    BY <1>2, <2>1, PlacesDiffer
  <2> QED BY <1>3, <2>1, <2>2
<1> QED BY <1>1, <1>4, <1>5

\* A page holds the rows after its offset, up to the limit or the last.
LEMMA PageOfRows ==
  ASSUME NEW rows, Table(rows), NEW offset \in Nat
  PROVE  /\ Limited(rows, offset) \in Seq(rows)
         /\ \A i \in 1 .. Cardinality(rows) :
              offset < i /\ i <= offset + Limit => Sorted(rows)[i] \in ToSet(Limited(rows, offset))
<1> DEFINE n == Cardinality(rows)
           s == Sorted(rows)
           last == IF offset + Limit < n THEN offset + Limit ELSE n
<1>1. n \in Nat /\ s \in Seq(rows) /\ Len(s) = n
  BY SortedLists
<1>2. Limited(rows, offset) = SubSeq(s, offset + 1, last)
  BY DEF Limited
<1>3. last \in Nat /\ last <= n
  BY <1>1, PageOK
<1>4. Limited(rows, offset) \in Seq(rows)
  BY <1>1, <1>2, <1>3
<1>5. ASSUME NEW i \in 1 .. n, offset < i, i <= offset + Limit
      PROVE  s[i] \in ToSet(Limited(rows, offset))
  <2>1. i <= last /\ offset + 1 <= last
    BY <1>1, <1>5, PageOK
  <2> HIDE DEF last, s
  <2>2. Len(SubSeq(s, offset + 1, last)) = last - offset
    BY <1>1, <1>3, <2>1
  <2>3. i - offset \in 1 .. last - offset /\ SubSeq(s, offset + 1, last)[i - offset] = s[i]
    BY <1>1, <1>3, <1>5, <2>1
  <2>4. DOMAIN SubSeq(s, offset + 1, last) = 1 .. last - offset
    BY <1>1, <1>3, <2>1, <2>2
  <2> QED BY <1>2, <2>3, <2>4 DEF ToSet
<1> QED BY <1>4, <1>5

\* What the page asks for is a table.
LEMMA TablesOfPage ==
  /\ Table(ScopeRows)
  /\ \A scope, collection : Table(Chosen(scope, collection))
<1>1. Table(ScopeRows)
  BY RowsOK DEF Table
<1>2. ASSUME NEW scope, NEW collection PROVE Table(Chosen(scope, collection))
  <2>1. Chosen(scope, collection) \in SUBSET Rows /\ IsFiniteSet(Rows)
    BY RowsOK DEF Chosen
  <2>2. IsFiniteSet(Chosen(scope, collection))
    BY <2>1, FS_Subset
  <2> QED BY <2>2, RowsOK DEF Table, Chosen
<1> QED BY <1>1, <1>2

-----------------------------------------------------------------------------
(* The inductive invariant, of the page u between two awaits               *)

ScopeOrNone == {x.id : x \in ScopeRows} \cup {NoScope}

PageRequest ==
  [kind : {"records", "scopes", "status"}, ticket : Nat, refresh : BOOLEAN, scope : ScopeOrNone,
   collection : Collections \cup {"scopes", "status"}, offset : Nat, previous : ScopeOrNone]

Shown == [rows : Seq(Rows), offset : Nat, scope : ScopeOrNone, collection : Collections \cup {"scopes", "status"}]

PageTypeOK(u) ==
  u \in [options : Seq(ScopeOrNone), scope : ScopeOrNone, canChoose : BOOLEAN,
         scopeOffset : Nat, scopeSerial : Nat, scopePrev : BOOLEAN, scopeNext : BOOLEAN,
         collection : Collections, offset : Nat, serial : Nat,
         records : Shown \cup {Nothing}, prev : BOOLEAN, next : BOOLEAN,
         seen : SUBSET Rows, refresh : BOOLEAN, requests : SUBSET PageRequest]

\* No request has a ticket that was not drawn.
TicketsDrawn(u) ==
  \A r \in u.requests :
    /\ r.kind = "records" => r.ticket <= u.serial /\ r.scope # NoScope
    /\ r.kind = "scopes" => r.ticket <= u.scopeSerial

\* The last list of scopes that was asked for is the one the controls name.
ScopesCurrent(u) ==
  \A r \in u.requests :
    r.kind = "scopes" /\ r.ticket = u.scopeSerial => r.offset = u.scopeOffset

\* So are the last records.
RecordsCurrent(u) ==
  \A r \in u.requests :
    r.kind = "records" /\ r.ticket = u.serial =>
      r.scope = u.scope /\ r.collection = u.collection /\ r.offset = u.offset

ListCurrent(u) ==
  u.options # <<>> =>
    /\ u.options = [i \in DOMAIN Limited(ScopeRows, u.scopeOffset) |-> Limited(ScopeRows, u.scopeOffset)[i].id]
    /\ u.scope \in ToSet(u.options)

ChosenRows(u) == Chosen(u.scope, u.collection)

\* The first n rows of the chosen ones were seen.
SeenTo(u, n) ==
  \A i \in 1 .. Cardinality(ChosenRows(u)) : i <= n => Sorted(ChosenRows(u))[i] \in u.seen

\* Nobody turns to a page before having seen all rows in front of it.
SeenBefore(u) == u.scope # NoScope => u.seen \subseteq ChosenRows(u) /\ SeenTo(u, u.offset)

ShownCurrent(u) ==
  /\ u.records # Nothing =>
       /\ u.scope # NoScope
       /\ u.records.scope = u.scope /\ u.records.collection = u.collection /\ u.records.offset = u.offset
       /\ SeenTo(u, u.offset + Limit)
       /\ u.next = Follows(u.offset, Cardinality(ChosenRows(u)))
  /\ u.records = Nothing => ~u.prev /\ ~u.next

\* What holds when a load of records begins, and what it leaves.
Ready(u) == PageTypeOK(u) /\ TicketsDrawn(u) /\ ScopesCurrent(u) /\ ListCurrent(u) /\ SeenBefore(u)

PageInv(u) == Ready(u) /\ RecordsCurrent(u) /\ ShownCurrent(u)

\* The end of a refresh sets a flag only.
LEMMA EndsKeepsInv ==
  ASSUME NEW u, PageInv(u), NEW r PROVE PageInv(Ends(u, r))
<1> DEFINE v == [u EXCEPT !.refresh = TRUE]
<1>1. PageInv(v)
  <2>1. PageTypeOK(u)
    BY DEF PageInv, Ready
  <2>2. /\ PageTypeOK(v) /\ v.options = u.options /\ v.scope = u.scope /\ v.scopeOffset = u.scopeOffset
        /\ v.scopeSerial = u.scopeSerial /\ v.collection = u.collection /\ v.offset = u.offset
        /\ v.serial = u.serial /\ v.records = u.records /\ v.prev = u.prev /\ v.next = u.next
        /\ v.seen = u.seen /\ v.requests = u.requests
    BY <2>1 DEF PageTypeOK
  <2> HIDE DEF v
  <2> QED BY <2>2 DEF PageInv, Ready, TicketsDrawn, ScopesCurrent, RecordsCurrent, ListCurrent,
                      ChosenRows, SeenTo, SeenBefore, ShownCurrent
<1> QED BY <1>1 DEF Ends

\* What a load clears, and what it leaves.
LEMMA ClearedPage ==
  ASSUME NEW u, PageTypeOK(u)
  PROVE  LET c == Cleared(u) IN
         /\ PageTypeOK(c) /\ c.options = u.options /\ c.scope = u.scope /\ c.scopeOffset = u.scopeOffset
         /\ c.scopeSerial = u.scopeSerial /\ c.collection = u.collection /\ c.offset = u.offset
         /\ c.serial = u.serial + 1 /\ c.records = Nothing /\ ~c.prev /\ ~c.next
         /\ c.seen = u.seen /\ c.requests = u.requests
<1> DEFINE a == [u EXCEPT !.serial = @ + 1]
           b == [a EXCEPT !.records = Nothing]
           c == [b EXCEPT !.prev = FALSE, !.next = FALSE]
<1>1. Cleared(u) = c
  BY DEF PageTypeOK, Cleared
<1>2. PageTypeOK(a)
  BY SMTT(30) DEF PageTypeOK
<1>3. PageTypeOK(b)
  BY <1>2 DEF PageTypeOK
<1>4. PageTypeOK(c)
  BY <1>3 DEF PageTypeOK
<1>5. c.records = Nothing /\ ~c.prev /\ ~c.next /\ c.serial = u.serial + 1
  BY DEF PageTypeOK
<1>6. /\ c.options = u.options /\ c.scope = u.scope /\ c.scopeOffset = u.scopeOffset
      /\ c.scopeSerial = u.scopeSerial /\ c.collection = u.collection /\ c.offset = u.offset
      /\ c.seen = u.seen /\ c.requests = u.requests
  BY DEF PageTypeOK
<1> QED BY <1>1, <1>4, <1>5, <1>6

\* A new request for records settles the page: nothing is shown until its answer.
LEMMA LoadRecordsSettles ==
  ASSUME NEW u, Ready(u), NEW ofRefresh \in BOOLEAN
  PROVE  PageInv(LoadRecords(u, ofRefresh))
<1> DEFINE c == Cleared(u)
           r == [kind |-> "records", ticket |-> c.serial, refresh |-> ofRefresh,
                 scope |-> c.scope, collection |-> c.collection, offset |-> c.offset, previous |-> NoScope]
           v == [c EXCEPT !.requests = @ \cup {r}]
<1>1. PageTypeOK(u)
  BY DEF Ready
<1>2. /\ PageTypeOK(c) /\ c.options = u.options /\ c.scope = u.scope /\ c.scopeOffset = u.scopeOffset
      /\ c.scopeSerial = u.scopeSerial /\ c.collection = u.collection /\ c.offset = u.offset
      /\ c.serial = u.serial + 1 /\ c.records = Nothing /\ ~c.prev /\ ~c.next
      /\ c.seen = u.seen /\ c.requests = u.requests
  BY <1>1, ClearedPage
<1>3. LoadRecords(u, ofRefresh) = IF c.scope = NoScope THEN Ends(c, r) ELSE v
  BY DEF LoadRecords
<1> HIDE DEF c
<1>4. u.requests \subseteq PageRequest /\ u.serial \in Nat
  BY <1>1 DEF PageTypeOK
<1>5. \A q \in u.requests : q.kind = "records" => q.ticket <= u.serial /\ q.ticket \in Nat
  BY <1>4 DEF Ready, TicketsDrawn, PageRequest
<1>6. TicketsDrawn(c) /\ ScopesCurrent(c) /\ ListCurrent(c) /\ SeenBefore(c) /\ ShownCurrent(c)
  BY <1>2, <1>4, <1>5 DEF Ready, TicketsDrawn, ScopesCurrent, ListCurrent, ChosenRows, SeenTo, SeenBefore, ShownCurrent
<1>7. \A q \in u.requests : q.kind = "records" => q.ticket # c.serial
  BY <1>2, <1>4, <1>5
<1>8. RecordsCurrent(c)
  BY <1>2, <1>7 DEF RecordsCurrent
<1>9. CASE c.scope = NoScope
  <2>1. PageInv(c)
    BY <1>2, <1>6, <1>8 DEF PageInv, Ready
  <2> QED BY <1>3, <1>9, <2>1, EndsKeepsInv
<1>10. CASE c.scope # NoScope
  <2>1. /\ r \in PageRequest /\ r.kind = "records" /\ r.ticket = c.serial /\ r.scope = c.scope
        /\ r.collection = c.collection /\ r.offset = c.offset
    BY <1>2 DEF PageTypeOK, PageRequest, ScopeOrNone
  <2> HIDE DEF r
  <2>2. /\ PageTypeOK(v) /\ v.options = c.options /\ v.scope = c.scope /\ v.scopeOffset = c.scopeOffset
        /\ v.scopeSerial = c.scopeSerial /\ v.collection = c.collection /\ v.offset = c.offset
        /\ v.serial = c.serial /\ v.records = c.records /\ v.prev = c.prev /\ v.next = c.next
        /\ v.seen = c.seen /\ v.requests = c.requests \cup {r}
    BY <1>2, <2>1 DEF PageTypeOK
  <2> HIDE DEF v
  <2>3. c.serial \in Nat
    BY <1>2 DEF PageTypeOK
  <2>4. TicketsDrawn(v) /\ RecordsCurrent(v) /\ ScopesCurrent(v)
    BY <1>6, <1>8, <1>10, <2>1, <2>2, <2>3 DEF TicketsDrawn, RecordsCurrent, ScopesCurrent
  <2>5. ListCurrent(v) /\ SeenBefore(v) /\ ShownCurrent(v)
    BY <1>6, <2>2 DEF ListCurrent, ChosenRows, SeenTo, SeenBefore, ShownCurrent
  <2>6. PageInv(v)
    BY <2>2, <2>4, <2>5 DEF PageInv, Ready
  <2> QED BY <1>3, <1>10, <2>6
<1> QED BY <1>9, <1>10

\* What a request for scopes clears, field by field.
LEMMA UnlistedPage ==
  ASSUME NEW u, PageTypeOK(u)
  PROVE  LET c == [u EXCEPT !.scopeSerial = @ + 1, !.options = <<>>, !.scope = NoScope] IN
         /\ PageTypeOK(c) /\ c.options = <<>> /\ c.scope = NoScope /\ c.scopeOffset = u.scopeOffset
         /\ c.scopeSerial = u.scopeSerial + 1 /\ c.serial = u.serial /\ c.records = u.records
         /\ c.prev = u.prev /\ c.next = u.next /\ c.requests = u.requests
<1> DEFINE a == [u EXCEPT !.scopeSerial = @ + 1]
           b == [a EXCEPT !.options = <<>>]
           c == [b EXCEPT !.scope = NoScope]
<1>1. [u EXCEPT !.scopeSerial = @ + 1, !.options = <<>>, !.scope = NoScope] = c
  BY DEF PageTypeOK
<1>2. PageTypeOK(a)
  BY DEF PageTypeOK
<1>3. PageTypeOK(b)
  <2>1. <<>> \in Seq(ScopeOrNone)
    OBVIOUS
  <2> HIDE DEF a
  <2> QED BY <1>2, <2>1 DEF PageTypeOK
<1>4. PageTypeOK(c)
  BY <1>3 DEF PageTypeOK, ScopeOrNone
<1>5. c.options = <<>> /\ c.scope = NoScope /\ c.scopeSerial = u.scopeSerial + 1
  BY DEF PageTypeOK
<1>6. /\ c.scopeOffset = u.scopeOffset /\ c.serial = u.serial /\ c.records = u.records
      /\ c.prev = u.prev /\ c.next = u.next /\ c.requests = u.requests
  BY DEF PageTypeOK
<1> QED BY <1>1, <1>4, <1>5, <1>6

\* What is listed does not matter when scopes are loaded.
LEMMA LoadScopesSettles ==
  ASSUME NEW u, PageTypeOK(u), TicketsDrawn(u), NEW ofRefresh \in BOOLEAN
  PROVE  PageInv(LoadScopes(u, ofRefresh))
<1> DEFINE c == [Cleared(u) EXCEPT !.scopeSerial = @ + 1, !.options = <<>>, !.scope = NoScope,
                   !.canChoose = FALSE, !.scopePrev = FALSE, !.scopeNext = FALSE]
           r == [kind |-> "scopes", ticket |-> c.scopeSerial, refresh |-> ofRefresh,
                 scope |-> NoScope, collection |-> "scopes", offset |-> c.scopeOffset, previous |-> u.scope]
           v == [c EXCEPT !.requests = @ \cup {r}]
<1>1. PageTypeOK(Cleared(u)) /\ Cleared(u).serial = u.serial + 1 /\ Cleared(u).scopeSerial = u.scopeSerial
      /\ Cleared(u).requests = u.requests /\ Cleared(u).records = Nothing /\ ~Cleared(u).prev /\ ~Cleared(u).next
  BY ClearedPage
<1>2. /\ PageTypeOK(c) /\ c.options = <<>> /\ c.scope = NoScope
      /\ c.scopeSerial = u.scopeSerial + 1 /\ c.serial = u.serial + 1
      /\ c.requests = u.requests /\ c.records = Nothing /\ ~c.prev /\ ~c.next
  <2> DEFINE b == [Cleared(u) EXCEPT !.scopeSerial = @ + 1, !.options = <<>>, !.scope = NoScope]
  <2>1. /\ PageTypeOK(b) /\ b.options = <<>> /\ b.scope = NoScope /\ b.scopeSerial = u.scopeSerial + 1
        /\ b.serial = u.serial + 1 /\ b.requests = u.requests /\ b.records = Nothing /\ ~b.prev /\ ~b.next
    BY <1>1, UnlistedPage
  <2>2. c = [b EXCEPT !.canChoose = FALSE, !.scopePrev = FALSE, !.scopeNext = FALSE]
    BY <1>1 DEF PageTypeOK
  <2> HIDE DEF b, c
  <2> QED BY <2>1, <2>2 DEF PageTypeOK
<1>3. LoadScopes(u, ofRefresh) = v
  BY DEF LoadScopes
<1> HIDE DEF c
<1>4. /\ r \in PageRequest /\ r.kind = "scopes" /\ r.ticket = c.scopeSerial /\ r.offset = c.scopeOffset
  BY <1>2 DEF PageTypeOK, PageRequest, ScopeOrNone
<1> HIDE DEF r
<1>5. /\ PageTypeOK(v) /\ v.options = <<>> /\ v.scope = NoScope /\ v.scopeOffset = c.scopeOffset
      /\ v.scopeSerial = c.scopeSerial /\ v.serial = c.serial
      /\ v.records = Nothing /\ ~v.prev /\ ~v.next /\ v.requests = u.requests \cup {r}
  BY <1>2, <1>4 DEF PageTypeOK
<1> HIDE DEF v
<1>6. u.requests \subseteq PageRequest /\ u.serial \in Nat /\ u.scopeSerial \in Nat
  BY DEF PageTypeOK
<1>7. \A q \in u.requests :
        /\ q.kind = "records" => q.ticket < c.serial /\ q.scope # NoScope
        /\ q.kind = "scopes" => q.ticket < c.scopeSerial
  BY <1>2, <1>6 DEF TicketsDrawn, PageRequest
<1>8. TicketsDrawn(v)
  <2> SUFFICES ASSUME NEW q \in v.requests
               PROVE  /\ q.kind = "records" => q.ticket <= v.serial /\ q.scope # NoScope
                      /\ q.kind = "scopes" => q.ticket <= v.scopeSerial
    BY DEF TicketsDrawn
  <2>1. c.serial \in Nat /\ c.scopeSerial \in Nat
    BY <1>2 DEF PageTypeOK
  <2>2. CASE q = r
    BY <1>4, <1>5, <2>1, <2>2
  <2>3. CASE q # r
    <3>1. q \in u.requests /\ q.ticket \in Nat
      BY <1>5, <1>6, <2>3 DEF PageRequest
    <3> QED BY <1>5, <1>7, <2>1, <3>1
  <2> QED BY <2>2, <2>3
<1>9. ScopesCurrent(v)
  <2>1. \A q \in u.requests : q.kind = "scopes" => q.ticket \in Nat /\ q.ticket # c.scopeSerial
    BY <1>2, <1>6, <1>7 DEF PageRequest
  <2> QED BY <1>4, <1>5, <2>1 DEF ScopesCurrent
<1>10. RecordsCurrent(v)
  <2>1. \A q \in u.requests : q.kind = "records" => q.ticket \in Nat /\ q.ticket # c.serial
    BY <1>2, <1>6, <1>7 DEF PageRequest
  <2> QED BY <1>4, <1>5, <2>1 DEF RecordsCurrent
<1>11. ListCurrent(v) /\ SeenBefore(v) /\ ShownCurrent(v)
  BY <1>5 DEF ListCurrent, SeenBefore, ShownCurrent
<1> QED BY <1>3, <1>5, <1>8, <1>9, <1>10, <1>11 DEF PageInv, Ready

-----------------------------------------------------------------------------
(* Every handler keeps the invariant                                       *)

\* What each handler of the page keeps.
LEMMA InitPageInv == PageInit => PageInv(page)
<1> SUFFICES ASSUME PageInit PROVE PageInv(page)
  OBVIOUS
<1>1. (CHOOSE c \in Collections : TRUE) \in Collections
  BY PageOK
<1>2. <<>> \in Seq(ScopeOrNone) /\ NoScope \in ScopeOrNone
  BY DEF ScopeOrNone
<1>3. PageTypeOK(page)
  BY <1>1, <1>2 DEF PageInit, PageTypeOK
<1>4. /\ page.options = <<>> /\ page.scope = NoScope /\ page.records = Nothing
      /\ page.requests = {} /\ ~page.prev /\ ~page.next
  BY DEF PageInit
<1> QED BY <1>3, <1>4 DEF PageInv, Ready, TicketsDrawn, ScopesCurrent, RecordsCurrent, ListCurrent, SeenBefore, ShownCurrent

\* A new choice begins at the first page, of which nothing was seen.
LEMMA ChoiceIsReady ==
  ASSUME NEW u, PageInv(u), NEW v, PageTypeOK(v),
         v.requests = u.requests, v.serial = u.serial,
         v.scopeSerial = u.scopeSerial, v.scopeOffset = u.scopeOffset, v.options = u.options,
         v.options # <<>> => v.scope \in ToSet(v.options),
         v.offset = 0, v.seen = {}
  PROVE  Ready(v)
<1>1. TicketsDrawn(v) /\ ScopesCurrent(v) /\ ListCurrent(v)
  BY DEF PageInv, Ready, TicketsDrawn, ScopesCurrent, ListCurrent
<1>2. SeenBefore(v)
  BY DEF SeenBefore, SeenTo
<1> QED BY <1>1, <1>2 DEF Ready

LEMMA ChooseScopeKeepsInv ==
  ASSUME PageInv(page), NEW s, ChooseScope(s) PROVE PageInv(page')
<1> DEFINE v == [page EXCEPT !.scope = s, !.offset = 0, !.seen = {}]
<1>1. PageTypeOK(page)
  BY DEF PageInv, Ready
<1>2. PICK i \in DOMAIN page.options : page.options[i] = s
  BY DEF ChooseScope
<1>3. s \in ScopeOrNone
  BY <1>1, <1>2 DEF PageTypeOK
<1>4. PageTypeOK(v)
  BY <1>1, <1>3 DEF PageTypeOK
<1>5. Ready(v)
  <2>1. /\ v.requests = page.requests /\ v.serial = page.serial
        /\ v.scopeSerial = page.scopeSerial /\ v.scopeOffset = page.scopeOffset /\ v.options = page.options
        /\ v.scope = s /\ v.offset = 0 /\ v.seen = {}
    BY <1>1 DEF PageTypeOK
  <2>2. s \in ToSet(page.options)
    BY <1>2 DEF ToSet
  <2> HIDE DEF v
  <2> QED BY <1>4, <2>1, <2>2, ChoiceIsReady
<1>6. page' = LoadRecords(v, FALSE)
  BY DEF ChooseScope
<1> HIDE DEF v
<1> QED BY <1>5, <1>6, LoadRecordsSettles

LEMMA ChooseCollectionKeepsInv ==
  ASSUME PageInv(page), NEW c \in Collections, ChooseCollection(c) PROVE PageInv(page')
<1> DEFINE v == [page EXCEPT !.collection = c, !.offset = 0, !.seen = {}]
<1>1. PageTypeOK(page)
  BY DEF PageInv, Ready
<1>2. PageTypeOK(v)
  BY <1>1 DEF PageTypeOK
<1>3. /\ v.requests = page.requests /\ v.serial = page.serial
      /\ v.scopeSerial = page.scopeSerial /\ v.scopeOffset = page.scopeOffset /\ v.options = page.options
      /\ v.scope = page.scope /\ v.offset = 0 /\ v.seen = {}
  BY <1>1 DEF PageTypeOK
<1>4. page' = LoadRecords(v, FALSE)
  BY DEF ChooseCollection
<1>5. page.options # <<>> => page.scope \in ToSet(page.options)
  BY DEF PageInv, Ready, ListCurrent
<1> HIDE DEF v
<1>6. Ready(v)
  BY <1>2, <1>3, <1>5, ChoiceIsReady
<1> QED BY <1>4, <1>6, LoadRecordsSettles

LEMMA SearchRecordsKeepsInv ==
  ASSUME PageInv(page), SearchRecords PROVE PageInv(page')
<1> DEFINE v == [page EXCEPT !.offset = 0, !.seen = {}]
<1>1. PageTypeOK(page)
  BY DEF PageInv, Ready
<1>2. PageTypeOK(v)
  BY <1>1 DEF PageTypeOK
<1>3. /\ v.requests = page.requests /\ v.serial = page.serial
      /\ v.scopeSerial = page.scopeSerial /\ v.scopeOffset = page.scopeOffset /\ v.options = page.options
      /\ v.scope = page.scope /\ v.offset = 0 /\ v.seen = {}
  BY <1>1 DEF PageTypeOK
<1>4. page' = LoadRecords(v, FALSE)
  BY DEF SearchRecords
<1>5. page.options # <<>> => page.scope \in ToSet(page.options)
  BY DEF PageInv, Ready, ListCurrent
<1> HIDE DEF v
<1>6. Ready(v)
  BY <1>2, <1>3, <1>5, ChoiceIsReady
<1> QED BY <1>4, <1>6, LoadRecordsSettles

\* The page before shows rows that were seen; the next one begins where the shown
\* one ends.
LEMMA TurnPageKeepsInv ==
  ASSUME PageInv(page), TurnPage PROVE PageInv(page')
<1>1. PageTypeOK(page) /\ page.offset \in Nat
  BY DEF PageInv, Ready, PageTypeOK
<1>2. ASSUME NEW n \in Nat, page.scope # NoScope => SeenTo(page, n),
             page' = LoadRecords([page EXCEPT !.offset = n], FALSE)
      PROVE  PageInv(page')
  <2> DEFINE v == [page EXCEPT !.offset = n]
  <2>1. PageTypeOK(v)
    BY <1>1 DEF PageTypeOK
  <2>2. /\ v.requests = page.requests /\ v.serial = page.serial /\ v.seen = page.seen
        /\ v.scopeSerial = page.scopeSerial /\ v.scopeOffset = page.scopeOffset /\ v.options = page.options
        /\ v.scope = page.scope /\ v.collection = page.collection /\ v.offset = n
    BY <1>1 DEF PageTypeOK
  <2> HIDE DEF v
  <2>3. TicketsDrawn(v) /\ ScopesCurrent(v) /\ ListCurrent(v)
    BY <2>2 DEF PageInv, Ready, TicketsDrawn, ScopesCurrent, ListCurrent
  <2>4. SeenBefore(v)
    BY <1>2, <2>2 DEF PageInv, Ready, SeenBefore, SeenTo, ChosenRows
  <2>5. Ready(v)
    BY <2>1, <2>3, <2>4 DEF Ready
  <2> QED BY <1>2, <2>5, LoadRecordsSettles DEF v
<1>3. CASE page.prev /\ page' = LoadRecords([page EXCEPT !.offset = IF @ > Limit THEN @ - Limit ELSE 0], FALSE)
  <2> DEFINE n == IF page.offset > Limit THEN page.offset - Limit ELSE 0
  <2>1. n \in Nat /\ n <= page.offset
    BY <1>1, PageOK
  <2>2. [page EXCEPT !.offset = IF @ > Limit THEN @ - Limit ELSE 0] = [page EXCEPT !.offset = n]
    BY <1>1 DEF PageTypeOK
  <2> HIDE DEF n
  <2>3. page.scope # NoScope => SeenTo(page, n)
    <3>1. ASSUME NEW i \in 1 .. Cardinality(ChosenRows(page)), i <= n PROVE i <= page.offset
      <4>1. i \in Int
        OBVIOUS
      <4> QED BY <1>1, <2>1, <3>1, <4>1
    <3> QED BY <3>1 DEF PageInv, Ready, SeenBefore, SeenTo
  <2> QED BY <1>2, <1>3, <2>1, <2>2, <2>3
<1>4. CASE page.next /\ page' = LoadRecords([page EXCEPT !.offset = @ + Limit], FALSE)
  <2>1. SeenTo(page, page.offset + Limit)
    BY <1>4 DEF PageInv, ShownCurrent
  <2>2. [page EXCEPT !.offset = @ + Limit] = [page EXCEPT !.offset = page.offset + Limit]
    BY <1>1 DEF PageTypeOK
  <2>3. page.offset + Limit \in Nat
    BY <1>1, PageOK
  <2> QED BY <1>2, <1>4, <2>1, <2>2, <2>3
<1> QED BY <1>3, <1>4 DEF TurnPage

LEMMA ScopesMoveKeepsInv ==
  ASSUME PageInv(page), NEW n \in Nat, page' = LoadScopes([page EXCEPT !.scopeOffset = n], FALSE)
  PROVE  PageInv(page')
<1> DEFINE v == [page EXCEPT !.scopeOffset = n]
<1>1. PageTypeOK(page) /\ TicketsDrawn(page)
  BY DEF PageInv, Ready
<1>2. PageTypeOK(v) /\ v.requests = page.requests /\ v.serial = page.serial /\ v.scopeSerial = page.scopeSerial
  BY <1>1 DEF PageTypeOK
<1>3. page' = LoadScopes(v, FALSE)
  OBVIOUS
<1> HIDE DEF v
<1>4. TicketsDrawn(v)
  BY <1>1, <1>2 DEF TicketsDrawn
<1> QED BY <1>2, <1>3, <1>4, LoadScopesSettles

LEMMA TurnScopesKeepsInv ==
  ASSUME PageInv(page), SearchScopes \/ TurnScopes PROVE PageInv(page')
<1>1. PageTypeOK(page) /\ page.scopeOffset \in Nat
  BY DEF PageInv, Ready, PageTypeOK
<1>2. CASE SearchScopes
  BY <1>2, ScopesMoveKeepsInv DEF SearchScopes
<1>3. CASE page' = LoadScopes([page EXCEPT !.scopeOffset = IF @ > Limit THEN @ - Limit ELSE 0], FALSE)
  <2> DEFINE n == IF page.scopeOffset > Limit THEN page.scopeOffset - Limit ELSE 0
  <2>1. n \in Nat
    BY <1>1, PageOK
  <2>2. [page EXCEPT !.scopeOffset = IF @ > Limit THEN @ - Limit ELSE 0] = [page EXCEPT !.scopeOffset = n]
    BY <1>1 DEF PageTypeOK
  <2> HIDE DEF n
  <2> QED BY <1>3, <2>1, <2>2, ScopesMoveKeepsInv
<1>4. CASE page' = LoadScopes([page EXCEPT !.scopeOffset = @ + Limit], FALSE)
  <2>1. [page EXCEPT !.scopeOffset = @ + Limit] = [page EXCEPT !.scopeOffset = page.scopeOffset + Limit]
    BY <1>1 DEF PageTypeOK
  <2>2. page.scopeOffset + Limit \in Nat
    BY <1>1, PageOK
  <2> QED BY <1>4, <2>1, <2>2, ScopesMoveKeepsInv
<1> QED BY <1>2, <1>3, <1>4 DEF TurnScopes

LEMMA RefreshKeepsInv ==
  ASSUME PageInv(page), Refresh PROVE PageInv(page')
<1> DEFINE d == Cleared(page)
           e == [d EXCEPT !.scopeSerial = @ + 1, !.options = <<>>, !.scope = NoScope]
           c == [d EXCEPT !.refresh = FALSE, !.scopeSerial = @ + 1, !.options = <<>>, !.scope = NoScope]
           r == [kind |-> "status", ticket |-> 0, refresh |-> TRUE, scope |-> NoScope,
                 collection |-> "status", offset |-> 0, previous |-> NoScope]
<1>1. PageTypeOK(page) /\ TicketsDrawn(page)
  BY DEF PageInv, Ready
<1>2. /\ PageTypeOK(d) /\ d.scopeSerial = page.scopeSerial /\ d.serial = page.serial + 1
      /\ d.requests = page.requests /\ d.records = Nothing /\ ~d.prev /\ ~d.next
  BY <1>1, ClearedPage
<1>3. /\ PageTypeOK(e) /\ e.options = <<>> /\ e.scope = NoScope /\ e.scopeSerial = page.scopeSerial + 1
      /\ e.serial = page.serial + 1 /\ e.records = Nothing /\ ~e.prev /\ ~e.next /\ e.requests = page.requests
  BY <1>2, UnlistedPage
<1>4. c = [e EXCEPT !.refresh = FALSE]
  BY <1>2 DEF PageTypeOK
<1>5. page' = [c EXCEPT !.requests = @ \cup {r}]
  BY DEF Refresh
<1> HIDE DEF c, d, e
<1>6. r \in PageRequest /\ r.kind = "status"
  BY DEF PageRequest, ScopeOrNone
<1> HIDE DEF r
<1>7. page' = [e EXCEPT !.refresh = FALSE, !.requests = page.requests \cup {r}]
  BY <1>3, <1>4, <1>5 DEF PageTypeOK
<1>8. /\ PageTypeOK(page') /\ page'.options = <<>> /\ page'.scope = NoScope
      /\ page'.scopeSerial = page.scopeSerial + 1 /\ page'.serial = page.serial + 1
      /\ page'.records = Nothing /\ ~page'.prev /\ ~page'.next /\ page'.requests = page.requests \cup {r}
  BY <1>3, <1>6, <1>7 DEF PageTypeOK
<1>9. page.requests \subseteq PageRequest /\ page.serial \in Nat /\ page.scopeSerial \in Nat
  BY <1>1 DEF PageTypeOK
<1>10. \A q \in page.requests :
        /\ q.kind = "records" => q.ticket <= page.serial + 1 /\ q.ticket # page.serial + 1 /\ q.scope # NoScope
        /\ q.kind = "scopes" => q.ticket <= page.scopeSerial + 1 /\ q.ticket # page.scopeSerial + 1
  BY <1>1, <1>9 DEF TicketsDrawn, PageRequest
<1>11. TicketsDrawn(page') /\ ScopesCurrent(page') /\ RecordsCurrent(page')
  BY <1>6, <1>8, <1>10 DEF TicketsDrawn, ScopesCurrent, RecordsCurrent
<1>12. ListCurrent(page') /\ SeenBefore(page') /\ ShownCurrent(page')
  BY <1>8 DEF ListCurrent, SeenBefore, ShownCurrent
<1> QED BY <1>8, <1>11, <1>12 DEF PageInv, Ready

\* An answer that arrived is no longer awaited.
LEMMA AnsweredKeepsInv ==
  ASSUME PageInv(page), NEW r
  PROVE  /\ PageInv(Answered(r))
         /\ \A f \in DOMAIN page : f # "requests" => Answered(r)[f] = page[f]
         /\ Answered(r).requests = page.requests \ {r}
<1> DEFINE v == Answered(r)
<1>1. PageTypeOK(page)
  BY DEF PageInv, Ready
<1>2. PageTypeOK(v) /\ v.requests = page.requests \ {r}
  BY <1>1 DEF PageTypeOK, Answered
<1>3. \A f \in DOMAIN page : f # "requests" => v[f] = page[f]
  BY <1>1 DEF PageTypeOK, Answered
<1>4. /\ v.options = page.options /\ v.scope = page.scope /\ v.scopeOffset = page.scopeOffset
      /\ v.scopeSerial = page.scopeSerial /\ v.collection = page.collection /\ v.offset = page.offset
      /\ v.serial = page.serial /\ v.records = page.records /\ v.prev = page.prev /\ v.next = page.next
      /\ v.seen = page.seen
  BY <1>1 DEF PageTypeOK, Answered
<1> HIDE DEF v
<1>5. TicketsDrawn(v) /\ ScopesCurrent(v) /\ RecordsCurrent(v)
  BY <1>2, <1>4 DEF PageInv, Ready, TicketsDrawn, ScopesCurrent, RecordsCurrent
<1>6. ListCurrent(v) /\ SeenBefore(v) /\ ShownCurrent(v)
  BY <1>4 DEF PageInv, Ready, ListCurrent, ChosenRows, SeenTo, SeenBefore, ShownCurrent
<1> QED BY <1>2, <1>3, <1>5, <1>6 DEF PageInv, Ready, v

LEMMA DropKeepsInv ==
  ASSUME PageInv(page), NEW r, Drop(r) \/ ShowError(r) PROVE PageInv(page')
BY AnsweredKeepsInv, EndsKeepsInv DEF Drop, ShowError

LEMMA ShowStatusKeepsInv ==
  ASSUME PageInv(page), NEW r, ShowStatus(r) PROVE PageInv(page')
<1>1. PageTypeOK(Answered(r)) /\ TicketsDrawn(Answered(r))
  BY AnsweredKeepsInv DEF PageInv, Ready
<1> QED BY <1>1, LoadScopesSettles DEF ShowStatus

LEMMA ShowRecordsKeepsInv ==
  ASSUME PageInv(page), NEW r \in page.requests, ShowRecords(r) PROVE PageInv(page')
<1> DEFINE rows == Chosen(r.scope, r.collection)
           result == Browse(rows, r.offset)
           u == Answered(r)
           shown == [rows |-> result.items, offset |-> r.offset, scope |-> r.scope, collection |-> r.collection]
           next == Follows(page.offset, result.total)
           seen == page.seen \cup ToSet(result.items)
           v == [u EXCEPT !.records = shown, !.prev = page.offset # 0, !.next = next, !.seen = seen]
<1>1. PageTypeOK(page) /\ page.offset \in Nat /\ r \in PageRequest
  BY DEF PageInv, Ready, PageTypeOK
<1>2. r.kind = "records" /\ r.ticket = page.serial
  BY DEF ShowRecords, Wanted
<1>3. r.scope = page.scope /\ r.collection = page.collection /\ r.offset = page.offset /\ r.scope # NoScope
  BY <1>2 DEF PageInv, Ready, TicketsDrawn, RecordsCurrent
<1>4. rows = ChosenRows(page) /\ Table(rows) /\ rows \subseteq Rows
  BY <1>3, TablesOfPage DEF ChosenRows, Chosen
<1>5. result.items = Limited(rows, page.offset) /\ result.total = Cardinality(rows)
  BY <1>3 DEF Browse
<1> HIDE DEF result, rows
<1>6. /\ result.items \in Seq(rows) /\ result.items \in Seq(Rows) /\ ToSet(result.items) \subseteq rows
      /\ \A i \in 1 .. Cardinality(rows) :
           page.offset < i /\ i <= page.offset + Limit => Sorted(rows)[i] \in ToSet(result.items)
  <2>1. result.items \in Seq(rows)
    BY <1>1, <1>4, <1>5, PageOfRows
  <2>2. \A i \in 1 .. Cardinality(rows) :
          page.offset < i /\ i <= page.offset + Limit => Sorted(rows)[i] \in ToSet(result.items)
    BY <1>1, <1>4, <1>5, PageOfRows
  <2>3. result.items \in Seq(Rows) /\ ToSet(result.items) \subseteq rows
    BY <1>4, <2>1 DEF ToSet
  <2> QED BY <2>1, <2>2, <2>3
<1>7. shown \in Shown /\ shown.scope = r.scope /\ shown.collection = r.collection /\ shown.offset = r.offset
  BY <1>1, <1>6 DEF Shown, PageRequest
<1>8. seen \subseteq rows /\ seen \subseteq Rows
  BY <1>3, <1>4, <1>6 DEF PageInv, Ready, SeenBefore
<1>9. next \in BOOLEAN /\ next = Follows(page.offset, Cardinality(rows))
  BY <1>5 DEF Follows
<1>10. \A i \in 1 .. Cardinality(rows) : i <= page.offset + Limit => Sorted(rows)[i] \in seen
  <2> SUFFICES ASSUME NEW i \in 1 .. Cardinality(rows), i <= page.offset + Limit PROVE Sorted(rows)[i] \in seen
    OBVIOUS
  <2>1. CASE i <= page.offset
    BY <1>3, <1>4, <2>1 DEF PageInv, Ready, SeenBefore, SeenTo
  <2>2. CASE page.offset < i
    BY <1>6, <2>2
  <2> QED BY <1>1, <2>1, <2>2
<1>11. page' = Ends(v, r)
  <2>1. Answered(r).seen = page.seen
    BY <1>1 DEF PageTypeOK, Answered
  <2> QED BY <2>1 DEF ShowRecords, result, rows
<1> HIDE DEF shown, next, seen
<1>12. /\ PageInv(u) /\ u.requests = page.requests \ {r}
       /\ u.options = page.options /\ u.scope = page.scope /\ u.scopeOffset = page.scopeOffset
       /\ u.scopeSerial = page.scopeSerial /\ u.collection = page.collection /\ u.offset = page.offset
       /\ u.serial = page.serial /\ u.seen = page.seen
  BY <1>1, AnsweredKeepsInv DEF PageTypeOK, Answered
<1> HIDE DEF u
<1>13. /\ PageTypeOK(v) /\ v.requests = u.requests /\ v.records = shown /\ v.next = next /\ v.seen = seen
       /\ v.options = page.options /\ v.scope = page.scope /\ v.scopeOffset = page.scopeOffset
       /\ v.scopeSerial = page.scopeSerial /\ v.collection = page.collection /\ v.offset = page.offset
       /\ v.serial = page.serial
  <2>1. PageTypeOK(u)
    BY <1>12 DEF PageInv, Ready
  <2> DEFINE w == [u EXCEPT !.records = shown, !.seen = seen]
  <2>2. PageTypeOK(w)
    BY <1>7, <1>8, <2>1 DEF PageTypeOK
  <2>3. v = [w EXCEPT !.prev = page.offset # 0, !.next = next]
    BY <2>1 DEF PageTypeOK
  <2>4. PageTypeOK([w EXCEPT !.prev = page.offset # 0, !.next = next])
    <3> HIDE DEF w
    <3> QED BY <1>9, <2>2 DEF PageTypeOK
  <2>5. PageTypeOK(v)
    BY <2>3, <2>4
  <2>6. /\ v.requests = u.requests /\ v.records = shown /\ v.next = next /\ v.seen = seen
        /\ v.options = u.options /\ v.scope = u.scope /\ v.scopeOffset = u.scopeOffset
        /\ v.scopeSerial = u.scopeSerial /\ v.collection = u.collection /\ v.offset = u.offset
        /\ v.serial = u.serial
    BY <2>1 DEF PageTypeOK
  <2> QED BY <1>12, <2>5, <2>6
<1> HIDE DEF v
<1>14. TicketsDrawn(v) /\ ScopesCurrent(v) /\ RecordsCurrent(v) /\ ListCurrent(v)
  BY <1>12, <1>13 DEF PageInv, Ready, TicketsDrawn, ScopesCurrent, RecordsCurrent, ListCurrent
<1>15. ChosenRows(v) = rows
  BY <1>4, <1>13 DEF ChosenRows
<1>16. SeenTo(v, v.offset + Limit)
  BY <1>10, <1>13, <1>15 DEF SeenTo
<1>17. SeenBefore(v)
  <2>1. ASSUME NEW i \in 1 .. Cardinality(rows), i <= page.offset PROVE i <= page.offset + Limit
    <3>1. i \in Int
      OBVIOUS
    <3> QED BY <1>1, <2>1, <3>1, PageOK
  <2> QED BY <1>8, <1>10, <1>13, <1>15, <2>1 DEF SeenBefore, SeenTo
<1>18. ShownCurrent(v)
  <2>1. v.records # Nothing =>
          /\ v.scope # NoScope
          /\ v.records.scope = v.scope /\ v.records.collection = v.collection /\ v.records.offset = v.offset
          /\ SeenTo(v, v.offset + Limit)
          /\ v.next = Follows(v.offset, Cardinality(ChosenRows(v)))
    BY <1>3, <1>7, <1>9, <1>13, <1>15, <1>16
  <2>2. v.records # Nothing
    <3>1. "scope" \in DOMAIN shown /\ "scope" \notin DOMAIN Nothing
      BY DEF shown, Nothing
    <3> QED BY <1>13, <3>1
  <2> QED BY <2>1, <2>2 DEF ShownCurrent
<1> QED BY <1>11, <1>13, <1>14, <1>17, <1>18, EndsKeepsInv DEF PageInv, Ready

LEMMA ShowScopesKeepsInv ==
  ASSUME PageInv(page), NEW r \in page.requests, ShowScopes(r) PROVE PageInv(page')
<1> DEFINE result == Browse(ScopeRows, r.offset)
           options == [i \in DOMAIN result.items |-> result.items[i].id]
           scope == IF options = <<>> THEN NoScope
                    ELSE IF r.previous \in ToSet(options) THEN r.previous ELSE Head(options)
           total == result.total
           u == Answered(r)
           v == [u EXCEPT !.options = options, !.scope = scope, !.canChoose = options # <<>>,
                   !.scopePrev = page.scopeOffset # 0, !.scopeNext = Follows(page.scopeOffset, total),
                   !.offset = 0, !.seen = {}]
<1>1. PageTypeOK(page) /\ page.scopeOffset \in Nat /\ r \in PageRequest
  BY DEF PageInv, Ready, PageTypeOK
<1>2. r.kind = "scopes" /\ r.ticket = page.scopeSerial /\ r.offset = page.scopeOffset
  BY DEF ShowScopes, Wanted, PageInv, Ready, ScopesCurrent
<1>3. result.items = Limited(ScopeRows, page.scopeOffset)
  BY <1>2 DEF Browse
<1>4. page' = LoadRecords(v, r.refresh)
  BY DEF ShowScopes
<1>5. result.items \in Seq(ScopeRows)
  BY <1>1, <1>3, PageOfRows, TablesOfPage
<1> HIDE DEF result
<1>6. options \in Seq(ScopeOrNone) /\ DOMAIN options = 1 .. Len(options)
  BY <1>5 DEF ScopeOrNone
<1>7. options = [i \in DOMAIN Limited(ScopeRows, page.scopeOffset) |-> Limited(ScopeRows, page.scopeOffset)[i].id]
  BY <1>3
<1> HIDE DEF options
<1>8. options # <<>> => scope \in ToSet(options)
  <2>1. options # <<>> => Head(options) = options[1] /\ 1 \in DOMAIN options
    BY <1>6
  <2> QED BY <2>1 DEF ToSet
<1>9. scope \in ScopeOrNone
  <2>1. NoScope \in ScopeOrNone /\ r.previous \in ScopeOrNone
    BY <1>1 DEF ScopeOrNone, PageRequest
  <2>2. options # <<>> => Head(options) \in ScopeOrNone
    BY <1>6
  <2> QED BY <2>1, <2>2
<1> HIDE DEF scope, total
<1>10. /\ PageInv(u) /\ PageTypeOK(u) /\ u.scopeOffset = page.scopeOffset
  BY <1>1, AnsweredKeepsInv DEF PageTypeOK, Answered, PageInv, Ready
<1> HIDE DEF u
<1>11. PageTypeOK(v)
  <2> DEFINE w == [u EXCEPT !.options = options, !.scope = scope, !.offset = 0, !.seen = {}]
  <2>1. PageTypeOK(w)
    BY <1>6, <1>9, <1>10 DEF PageTypeOK
  <2>2. v = [w EXCEPT !.canChoose = options # <<>>, !.scopePrev = page.scopeOffset # 0,
                      !.scopeNext = Follows(page.scopeOffset, total)]
    BY <1>10, ZenonT(30) DEF PageTypeOK
  <2>3. Follows(page.scopeOffset, total) \in BOOLEAN
    BY DEF Follows
  <2>4. PageTypeOK([w EXCEPT !.canChoose = options # <<>>, !.scopePrev = page.scopeOffset # 0,
                             !.scopeNext = Follows(page.scopeOffset, total)])
    <3> HIDE DEF w
    <3> QED BY <2>1, <2>3, ZenonT(30) DEF PageTypeOK
  <2> QED BY <2>2, <2>4
<1>12. /\ v.requests = u.requests /\ v.serial = u.serial /\ v.scopeSerial = u.scopeSerial
       /\ v.scopeOffset = u.scopeOffset /\ v.options = options /\ v.scope = scope /\ v.offset = 0 /\ v.seen = {}
  BY <1>10 DEF PageTypeOK
<1> HIDE DEF v
<1>13. TicketsDrawn(v) /\ ScopesCurrent(v)
  BY <1>10, <1>12 DEF PageInv, Ready, TicketsDrawn, ScopesCurrent
<1>14. ListCurrent(v)
  BY <1>7, <1>8, <1>10, <1>12 DEF ListCurrent
<1>15. SeenBefore(v)
  BY <1>12 DEF SeenBefore, SeenTo
<1>16. r.refresh \in BOOLEAN
  BY <1>1 DEF PageRequest
<1> QED BY <1>4, <1>11, <1>13, <1>14, <1>15, <1>16, LoadRecordsSettles DEF Ready

LEMMA PageNextKeepsInv == PageInv(page) /\ [PageNext]_page => PageInv(page')
<1> SUFFICES ASSUME PageInv(page), [PageNext]_page PROVE PageInv(page')
  OBVIOUS
<1>1. ASSUME NEW row \in ScopeRows, ChooseScope(row.id) PROVE PageInv(page')
  BY <1>1, ChooseScopeKeepsInv
<1>2. ASSUME NEW c \in Collections, ChooseCollection(c) PROVE PageInv(page')
  BY <1>2, ChooseCollectionKeepsInv
<1>3. CASE SearchRecords BY <1>3, SearchRecordsKeepsInv
<1>4. CASE SearchScopes \/ TurnScopes BY <1>4, TurnScopesKeepsInv
<1>5. CASE TurnPage BY <1>5, TurnPageKeepsInv
<1>6. CASE Refresh BY <1>6, RefreshKeepsInv
<1>7. ASSUME NEW r \in page.requests, Answer(r) PROVE PageInv(page')
  BY <1>7, ShowRecordsKeepsInv, ShowScopesKeepsInv, ShowStatusKeepsInv, DropKeepsInv DEF Answer
<1>8. CASE UNCHANGED page
  BY <1>8
<1> QED BY <1>1, <1>2, <1>3, <1>4, <1>5, <1>6, <1>7, <1>8 DEF PageNext

\* On the last page, the rows up to its end are all rows.
LEMMA InvIsCurrent == PageInv(page) => PageIsCurrent
<1> SUFFICES ASSUME PageInv(page) PROVE PageIsCurrent
  OBVIOUS
<1>1. ShownIsChosen
  BY DEF PageInv, ShownCurrent, ShownIsChosen
<1>2. ListIsCurrent
  BY DEF PageInv, Ready, ListCurrent, ListIsCurrent
<1>3. ASSUME page.records # Nothing, ~page.next PROVE page.seen = Chosen(page.scope, page.collection)
  <2> DEFINE rows == ChosenRows(page)
  <2>1. page.offset \in Nat
    BY DEF PageInv, Ready, PageTypeOK
  <2>2. SeenTo(page, page.offset + Limit) /\ page.scope # NoScope /\ ~Follows(page.offset, Cardinality(rows))
    BY <1>3 DEF PageInv, ShownCurrent
  <2>3. page.seen \subseteq rows
    BY <2>2 DEF PageInv, Ready, SeenBefore
  <2>4. Table(rows)
    BY TablesOfPage DEF ChosenRows
  <2>5. Cardinality(rows) \in Nat /\ \A x \in rows : \E i \in 1 .. Cardinality(rows) : Sorted(rows)[i] = x
    BY <2>4, SortedLists
  <2>6. \A i \in 1 .. Cardinality(rows) : i <= page.offset + Limit
    BY <2>1, <2>2, <2>5, PageOK DEF Follows
  <2>7. rows \subseteq page.seen
    BY <2>2, <2>5, <2>6 DEF SeenTo
  <2> QED BY <2>3, <2>7 DEF ChosenRows
<1> QED BY <1>1, <1>2, <1>3 DEF PageIsCurrent, PagesComplete

\* For tables of any size, any limit and any number of overlapping loads, whose
\* answers come late, out of order or not at all: the records and the list on the
\* page are those its controls name, and who turned the pages to the last one has
\* seen every row of the table. The tickets of page.js promise this.
THEOREM PageStaysCurrent == PageSpec => []PageIsCurrent
<1> DEFINE Inv == PageInv(page)
<1>1. PageInit => Inv
  BY InitPageInv
<1>2. Inv /\ [PageNext]_page => Inv'
  BY PageNextKeepsInv
<1>3. Inv => PageIsCurrent
  BY InvIsCurrent
<1> QED BY <1>1, <1>2, <1>3, PTL DEF PageSpec

==============================================================================
