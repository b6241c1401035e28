--------------------------- MODULE PrivacyContract ---------------------------
(***************************************************************************)
(* What the store promises the people whose messages it keeps, without     *)
(* any table: a message body is kept only while its scope consents, is     *)
(* kept at most once, and is never readable again once erased; journals    *)
(* and memories cite only bodies that were readable when they were         *)
(* written; a forgotten scope stays forgotten and holds nothing.           *)
(* KernelStore is shown to implement this specification.                   *)
(***************************************************************************)
CONSTANTS Scopes,    \* the conversations
          Keys,      \* the source keys of messages inside a scope
          Contents   \* the message bodies told apart

Event == Scopes \X Keys

\* The bodies of a set of events are keyed by <<event, content>>.
Body == Event \X Contents

VARIABLES consent,   \* per scope: "open", "paused" or "forgotten"
          readable,  \* the bodies that can be read
          erased,    \* the events whose body was erased
          cited      \* the events that journals and memories cite

vars == <<consent, readable, erased, cited>>

Of(s, E) == {e \in E : e[1] = s}

EventsOf(B) == {b[1] : b \in B}

TypeOK ==
  /\ consent \in [Scopes -> {"open", "paused", "forgotten"}]
  /\ readable \subseteq Body
  /\ erased \subseteq Event
  /\ cited \subseteq Event

Init ==
  /\ consent = [s \in Scopes |-> "open"]
  /\ readable = {}
  /\ erased = {}
  /\ cited = {}

\* A body is captured in an open scope, once for each event.
Capture(e, c) ==
  /\ consent[e[1]] = "open"
  /\ e \notin EventsOf(readable) \cup erased
  /\ readable' = readable \cup {<<e, c>>}
  /\ UNCHANGED <<consent, erased, cited>>

\* Retention erases bodies of one scope and nothing derived from them.
Erase(s, B) ==
  /\ B \subseteq {b \in readable : b[1][1] = s}
  /\ readable' = readable \ B
  /\ erased' = erased \cup EventsOf(B)
  /\ UNCHANGED <<consent, cited>>

\* Something is derived from the bodies of one scope that can be read now.
Cite(s, E) ==
  /\ E \subseteq Of(s, EventsOf(readable))
  /\ cited' = cited \cup E
  /\ UNCHANGED <<consent, readable, erased>>

\* Capture is paused or resumed, unless the scope was forgotten.
SetConsent(s, c) ==
  /\ consent[s] # "forgotten"
  /\ c \in {"open", "paused"}
  /\ consent' = [consent EXCEPT ![s] = c]
  /\ UNCHANGED <<readable, erased, cited>>

\* A scope is forgotten: its bodies and what was derived from them go.
Forget(s) ==
  /\ consent' = [consent EXCEPT ![s] = "forgotten"]
  /\ readable' = {b \in readable : b[1][1] # s}
  /\ erased' = erased \cup Of(s, EventsOf(readable))
  /\ cited' = cited \ Of(s, cited)

Next ==
  \/ \E e \in Event, c \in Contents : Capture(e, c)
  \/ \E s \in Scopes : \E B \in SUBSET readable : Erase(s, B)
  \/ \E s \in Scopes : \E E \in SUBSET Event : Cite(s, E)
  \/ \E s \in Scopes, c \in {"open", "paused"} : SetConsent(s, c)
  \/ \E s \in Scopes : Forget(s)

Spec == Init /\ [][Next]_vars

=============================================================================
