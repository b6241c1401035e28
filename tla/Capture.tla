------------------------------- MODULE Capture -------------------------------
(***************************************************************************)
(* From the platform's messages to source events. The platform may deliver *)
(* a message again, as a new event object; the bot may answer it, and the  *)
(* hook after sending may run again for one event object. A key made from  *)
(* the message decides what is the same source event. Digests are taken as *)
(* injective; what follows a stored message is in Diary.                   *)
(***************************************************************************)
EXTENDS Naturals

CONSTANTS
  Messages,    \* what the platform sends: scope, id or None, stamp or None, sender, content
  Deliveries,  \* event objects: bounds how often messages are delivered
  Replies,     \* texts the bot answers with
  Commands,    \* the messages that a command handler recognises
  Permitted,   \* the scopes that the configuration allows to capture
  None,        \* no message id, no timestamp, no key, no message
  LastTime     \* bound on the time that passes

ASSUME CaptureOK ==
  /\ None \notin Messages
  /\ Commands \subseteq Messages
  /\ \A m \in Messages : m.stamp \in Nat \cup {None}
  /\ LastTime \in Nat \ {0}

VARIABLES
  time,     \* what time.time() reads
  event,    \* which message an event object carries
  inbound,  \* its extra mnemokernel_inbound_source_key
  threads,  \* the source events on their way to the store
  rows,     \* raw_events: key, content and what it answers, by scope
  ended     \* history: the captures that the store took, with their event object

captureVars == <<time, event, inbound, threads, rows, ended>>

-----------------------------------------------------------------------------
Occurred(m, now) == IF m.stamp = None THEN now ELSE m.stamp

\* Fault: the time is a part of every key.
KeyWithTime(m, now) == <<"made", m.id, m.sender, Occurred(m, now), m.content>>

\* With an id of the platform the key is that id, else it is made from the message.
InboundKey(m, now) ==
  IF m.id # None THEN <<"platform", m.id>>
  ELSE <<"made", m.sender, Occurred(m, now), m.content>>

\* A key is a text with the platform in front of it.
ASSUME NoneIsNoKey == \A m \in Messages, now \in 0 .. LastTime : InboundKey(m, now) # None

\* Fault: the answer makes the key of its message anew.
ParentAnew(d) == InboundKey(event[d], time)

\* The key that was made when the message came in, if it was.
ParentKey(d) == IF inbound[d] # None THEN inbound[d] ELSE InboundKey(event[d], time)

SentKey(parent, text) == <<"bot", parent, text>>

SourceEvent(d, key, text, answers) ==
  [delivery |-> d, scope |-> event[d].scope, key |-> key, content |-> text, answers |-> answers]

Row(e) == [scope |-> e.scope, key |-> e.key, content |-> e.content, answers |-> e.answers]

-----------------------------------------------------------------------------
CaptureInit ==
  /\ time = 1
  /\ event = [d \in Deliveries |-> None]
  /\ inbound = [d \in Deliveries |-> None]
  /\ threads = {}
  /\ rows = {}
  /\ ended = {}

TimePasses ==
  /\ time < LastTime
  /\ time' = time + 1
  /\ UNCHANGED <<event, inbound, threads, rows, ended>>

\* capture_message up to its await. Commands are refused, and so is a message
\* without text (None), before the extra is set; a scope that may not capture
\* after it.
CaptureMessage(d, m) ==
  /\ event[d] = None
  /\ event' = [event EXCEPT ![d] = m]
  /\ IF m \in Commands \/ m.content = None
     THEN UNCHANGED <<inbound, threads>>
     ELSE /\ inbound' = [inbound EXCEPT ![d] = InboundKey(m, time)]
          /\ threads' = IF m.scope \notin Permitted THEN threads
                        ELSE threads \cup {[delivery |-> d, scope |-> m.scope, key |-> InboundKey(m, time),
                                            content |-> m.content, answers |-> None]}
  /\ UNCHANGED <<time, rows, ended>>

\* capture_sent_message up to its await, once for a sent result or again.
CaptureSent(d, text) ==
  /\ event[d] # None /\ event[d] \notin Commands
  /\ inbound' = [inbound EXCEPT ![d] = ParentKey(d)]
  /\ threads' = IF event[d].scope \notin Permitted THEN threads
                ELSE threads \cup {SourceEvent(d, SentKey(ParentKey(d), text), text, ParentKey(d))}
  /\ UNCHANGED <<time, event, rows, ended>>

Same(e) == {row \in rows : row.scope = e.scope /\ row.key = e.key}

\* Another content under a stored key is an IdempotencyConflict.
Agrees(e) == \A row \in Same(e) : row.content = e.content

\* ingest_event: the first source event with a key is inserted, the same again is ok.
Ingest(e) ==
  /\ Agrees(e)
  /\ rows' = IF Same(e) = {} THEN rows \cup {Row(e)} ELSE rows
  /\ ended' = ended \cup {e}
  /\ threads' = threads \ {e}
  /\ UNCHANGED <<time, event, inbound>>

\* The conflict, an unavailable kernel or an error of the database: nothing is stored.
IngestFails(e) ==
  /\ threads' = threads \ {e}
  /\ UNCHANGED <<time, event, inbound, rows, ended>>

CaptureNext ==
  \/ TimePasses
  \/ \E d \in Deliveries :
       \/ \E m \in Messages : CaptureMessage(d, m)
       \/ \E text \in Replies : CaptureSent(d, text)
  \/ \E e \in threads : Ingest(e) \/ IngestFails(e)

CaptureSpec == CaptureInit /\ [][CaptureNext]_captureVars

-----------------------------------------------------------------------------
(* Properties                                                              *)

Inbound(e) == e.answers = None

\* The rows that hold a message of the platform, over all its deliveries.
RowsOf(m) == {row \in rows : \E e \in ended : Inbound(e) /\ event[e.delivery] = m /\ row = Row(e)}

\* A message that the platform identifies, by an id or at least a time, is one source
\* event however often and whenever it is delivered.
StoredOnce ==
  \A m \in Messages :
    (m.id # None \/ m.stamp # None) => \A x, y \in RowsOf(m) : x = y

\* What the store took can be read back: no other message stands under its key.
TakenIsStored ==
  \A e \in ended : \E row \in rows :
    row.scope = e.scope /\ row.key = e.key /\ row.content = e.content

\* An answer names the message it answers, also when clock, retries and repeated
\* hooks come in between.
AnswersLinked ==
  \A x, y \in ended :
    Inbound(x) /\ ~Inbound(y) /\ x.delivery = y.delivery =>
      \E row \in rows : row.scope = x.scope /\ row.key = y.answers /\ row.content = x.content

\* Source events and messages agree: one for a message, and no other's content.
StoredExactly == StoredOnce /\ TakenIsStored

=============================================================================
