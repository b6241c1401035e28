--------------------------- MODULE PluginProofs ------------------------------
(***************************************************************************)
(* Proofs about the parts of the plugin in front of the kernel, for every  *)
(* number of scopes, actors, calls, messages and restarts: a purge takes two *)
(* messages in time, whoever was given the native object is alone with it, a *)
(* key stands for one message, and the first load takes the right package. *)
(***************************************************************************)
EXTENDS ForgetConfirm, KernelClient, NativeLoader, Capture, TLAPS

-----------------------------------------------------------------------------
(* Forget confirmation                                                     *)

Pairs == Scopes \X Actors

\* A deadline that is set is the window after a request that was answered and not
\* used, of an actor with the right. That the clock never reads 0 tells the
\* default 0.0 of an absent deadline from one that is set.
DeadlineOfRequest ==
  /\ clock > 0
  /\ \A k \in Pairs : deadline[k] # 0 =>
       /\ k \in Permits
       /\ 0 < asked[k] /\ asked[k] <= clock
       /\ deadline[k] = asked[k] + Window

\* A purge whose transaction has committed has forgotten its scope.
CommittedIsForgotten ==
  \A c \in Purges : purges[c].stage \in {"committed", "forgotten"} => purges[c].scope \in forgotten

ForgetInv == ForgetTypeOK /\ DeadlineOfRequest /\ ConfirmedInTime /\ CommittedIsForgotten

LEMMA IdleStage == Idle.stage = "idle"
  BY DEF Idle

\* A purge that was started is a call.
LEMMA StartedIsCall ==
  ASSUME ForgetTypeOK, NEW c \in Purges, purges[c].stage \in {"waiting", "committed"}
  PROVE  purges[c] \in Purge
  BY IdleStage DEF ForgetTypeOK

LEMMA InitForgetInv == ForgetInit => ForgetInv
<1> SUFFICES ASSUME ForgetInit
             PROVE  ForgetInv
  OBVIOUS
<1>1. ForgetTypeOK
  BY DEF ForgetInit, ForgetTypeOK
<1>2. DeadlineOfRequest /\ ConfirmedInTime
  BY DEF ForgetInit, DeadlineOfRequest, ConfirmedInTime, Pairs
<1>3. CommittedIsForgotten
  BY IdleStage DEF ForgetInit, CommittedIsForgotten
<1> QED
  BY <1>1, <1>2, <1>3 DEF ForgetInv

\* Only time passes: what is in time stays in time.
LEMMA ForgetTickKeepsInv ==
  ASSUME ForgetInv, Tick
  PROVE  ForgetInv'
<1> USE DEF ForgetInv, Tick
<1>1. ForgetTypeOK'
  BY DEF ForgetTypeOK
<1>2. DeadlineOfRequest'
  BY DEF ForgetTypeOK, DeadlineOfRequest, Pairs
<1>3. ConfirmedInTime' /\ CommittedIsForgotten'
  BY DEF ConfirmedInTime, CommittedIsForgotten
<1> QED
  BY <1>1, <1>2, <1>3

\* A request sets one deadline, a window after now.
LEMMA AskForgettingKeepsInv ==
  ASSUME ForgetInv, NEW s \in Scopes, NEW a \in Actors, NEW word \in Words,
         AskForgetting(s, a, word)
  PROVE  ForgetInv'
<1> USE DEF ForgetInv
<1>1. /\ \A k \in Pairs : k # <<s, a>> => deadline'[k] = deadline[k] /\ asked'[k] = asked[k]
      /\ deadline'[<<s, a>>] = clock + Window /\ asked'[<<s, a>>] = clock
      /\ deadline' \in [Pairs -> Nat] /\ asked' \in [Pairs -> Nat]
  BY ForgetOK DEF AskForgetting, KeysOf, ForgetTypeOK, Pairs
<1>2. ForgetTypeOK'
  BY <1>1 DEF ForgetTypeOK, AskForgetting, Pairs
<1>3. DeadlineOfRequest'
  <2> SUFFICES ASSUME NEW k \in Pairs, deadline'[k] # 0
               PROVE  /\ k \in Permits
                      /\ 0 < asked'[k] /\ asked'[k] <= clock
                      /\ deadline'[k] = asked'[k] + Window
    BY DEF DeadlineOfRequest, AskForgetting
  <2>1. CASE k = <<s, a>>
    BY <1>1, <2>1 DEF AskForgetting, DeadlineOfRequest
  <2>2. CASE k # <<s, a>>
    BY <1>1, <2>2 DEF DeadlineOfRequest
  <2> QED
    BY <2>1, <2>2
<1>4. ConfirmedInTime' /\ CommittedIsForgotten'
  BY DEF ConfirmedInTime, CommittedIsForgotten, AskForgetting
<1> QED
  BY <1>2, <1>3, <1>4

\* A confirmation uses the deadline, which was that of a request in the window.
LEMMA ConfirmForgettingKeepsInv ==
  ASSUME ForgetInv, NEW s \in Scopes, NEW a \in Actors, NEW word \in Words,
         ConfirmForgetting(s, a, word)
  PROVE  ForgetInv'
<1> USE DEF ForgetInv
<1>1. /\ \A k \in Pairs : k # <<s, a>> => deadline'[k] = deadline[k] /\ asked'[k] = asked[k]
      /\ deadline'[<<s, a>>] = 0 /\ asked'[<<s, a>>] = 0
      /\ deadline' \in [Pairs -> Nat] /\ asked' \in [Pairs -> Nat]
  BY DEF ConfirmForgetting, Used, ForgetTypeOK, Pairs
<1>2. <<s, a>> \in Pairs /\ deadline[<<s, a>>] # 0
  BY DEF ConfirmForgetting, Confirms, DeadlineOfRequest, ForgetTypeOK, Pairs
<1>3. /\ 0 < asked[<<s, a>>] /\ asked[<<s, a>>] <= clock
      /\ clock <= asked[<<s, a>>] + Window
  BY <1>2 DEF DeadlineOfRequest, ConfirmForgetting, Confirms
<1>4. PICK c \in Purges :
        purges' = [purges EXCEPT ![c] = [scope |-> s, actor |-> a, stage |-> "waiting"]]
  BY DEF ConfirmForgetting
<1>5. ForgetTypeOK'
  <2>1. purges' \in [Purges -> Purge \cup {Idle}]
    BY <1>4 DEF ForgetTypeOK, Purge
  <2>2. confirmed' \subseteq [scope : Scopes, actor : Actors, asked : Nat, at : Nat]
    BY <1>2 DEF ForgetTypeOK, ConfirmForgetting, Pairs
  <2> QED
    BY <1>1, <2>1, <2>2 DEF ForgetTypeOK, ConfirmForgetting, Pairs
<1>6. DeadlineOfRequest'
  BY <1>1 DEF DeadlineOfRequest, ConfirmForgetting
<1>7. ConfirmedInTime'
  <2> SUFFICES ASSUME NEW p \in confirmed'
               PROVE  /\ <<p.scope, p.actor>> \in Permits
                      /\ 0 < p.asked /\ p.asked <= p.at /\ p.at <= p.asked + Window
    BY DEF ConfirmedInTime
  <2>1. CASE p \in confirmed
    BY <2>1 DEF ConfirmedInTime
  <2>2. CASE p = [scope |-> s, actor |-> a, asked |-> asked[<<s, a>>], at |-> clock]
    BY <2>2, <1>3 DEF ConfirmForgetting
  <2> QED
    BY <2>1, <2>2 DEF ConfirmForgetting
<1>8. CommittedIsForgotten'
  BY <1>4 DEF CommittedIsForgotten, ConfirmForgetting, ForgetTypeOK
<1> QED
  BY <1>5, <1>6, <1>7, <1>8

\* The transaction of a purge forgets the scope for good.
LEMMA CommitKeepsInv ==
  ASSUME ForgetInv, NEW c \in Purges, Commit(c)
  PROVE  ForgetInv'
<1> USE DEF ForgetInv
<1>1. purges[c] \in Purge
  BY StartedIsCall DEF Commit
<1>2. ForgetTypeOK'
  BY <1>1 DEF Commit, ForgetTypeOK, Purge
<1>3. DeadlineOfRequest' /\ ConfirmedInTime'
  BY DEF Commit, DeadlineOfRequest, ConfirmedInTime
<1>4. CommittedIsForgotten'
  BY <1>1 DEF Commit, CommittedIsForgotten, ForgetTypeOK, Purge
<1> QED
  BY <1>2, <1>3, <1>4

\* An answer says "forgotten" only of a purge that has committed.
LEMMA AnsweredKeepsInv ==
  ASSUME ForgetInv, NEW c \in Purges, NEW text \in {"forgotten", "failed"},
         purges[c].stage \in {"waiting", "committed"},
         text = "forgotten" => purges[c].stage = "committed",
         Told(c, text)
  PROVE  ForgetInv'
<1> USE DEF ForgetInv
<1>1. purges[c] \in Purge
  BY StartedIsCall
<1>2. ForgetTypeOK'
  BY <1>1 DEF Told, ForgetTypeOK, Purge
<1>3. DeadlineOfRequest' /\ ConfirmedInTime'
  BY DEF Told, DeadlineOfRequest, ConfirmedInTime
<1>4. CommittedIsForgotten'
  BY <1>1 DEF Told, CommittedIsForgotten, ForgetTypeOK, Purge
<1> QED
  BY <1>2, <1>3, <1>4

\* A restart forgets deadlines and purges under way, but no scope comes back.
LEMMA RestartKeepsInv ==
  ASSUME ForgetInv, Restart
  PROVE  ForgetInv'
<1> USE DEF ForgetInv, Restart
<1>1. ForgetTypeOK'
  BY DEF ForgetTypeOK
<1>2. DeadlineOfRequest'
  BY DEF DeadlineOfRequest, Pairs
<1>3. ConfirmedInTime' /\ CommittedIsForgotten'
  BY IdleStage DEF ConfirmedInTime, CommittedIsForgotten
<1> QED
  BY <1>1, <1>2, <1>3

LEMMA ForgetNextKeepsInv == ForgetInv /\ [ForgetNext]_forgetVars => ForgetInv'
<1> SUFFICES ASSUME ForgetInv, [ForgetNext]_forgetVars
             PROVE  ForgetInv'
  OBVIOUS
<1>1. CASE Tick \/ Restart
  BY <1>1, ForgetTickKeepsInv, RestartKeepsInv
<1>2. CASE \E s \in Scopes, a \in Actors, word \in Words :
             AskForgetting(s, a, word) \/ ConfirmForgetting(s, a, word)
  BY <1>2, AskForgettingKeepsInv, ConfirmForgettingKeepsInv
<1>3. ASSUME NEW c \in Purges,
             Commit(c) \/ FailsToCommit(c) \/ Forgets(c) \/ FailsAfterCommit(c)
      PROVE  ForgetInv'
  BY <1>3, CommitKeepsInv, AnsweredKeepsInv DEF FailsToCommit, Forgets, FailsAfterCommit
<1>4. CASE UNCHANGED forgetVars
  BY <1>4 DEF forgetVars, ForgetInv, ForgetTypeOK, DeadlineOfRequest, ConfirmedInTime,
     CommittedIsForgotten
<1> QED
  BY <1>1, <1>2, <1>3, <1>4 DEF ForgetNext

\* The invariant holds in every reachable state.
THEOREM ForgetInvHolds == ForgetSpec => []ForgetInv
  BY InitForgetInv, ForgetNextKeepsInv, PTL DEF ForgetSpec

\* No purge without a request and a confirmation of one permitted actor in one
\* scope within the window, whatever other actors and restarts do (_forget_scope).
THEOREM PurgesAreConfirmed == ForgetSpec => []ConfirmedInTime
<1>1. ForgetInv => ConfirmedInTime
  BY DEF ForgetInv
<1> QED
  BY <1>1, ForgetInvHolds, PTL

\* The answer that the scope is forgotten comes after the commit of its purge.
THEOREM AnswersHold == ForgetSpec => []AnswerHolds
<1>1. ForgetInv => AnswerHolds
  BY DEF ForgetInv, CommittedIsForgotten, AnswerHolds
<1> QED
  BY <1>1, ForgetInvHolds, PTL

-----------------------------------------------------------------------------
(* The kernel client                                                       *)

\* Exactly the holder of the lock is inside a with block.
InsideIsHolder ==
  \A p \in Procs : stage[p] \in {"holding", "asking", "calling"} <=> holder = p

\* Only calls go on to the native object, and nobody gives it up meanwhile.
GivenIsThere ==
  \A p \in Procs : stage[p] \in {"asking", "calling"} => p \in Calls /\ native

\* A native object has an open store; nobody does anything before open() returned.
NativeIsOpen ==
  /\ native => store = "open"
  /\ store = "none" => \A p \in Procs : stage[p] = "idle"

\* close() gave the native object up, however it ended.
ClosedIsGone == stage[Closer] \in {"answered", "refused"} => ~native

ClientInv == ClientTypeOK /\ InsideIsHolder /\ GivenIsThere /\ NativeIsOpen /\ ClosedIsGone

LEMMA InitClientInv == ClientInit => ClientInv
  BY ClientOK DEF ClientInit, ClientInv, ClientTypeOK, InsideIsHolder, GivenIsThere,
     NativeIsOpen, ClosedIsGone, Procs, Stages

\* The closer and the loop are processes of their own.
LEMMA ProcsApart ==
  /\ Loop \in Procs /\ Closer \in Procs /\ Loop # Closer /\ Calls \subseteq Procs
  /\ Closer \notin Calls /\ Loop \notin Calls /\ Nobody \notin Procs
  BY ClientOK DEF Procs

\* open() returns before anybody has the client.
LEMMA OpenKeepsInv == ClientInv /\ OpenClient => ClientInv'
<1> SUFFICES ASSUME ClientInv, OpenClient
             PROVE  ClientInv'
  OBVIOUS
<1>1. ClientTypeOK'
  BY DEF ClientInv, ClientTypeOK, OpenClient, Fixed
<1>2. InsideIsHolder'
  BY DEF ClientInv, InsideIsHolder, OpenClient
<1>3. GivenIsThere' /\ ClosedIsGone'
  BY ProcsApart DEF ClientInv, NativeIsOpen, GivenIsThere, ClosedIsGone, OpenClient
<1>4. NativeIsOpen'
  BY DEF ClientInv, NativeIsOpen, OpenClient
<1> QED
  BY <1>1, <1>2, <1>3, <1>4 DEF ClientInv

\* A process that leaves the lock alone, and the native object too.
LEMMA OutsideKeepsInv ==
  ASSUME ClientInv, NEW p \in Procs, Dispatch(p)
  PROVE  ClientInv'
<1>1. ClientTypeOK'
  BY DEF ClientInv, ClientTypeOK, Dispatch, Stages, Fixed
<1>2. InsideIsHolder' /\ GivenIsThere'
  BY DEF ClientInv, ClientTypeOK, InsideIsHolder, GivenIsThere, Dispatch
<1>3. NativeIsOpen' /\ ClosedIsGone'
  BY ProcsApart DEF ClientInv, ClientTypeOK, NativeIsOpen, ClosedIsGone, Dispatch
<1> QED
  BY <1>1, <1>2, <1>3 DEF ClientInv

\* A process takes the lock that nobody has.
LEMMA TakeKeepsInv ==
  ASSUME ClientInv, NEW p \in Procs, Take(p)
  PROVE  ClientInv'
<1>1. ClientTypeOK'
  BY DEF ClientInv, ClientTypeOK, Take, Stages, Fixed
<1>2. holder = Nobody
  BY DEF ClientInv, InsideIsHolder, Take, Free
<1>3. InsideIsHolder' /\ GivenIsThere'
  BY <1>2, ProcsApart DEF ClientInv, ClientTypeOK, InsideIsHolder, GivenIsThere, Take
<1>4. NativeIsOpen' /\ ClosedIsGone'
  BY ProcsApart DEF ClientInv, ClientTypeOK, NativeIsOpen, ClosedIsGone, Take
<1> QED
  BY <1>1, <1>3, <1>4 DEF ClientInv

\* A call that holds the lock goes on with the native object.
LEMMA RequireKeepsInv ==
  ASSUME ClientInv, NEW p \in Procs, Require(p)
  PROVE  ClientInv'
<1>1. ClientTypeOK'
  BY DEF ClientInv, ClientTypeOK, Require, Stages, Fixed
<1>2. InsideIsHolder' /\ GivenIsThere'
  BY DEF ClientInv, ClientTypeOK, InsideIsHolder, GivenIsThere, Require, Available
<1>3. NativeIsOpen' /\ ClosedIsGone'
  BY ProcsApart DEF ClientInv, ClientTypeOK, NativeIsOpen, ClosedIsGone, Require
<1> QED
  BY <1>1, <1>2, <1>3 DEF ClientInv

\* Leaving the lock, when the native object stays as it is, or goes away and it is
\* the closer that leaves.
LEMMA LeavingKeepsInv ==
  ASSUME ClientInv, NEW p \in Procs, NEW end \in {"answered", "refused"},
         stage[p] \in {"holding", "asking", "calling"},
         Leaves(p, end),
         native' \in BOOLEAN, available' \in BOOLEAN, store' \in {"none", "open", "closed"},
         UNCHANGED <<Fixed, inspecting>>,
         served' \subseteq Calls,
         native' => native /\ p # Closer /\ store' = "open",
         native => native' \/ p = Closer,
         store' = "none" => store = "none"
  PROVE  ClientInv'
<1> USE DEF ClientInv
<1>1. ClientTypeOK'
  BY ProcsApart DEF ClientTypeOK, Leaves, Stages, Fixed
<1>2. holder = p
  BY DEF InsideIsHolder
<1>3. InsideIsHolder'
  BY <1>2, ProcsApart DEF ClientTypeOK, InsideIsHolder, Leaves
<1>4. GivenIsThere'
  BY <1>2, <1>3, ProcsApart DEF ClientTypeOK, InsideIsHolder, GivenIsThere, Leaves
<1>5. NativeIsOpen'
  BY DEF NativeIsOpen
<1>6. ClosedIsGone'
  BY ProcsApart DEF ClientTypeOK, ClosedIsGone, Leaves
<1> QED
  BY <1>1, <1>3, <1>4, <1>5, <1>6 DEF ClientInv

\* The exception of _require_native leaves the lock.
LEMMA RefuseKeepsInv ==
  ASSUME ClientInv, NEW p \in Procs, Refuse(p)
  PROVE  ClientInv'
  BY LeavingKeepsInv, ProcsApart
     DEF Refuse, ClientInv, ClientTypeOK, NativeIsOpen

\* Asking for the inspector goes on or leaves the lock.
LEMMA AskAgainKeepsInv ==
  ASSUME ClientInv, NEW p \in Procs, AskAgain(p)
  PROVE  ClientInv'
<1>1. CASE inspects
  <2> USE <1>1 DEF AskAgain
  <2>1. ClientTypeOK'
    BY DEF ClientInv, ClientTypeOK, Stages, Fixed
  <2>2. InsideIsHolder' /\ GivenIsThere'
    BY DEF ClientInv, ClientTypeOK, InsideIsHolder, GivenIsThere
  <2>3. NativeIsOpen' /\ ClosedIsGone'
    BY ProcsApart DEF ClientInv, ClientTypeOK, NativeIsOpen, ClosedIsGone
  <2> QED
    BY <2>1, <2>2, <2>3 DEF ClientInv
<1>2. CASE ~inspects
  <2>1. p # Closer /\ stage[p] = "asking" /\ Leaves(p, "refused")
    BY <1>2, ProcsApart DEF AskAgain, ClientInv, GivenIsThere
  <2> QED
    BY <2>1, LeavingKeepsInv DEF AskAgain, ClientInv, ClientTypeOK, NativeIsOpen
<1> QED
  BY <1>1, <1>2

\* A native call returns or raises, and leaves the lock.
LEMMA CallNativeKeepsInv ==
  ASSUME ClientInv, NEW p \in Procs, CallNative(p)
  PROVE  ClientInv'
<1>1. p \in Calls /\ p # Closer
  BY ProcsApart DEF CallNative, ClientInv, GivenIsThere
<1>2. PICK end \in {"answered", "refused"} : Leaves(p, end)
  BY DEF CallNative
<1>3. served' \subseteq Calls
  BY <1>1 DEF CallNative, ClientInv, ClientTypeOK
<1> QED
  BY <1>1, <1>2, <1>3, LeavingKeepsInv DEF CallNative, ClientInv, ClientTypeOK, NativeIsOpen

\* The event loop leaves the lock at once.
LEMMA LoopAsksKeepsInv ==
  ASSUME ClientInv, LoopAsks
  PROVE  ClientInv'
<1>1. PICK end \in {"answered", "refused"} : Leaves(Loop, end)
  BY DEF LoopAsks
<1> QED
  BY <1>1, ProcsApart, LeavingKeepsInv DEF LoopAsks, ClientInv, ClientTypeOK, NativeIsOpen

\* close() leaves the lock with the native object given up.
LEMMA CloseKeepsInv ==
  ASSUME ClientInv, Close
  PROVE  ClientInv'
<1>1. PICK end \in {"answered", "refused"} : Leaves(Closer, end)
  BY DEF Close
<1>2. store' = "none" => store = "none"
  BY DEF Close
<1>3. store' \in {"none", "open", "closed"}
  BY DEF Close, ClientInv, ClientTypeOK
<1> QED
  BY <1>1, <1>2, <1>3, ProcsApart, LeavingKeepsInv DEF Close, ClientInv, ClientTypeOK

LEMMA ClientNextKeepsInv == ClientInv /\ [ClientNext]_clientVars => ClientInv'
<1> SUFFICES ASSUME ClientInv, [ClientNext]_clientVars
             PROVE  ClientInv'
  OBVIOUS
<1>1. CASE OpenClient
  BY <1>1, OpenKeepsInv
<1>2. ASSUME NEW p \in Procs, Dispatch(p) \/ Take(p) \/ Require(p)
      PROVE  ClientInv'
  BY <1>2, OutsideKeepsInv, TakeKeepsInv, RequireKeepsInv
<1>3. ASSUME NEW p \in Procs, Refuse(p) \/ AskAgain(p) \/ CallNative(p)
      PROVE  ClientInv'
  BY <1>3, RefuseKeepsInv, AskAgainKeepsInv, CallNativeKeepsInv
<1>4. CASE LoopAsks \/ Close
  BY <1>4, LoopAsksKeepsInv, CloseKeepsInv
<1>5. CASE UNCHANGED clientVars
  BY <1>5 DEF clientVars, ClientInv, ClientTypeOK, InsideIsHolder, GivenIsThere,
     NativeIsOpen, ClosedIsGone
<1> QED
  BY <1>1, <1>2, <1>3, <1>4, <1>5 DEF ClientNext

\* The invariant holds in every reachable state.
THEOREM ClientInvHolds == ClientSpec => []ClientInv
  BY InitClientInv, ClientNextKeepsInv, PTL DEF ClientSpec

\* Whoever passed _require_native calls an open store, alone, until it leaves the
\* lock, for any number of handlers and whenever close() comes.
THEOREM NativeIsUsedAlone == ClientSpec => []NativeAlone
<1>1. ClientInv => NativeAlone
  BY DEF ClientInv, InsideIsHolder, GivenIsThere, NativeIsOpen, NativeAlone
<1> QED
  BY <1>1, ClientInvHolds, PTL

\* The store executes nothing after close() has ended, also when the native
\* close() raised.
THEOREM CloseIsFinal == ClientSpec => NothingAfterClose
<1>1. ClientInv /\ [ClientNext]_clientVars
        => [stage[Closer] \in {"answered", "refused"} => served' = served]_clientVars
  <2> SUFFICES ASSUME ClientInv, ClientNext, stage[Closer] \in {"answered", "refused"}
               PROVE  served' = served
    BY DEF clientVars
  <2>1. \A p \in Procs : stage[p] # "calling"
    BY DEF ClientInv, GivenIsThere, ClosedIsGone
  <2>2. CASE \E p \in Procs : Dispatch(p) \/ Take(p) \/ Require(p) \/ Refuse(p) \/ AskAgain(p)
    BY <2>2 DEF Dispatch, Take, Require, Refuse, AskAgain
  <2>3. CASE OpenClient \/ LoopAsks \/ Close
    BY <2>3 DEF OpenClient, LoopAsks, Close
  <2> QED
    BY <2>1, <2>2, <2>3 DEF ClientNext, CallNative
<1> QED
  BY <1>1, ClientInvHolds, PTL DEF ClientSpec, NothingAfterClose

-----------------------------------------------------------------------------
(* Capture                                                                 *)

SourceEvents == threads \cup ended

\* The time can be read, and event objects carry messages of the platform.
CaptureTypeOK ==
  /\ time \in 0 .. LastTime
  /\ event \in [Deliveries -> Messages \cup {None}]
  /\ DOMAIN inbound = Deliveries

\* The extra is set on event objects only that carry a message.
ExtraOfMessage == \A d \in Deliveries : inbound[d] # None => event[d] # None

\* A source event belongs to the message of its event object; an inbound one has
\* the key in the object's extra, an outbound one answers that key.
EventOfMessage(e) ==
  /\ e.delivery \in Deliveries
  /\ event[e.delivery] # None
  /\ inbound[e.delivery] # None
  /\ ~Inbound(e) => e.answers = inbound[e.delivery]
  /\ Inbound(e) =>
       \E now \in 0 .. LastTime :
         /\ e.key = inbound[e.delivery] /\ e.key = InboundKey(event[e.delivery], now)
         /\ e.scope = event[e.delivery].scope /\ e.content = event[e.delivery].content

EventsOfMessages == \A e \in SourceEvents : EventOfMessage(e)

CaptureInv == CaptureTypeOK /\ ExtraOfMessage /\ EventsOfMessages /\ TakenIsStored

LEMMA InitCaptureInv == CaptureInit => CaptureInv
  BY CaptureOK DEF CaptureInit, CaptureInv, CaptureTypeOK, ExtraOfMessage,
     EventsOfMessages, SourceEvents, TakenIsStored

\* What an event object once carries, and the key it once got, stay: then what was
\* true of a source event stays true.
LEMMA ObjectsStay ==
  ASSUME CaptureInv, CaptureTypeOK',
         \A d \in Deliveries : event[d] # None => event'[d] = event[d],
         \A d \in Deliveries : inbound[d] # None => inbound'[d] = inbound[d],
         NEW e \in SourceEvents
  PROVE  EventOfMessage(e)'
  BY DEF CaptureInv, EventsOfMessages, EventOfMessage, Inbound

LEMMA CaptureTickKeepsInv ==
  ASSUME CaptureInv, TimePasses
  PROVE  CaptureInv'
<1>1. CaptureTypeOK'
  BY CaptureOK DEF CaptureInv, CaptureTypeOK, TimePasses
<1>2. ExtraOfMessage' /\ TakenIsStored'
  BY DEF CaptureInv, ExtraOfMessage, TakenIsStored, TimePasses
<1>3. EventsOfMessages'
  BY <1>1, ObjectsStay DEF EventsOfMessages, SourceEvents, TimePasses
<1> QED
  BY <1>1, <1>2, <1>3 DEF CaptureInv

\* A message that comes in gets its key from the message and the time.
LEMMA CaptureMessageKeepsInv ==
  ASSUME CaptureInv, NEW d \in Deliveries, NEW m \in Messages, CaptureMessage(d, m)
  PROVE  CaptureInv'
<1> USE DEF CaptureInv
<1>1. event'[d] = m /\ m # None /\ event[d] = None /\ inbound[d] = None
  BY CaptureOK DEF CaptureMessage, CaptureTypeOK, ExtraOfMessage
<1>2. CaptureTypeOK'
  BY DEF CaptureTypeOK, CaptureMessage
<1>3. /\ \A c \in Deliveries : event[c] # None => event'[c] = event[c]
      /\ \A c \in Deliveries : inbound[c] # None => inbound'[c] = inbound[c]
  BY <1>1 DEF CaptureMessage, CaptureTypeOK
<1>4. ExtraOfMessage'
  <2> SUFFICES ASSUME NEW c \in Deliveries, inbound'[c] # None
               PROVE  event'[c] # None
    BY DEF ExtraOfMessage
  <2>1. CASE c = d
    BY <1>1, <2>1
  <2>2. CASE c # d
    BY <2>2 DEF CaptureMessage, CaptureTypeOK, ExtraOfMessage
  <2> QED
    BY <2>1, <2>2
<1>5. EventsOfMessages'
  <2> SUFFICES ASSUME NEW e \in SourceEvents'
               PROVE  EventOfMessage(e)'
    BY DEF EventsOfMessages
  <2>1. CASE e \in SourceEvents
    BY <1>2, <1>3, <2>1, ObjectsStay
  <2>2. CASE e \notin SourceEvents
    <3>1. /\ e = [delivery |-> d, scope |-> m.scope, key |-> InboundKey(m, time),
                  content |-> m.content, answers |-> None]
          /\ inbound' = [inbound EXCEPT ![d] = InboundKey(m, time)]
      BY <2>2 DEF CaptureMessage, SourceEvents
    <3>2. inbound'[d] = InboundKey(m, time) /\ inbound'[d] # None /\ time \in 0 .. LastTime
      BY <3>1, NoneIsNoKey DEF CaptureTypeOK
    <3> QED
      BY <1>1, <3>1, <3>2 DEF EventOfMessage, Inbound
  <2> QED
    BY <2>1, <2>2
<1>6. TakenIsStored'
  BY DEF TakenIsStored, CaptureMessage
<1> QED
  BY <1>2, <1>4, <1>5, <1>6

\* An answer names the key in the extra, or sets it.
LEMMA CaptureSentKeepsInv ==
  ASSUME CaptureInv, NEW d \in Deliveries, NEW text \in Replies, CaptureSent(d, text)
  PROVE  CaptureInv'
<1> USE DEF CaptureInv
<1>1. event[d] # None /\ event' = event /\ inbound' = [inbound EXCEPT ![d] = ParentKey(d)]
  BY DEF CaptureSent
<1>2. CaptureTypeOK'
  BY <1>1 DEF CaptureTypeOK, CaptureSent
<1>3. ParentKey(d) # None
  <2>1. event[d] \in Messages /\ time \in 0 .. LastTime
    BY <1>1 DEF CaptureTypeOK
  <2> QED
    BY <2>1, NoneIsNoKey DEF ParentKey
<1>4. inbound'[d] = ParentKey(d) /\ \A c \in Deliveries : inbound[c] # None => inbound'[c] = inbound[c]
  BY <1>1 DEF CaptureTypeOK, ParentKey
<1>5. ExtraOfMessage'
  BY <1>1 DEF ExtraOfMessage, CaptureTypeOK
<1>6. EventsOfMessages'
  <2> SUFFICES ASSUME NEW e \in SourceEvents'
               PROVE  EventOfMessage(e)'
    BY DEF EventsOfMessages
  <2>1. CASE e \in SourceEvents
    BY <1>1, <1>2, <1>4, <2>1, ObjectsStay
  <2>2. CASE e \notin SourceEvents
    <3>1. e = SourceEvent(d, SentKey(ParentKey(d), text), text, ParentKey(d))
      BY <2>2 DEF CaptureSent, SourceEvents
    <3>2. e.delivery = d /\ e.answers = ParentKey(d)
      BY <3>1 DEF SourceEvent
    <3> QED
      BY <1>1, <1>3, <1>4, <3>2 DEF EventOfMessage, Inbound
  <2> QED
    BY <2>1, <2>2
<1>7. TakenIsStored'
  BY DEF TakenIsStored, CaptureSent
<1> QED
  BY <1>2, <1>5, <1>6, <1>7

\* The store takes what it has, or inserts it.
LEMMA IngestKeepsInv ==
  ASSUME CaptureInv, NEW e \in threads, Ingest(e)
  PROVE  CaptureInv'
<1> USE DEF CaptureInv
<1>1. CaptureTypeOK' /\ ExtraOfMessage'
  BY DEF CaptureTypeOK, ExtraOfMessage, Ingest
<1>2. EventsOfMessages'
  <2>1. SourceEvents' = SourceEvents /\ event' = event /\ inbound' = inbound
    BY DEF SourceEvents, Ingest
  <2> QED
    BY <1>1, <2>1, ObjectsStay DEF EventsOfMessages
<1>3. TakenIsStored'
  <2>1. rows \subseteq rows'
    BY DEF Ingest
  <2>2. \E row \in rows' : row.scope = e.scope /\ row.key = e.key /\ row.content = e.content
    <3>1. CASE Same(e) = {}
      <4>1. Row(e) \in rows'
        BY <3>1 DEF Ingest
      <4>2. Row(e).scope = e.scope /\ Row(e).key = e.key /\ Row(e).content = e.content
        BY DEF Row
      <4> QED
        BY <4>1, <4>2
    <3>2. CASE Same(e) # {}
      BY <2>1, <3>2 DEF Ingest, Agrees, Same
    <3> QED
      BY <3>1, <3>2
  <2>3. ended' = ended \cup {e}
    BY DEF Ingest
  <2> QED
    BY <2>1, <2>2, <2>3 DEF TakenIsStored
<1> QED
  BY <1>1, <1>2, <1>3

LEMMA IngestFailsKeepsInv ==
  ASSUME CaptureInv, NEW e \in threads, IngestFails(e)
  PROVE  CaptureInv'
<1> USE DEF CaptureInv
<1>1. CaptureTypeOK' /\ ExtraOfMessage' /\ TakenIsStored'
  BY DEF CaptureTypeOK, ExtraOfMessage, TakenIsStored, IngestFails
<1>2. EventsOfMessages'
  <2>1. SourceEvents' \subseteq SourceEvents /\ event' = event /\ inbound' = inbound
    BY DEF SourceEvents, IngestFails
  <2> QED
    BY <1>1, <2>1, ObjectsStay DEF EventsOfMessages
<1> QED
  BY <1>1, <1>2

LEMMA CaptureNextKeepsInv == CaptureInv /\ [CaptureNext]_captureVars => CaptureInv'
<1> SUFFICES ASSUME CaptureInv, [CaptureNext]_captureVars
             PROVE  CaptureInv'
  OBVIOUS
<1>1. CASE TimePasses
  BY <1>1, CaptureTickKeepsInv
<1>2. CASE \E d \in Deliveries : \/ \E m \in Messages : CaptureMessage(d, m)
                                 \/ \E text \in Replies : CaptureSent(d, text)
  BY <1>2, CaptureMessageKeepsInv, CaptureSentKeepsInv
<1>3. CASE \E e \in threads : Ingest(e) \/ IngestFails(e)
  BY <1>3, IngestKeepsInv, IngestFailsKeepsInv
<1>4. CASE UNCHANGED captureVars
  <2> USE <1>4 DEF captureVars, CaptureInv
  <2>1. CaptureTypeOK' /\ ExtraOfMessage' /\ TakenIsStored'
    BY DEF CaptureTypeOK, ExtraOfMessage, TakenIsStored
  <2>2. EventsOfMessages'
    BY <2>1, ObjectsStay DEF EventsOfMessages, SourceEvents
  <2> QED
    BY <2>1, <2>2
<1> QED
  BY <1>1, <1>2, <1>3, <1>4 DEF CaptureNext

\* The invariant holds in every reachable state.
THEOREM CaptureInvHolds == CaptureSpec => []CaptureInv
  BY InitCaptureInv, CaptureNextKeepsInv, PTL DEF CaptureSpec

\* What the store took stands under its key, with its content: an edited message is
\* refused, never taken for stored (KernelStore::ingest_event).
THEOREM TakenAreStored == CaptureSpec => []TakenIsStored
<1>1. CaptureInv => TakenIsStored
  BY DEF CaptureInv
<1> QED
  BY <1>1, CaptureInvHolds, PTL

\* A message with an id or a time of the platform is one source event over all its
\* deliveries (_inbound_source_key).
THEOREM IdentifiedAreStoredOnce == CaptureSpec => []StoredOnce
<1>1. ASSUME CaptureInv
      PROVE  StoredOnce
  <2> SUFFICES ASSUME NEW m \in Messages, m.id # None \/ m.stamp # None,
                      NEW x \in RowsOf(m), NEW y \in RowsOf(m)
               PROVE  x = y
    BY DEF StoredOnce
  <2>1. PICK e \in ended : Inbound(e) /\ event[e.delivery] = m /\ x = Row(e)
    BY DEF RowsOf
  <2>2. PICK f \in ended : Inbound(f) /\ event[f.delivery] = m /\ y = Row(f)
    BY DEF RowsOf
  <2>3. \A s, t \in 0 .. LastTime : InboundKey(m, s) = InboundKey(m, t)
    BY DEF InboundKey, Occurred
  <2>4. EventOfMessage(e) /\ EventOfMessage(f)
    BY <1>1 DEF CaptureInv, EventsOfMessages, SourceEvents
  <2>5. e.key = f.key /\ e.scope = f.scope /\ e.content = f.content /\ e.answers = f.answers
    BY <2>1, <2>2, <2>3, <2>4 DEF EventOfMessage, Inbound
  <2> QED
    BY <2>1, <2>2, <2>5 DEF Row
<1> QED
  BY <1>1, CaptureInvHolds, PTL

\* Both together: an identified message is one source event, with the content that
\* the store took.
THEOREM StoredAreExact == CaptureSpec => []StoredExactly
<1>1. StoredOnce /\ TakenIsStored => StoredExactly
  BY DEF StoredExactly
<1> QED
  BY <1>1, IdentifiedAreStoredOnce, TakenAreStored, PTL

\* An answer names the key that its message was stored under (normalize_sent_event).
THEOREM AnswersAreLinked == CaptureSpec => []AnswersLinked
<1>1. ASSUME CaptureInv
      PROVE  AnswersLinked
  <2> SUFFICES ASSUME NEW x \in ended, NEW y \in ended,
                      Inbound(x), ~Inbound(y), x.delivery = y.delivery
               PROVE  \E row \in rows :
                        row.scope = x.scope /\ row.key = y.answers /\ row.content = x.content
    BY DEF AnswersLinked
  <2>1. x.key = y.answers
    BY <1>1 DEF CaptureInv, EventsOfMessages, SourceEvents, EventOfMessage
  <2> QED
    BY <1>1, <2>1 DEF CaptureInv, TakenIsStored
<1> QED
  BY <1>1, CaptureInvHolds, PTL

-----------------------------------------------------------------------------
(* The native loader                                                       *)

Binary == Versions \cup {Missing}

Imported == [package : [place : Places, version : Binary],
             binary  : Binary,
             raised  : {"nothing", "ImportError", "NameError"}]

\* A package is not imported without its binary.
Whole(r) == r \in Imported /\ (r.binary = Missing => r.package = NoPackage)

LoaderInv ==
  /\ runtime \in Inspecting \cup {Missing} /\ wheel \in Inspecting \cup {Missing}
  /\ installed \in Binary /\ broken \subseteq Places
  /\ Whole(Result(package, binary, "nothing"))

\* What is found at a place is a version or nothing.
LEMMA FoundIsBinary == ASSUME LoaderInv, NEW place \in Places PROVE Found(place) \in Binary
BY LoaderOK DEF LoaderInv, Binary, Found

\* No package looks like a package.
LEMMA NoPackageType == NoPackage \in [place : Places, version : Binary]
BY DEF NoPackage, Places, Binary

\* An import leaves no package without its binary.
LEMMA ImportIsWhole ==
  ASSUME LoaderInv, NEW place \in Places, NEW r, Whole(r)
  PROVE  Whole(Import(place, r))
<1> USE FoundIsBinary, NoPackageType DEF Whole, Imported, Import, Result
<1>1. CASE r.package # NoPackage
  BY <1>1
<1>2. CASE r.package = NoPackage /\ Found(place) = Missing
  BY <1>2
<1>3. CASE r.package = NoPackage /\ Found(place) # Missing /\ r.binary # Missing
  BY <1>3
<1>4. CASE r.package = NoPackage /\ Found(place) # Missing /\ r.binary = Missing
  <2>1. CASE place \in broken
    BY <1>4, <2>1
  <2>2. CASE place \notin broken
    BY <1>4, <2>2
  <2> QED BY <2>1, <2>2
<1> QED BY <1>1, <1>2, <1>3, <1>4

\* Nor does the removal of a stale package.
LEMMA PopIsWhole ==
  ASSUME NEW place, NEW r, Whole(r) PROVE Whole(PopStale(place, r))
BY NoPackageType DEF Whole, Imported, PopStale

LEMMA ImportRuntimeIsWhole ==
  ASSUME LoaderInv, NEW place \in Places, NEW r, Whole(r)
  PROVE  Whole(ImportRuntime(place, r))
<1> DEFINE got == Import(place, PopStale(place, r))
           checked == IF got.raised = "nothing" /\ got.package.version \notin Inspecting
                      THEN [got EXCEPT !.raised = "ImportError"] ELSE got
<1>1. Whole(got)
  BY PopIsWhole, ImportIsWhole
<1>2. r.binary = Missing => r.package = NoPackage
  BY DEF Whole
<1>3. PopStale(place, r).binary = r.binary
  BY DEF PopStale, Whole, Imported
<1>4. got.binary = Missing => r.binary = Missing
  BY <1>3 DEF Import, Result
<1>5. ImportRuntime(place, r) = IF checked.raised = "ImportError" THEN [checked EXCEPT !.package = r.package] ELSE checked
  BY DEF ImportRuntime
<1> HIDE DEF got
<1>6. Whole(checked) /\ (checked.binary = Missing => r.binary = Missing)
  BY <1>1, <1>4 DEF Whole, Imported
<1> HIDE DEF checked
<1> QED BY <1>2, <1>5, <1>6 DEF Whole, Imported

LEMMA ImportInstalledIsWhole ==
  ASSUME LoaderInv, NEW r, Whole(r)
  PROVE  Whole(ImportInstalled(r))
<1>1. Whole(Import("installed", r))
  BY ImportIsWhole DEF Places
<1> QED BY <1>1, NoPackageType DEF ImportInstalled, Whole, Imported

\* The three attempts, one after the other, leave a whole interpreter.
LEMMA LoadIsWhole ==
  ASSUME LoaderInv, NEW r, Whole(r)
  PROVE  Whole(LoadNative(r))
<1> DEFINE afterRuntime == IF runtime = Missing THEN [r EXCEPT !.raised = "ImportError"]
                           ELSE ImportRuntime("runtime", r)
           afterWheel   == IF afterRuntime.raised = "nothing" \/ wheel = Missing THEN afterRuntime
                           ELSE ImportRuntime("repaired", afterRuntime)
<1>1. Whole(afterRuntime)
  <2>1. Whole([r EXCEPT !.raised = "ImportError"])
    BY DEF Whole, Imported
  <2>2. Whole(ImportRuntime("runtime", r))
    BY ImportRuntimeIsWhole DEF Places
  <2> QED BY <2>1, <2>2
<1> HIDE DEF afterRuntime
<1>2. Whole(afterWheel)
  BY <1>1, ImportRuntimeIsWhole DEF Places
<1> HIDE DEF afterWheel
<1>3. Whole(ImportInstalled(afterWheel))
  BY <1>2, ImportInstalledIsWhole
<1>4. LoadNative(r) = IF afterWheel.raised = "nothing" THEN afterWheel ELSE ImportInstalled(afterWheel)
  BY DEF LoadNative, afterWheel, afterRuntime
<1> QED BY <1>2, <1>3, <1>4

\* A new process has imported nothing.
LEMMA InitLoaderInv == LoaderInit => LoaderInv
<1> SUFFICES ASSUME LoaderInit PROVE LoaderInv
  OBVIOUS
<1>1. package = [place |-> "installed", version |-> binary] /\ binary \in Binary
  BY DEF LoaderInit, Binary
<1>2. Whole(Result(package, binary, "nothing"))
  BY <1>1 DEF Whole, Result, Imported, NoPackage, Places
<1> QED BY <1>2 DEF LoaderInit, LoaderInv, Binary

LEMMA LoaderNextKeepsInv == LoaderInv /\ [LoaderNext]_loaderVars => LoaderInv'
<1> SUFFICES ASSUME LoaderInv, [LoaderNext]_loaderVars PROVE LoaderInv'
  OBVIOUS
<1>1. CASE LoadClient
  <2> DEFINE r == LoadNative(Result(package, binary, "nothing"))
  <2>1. Whole(r)
    BY LoadIsWhole DEF LoaderInv
  <2>2. package' = r.package /\ binary' = r.binary /\ UNCHANGED files
    BY <1>1 DEF LoadClient
  <2> HIDE DEF r
  <2>3. Whole(Result(r.package, r.binary, "nothing"))
    BY <2>1 DEF Whole, Imported, Result
  <2> QED BY <2>2, <2>3 DEF LoaderInv, files, Whole, Imported, Result, Binary, NoPackage
<1>2. CASE CloseClient
  BY <1>2 DEF CloseClient, LoaderInv, files, Whole, Imported, Result, Binary, NoPackage
<1>3. ASSUME NEW v \in Inspecting, UploadRelease(v) PROVE LoaderInv'
  BY <1>3 DEF UploadRelease, LoaderInv, Whole, Imported, Result, Binary, NoPackage
<1>4. ASSUME NEW v \in Versions, InstallRequirement(v) PROVE LoaderInv'
  BY <1>4 DEF InstallRequirement, LoaderInv, Whole, Imported, Result, Binary, NoPackage
<1>5. CASE StartProcess
  BY <1>5, NoPackageType DEF StartProcess, LoaderInv, files, Whole, Imported, Result, Binary, NoPackage
<1>6. CASE UNCHANGED loaderVars
  BY <1>6 DEF loaderVars, files, LoaderInv, Whole, Imported, Result, Binary, NoPackage
<1> QED BY <1>1, <1>2, <1>3, <1>4, <1>5, <1>6 DEF LoaderNext

-----------------------------------------------------------------------------
\* What a process has that imported nothing, or nothing that could be loaded.
NothingImported(raised) == Result(NoPackage, Missing, raised)

\* The first import of a process finds what can be loaded, and else leaves nothing.
LEMMA FirstImport ==
  ASSUME NEW place \in Places, NEW raised
  PROVE  Import(place, NothingImported(raised)) =
           IF Loadable(place)
           THEN Result([place |-> place, version |-> Found(place)], Found(place), "nothing")
           ELSE NothingImported("ImportError")
BY DEF Import, NothingImported, Result, Loadable

\* The first attempt at a place takes what can be loaded there: nothing is stale.
LEMMA FirstImportRuntime ==
  ASSUME NEW place \in Places, NEW raised, Found(place) \in Inspecting \cup {Missing}
  PROVE  ImportRuntime(place, NothingImported(raised)) =
           IF Loadable(place)
           THEN Result([place |-> place, version |-> Found(place)], Found(place), "nothing")
           ELSE NothingImported("ImportError")
<1>1. PopStale(place, NothingImported(raised)) = NothingImported(raised)
  BY DEF PopStale, NothingImported, Result
<1> DEFINE got == Import(place, NothingImported(raised))
<1>2. ImportRuntime(place, NothingImported(raised)) =
        LET checked == IF got.raised = "nothing" /\ got.package.version \notin Inspecting
                       THEN [got EXCEPT !.raised = "ImportError"] ELSE got
        IN IF checked.raised = "ImportError" THEN [checked EXCEPT !.package = NothingImported(raised).package] ELSE checked
  BY <1>1 DEF ImportRuntime
<1>3. CASE Loadable(place)
  <2>1. got = Result([place |-> place, version |-> Found(place)], Found(place), "nothing") /\ Found(place) \in Inspecting
    BY <1>3, FirstImport DEF Loadable
  <2> HIDE DEF got
  <2> QED BY <1>2, <1>3, <2>1 DEF Result
<1>4. CASE ~Loadable(place)
  <2>1. got = NothingImported("ImportError")
    BY <1>4, FirstImport
  <2> HIDE DEF got
  <2> QED BY <1>2, <1>4, <2>1 DEF NothingImported, Result
<1> QED BY <1>3, <1>4

\* The first load: from the runtime directory, else the wheel, else what is installed.
LEMMA FirstLoad ==
  ASSUME LoaderInv, LoadClient, binary = Missing
  PROVE  client' = IF Loadable("runtime") THEN runtime
                   ELSE IF Loadable("repaired") THEN wheel
                   ELSE IF Loadable("installed") THEN installed
                   ELSE Missing
<1> DEFINE r == NothingImported("nothing")
           afterRuntime == IF runtime = Missing THEN [r EXCEPT !.raised = "ImportError"]
                           ELSE ImportRuntime("runtime", r)
           afterWheel   == IF afterRuntime.raised = "nothing" \/ wheel = Missing THEN afterRuntime
                           ELSE ImportRuntime("repaired", afterRuntime)
           Got(place)   == Result([place |-> place, version |-> Found(place)], Found(place), "nothing")
<1>1. Result(package, binary, "nothing") = r
  BY DEF LoaderInv, Whole, NothingImported, Result
<1>2. Found("runtime") = runtime /\ Found("repaired") = wheel /\ Found("installed") = installed
  BY DEF Found
<1>3. afterRuntime = IF Loadable("runtime") THEN Got("runtime") ELSE NothingImported("ImportError")
  <2>1. CASE runtime = Missing
    BY <1>2, <2>1 DEF Loadable, NothingImported, Result
  <2>2. CASE runtime # Missing
    BY <1>2, <2>2, FirstImportRuntime DEF LoaderInv, Places
  <2> QED BY <2>1, <2>2
<1> HIDE DEF afterRuntime
<1>4. afterWheel = IF Loadable("runtime") THEN Got("runtime")
                   ELSE IF Loadable("repaired") THEN Got("repaired") ELSE NothingImported("ImportError")
  <2>1. CASE Loadable("runtime")
    BY <1>3, <2>1 DEF Result
  <2>2. CASE ~Loadable("runtime") /\ wheel = Missing
    BY <1>2, <1>3, <2>2 DEF Loadable
  <2>3. CASE ~Loadable("runtime") /\ wheel # Missing
    <3>1. afterRuntime = NothingImported("ImportError") /\ afterRuntime.raised # "nothing"
      BY <1>3, <2>3 DEF NothingImported, Result
    <3> QED BY <1>2, <2>3, <3>1, FirstImportRuntime DEF LoaderInv, Places
  <2> QED BY <2>1, <2>2, <2>3
<1> HIDE DEF afterWheel
<1>5. LoadNative(r) = IF afterWheel.raised = "nothing" THEN afterWheel ELSE ImportInstalled(afterWheel)
  BY DEF LoadNative, afterWheel, afterRuntime
<1> DEFINE got == LoadNative(r)
<1>6. client' = IF got.raised = "nothing" THEN got.package.version ELSE Missing
  BY <1>1 DEF LoadClient
<1> HIDE DEF r
<1>7. CASE Loadable("runtime")
  BY <1>2, <1>4, <1>5, <1>6, <1>7 DEF Result
<1>8. CASE ~Loadable("runtime") /\ Loadable("repaired")
  BY <1>2, <1>4, <1>5, <1>6, <1>8 DEF Result
<1>9. CASE ~Loadable("runtime") /\ ~Loadable("repaired")
  <2>1. afterWheel = NothingImported("ImportError") /\ got = ImportInstalled(NothingImported("ImportError"))
    BY <1>4, <1>5, <1>9 DEF NothingImported, Result
  <2> DEFINE i == Import("installed", NothingImported("ImportError"))
  <2>2. i = IF Loadable("installed") THEN Got("installed") ELSE NothingImported("ImportError")
    BY FirstImport DEF Places
  <2>3. got = IF i.raised = "nothing" THEN i ELSE [i EXCEPT !.package = NoPackage]
    BY <2>1 DEF ImportInstalled
  <2> HIDE DEF i, got
  <2> QED BY <1>2, <1>6, <1>9, <2>2, <2>3 DEF NothingImported, Result
<1> QED BY <1>7, <1>8, <1>9

\* Whatever was uploaded, installed and loaded before the process started, and
\* whichever binaries cannot be loaded: the first load of a process takes the
\* plugin's runtime, then its wheel, then what is installed, as
\* _load_native_module means to.
THEOREM FirstLoadIsRight == LoaderSpec => FirstLoadRight
<1>1. LoaderSpec => []LoaderInv
  BY InitLoaderInv, LoaderNextKeepsInv, PTL DEF LoaderSpec
<1>2. LoaderInv /\ [LoaderNext]_loaderVars =>
        [LoadClient /\ binary = Missing =>
           client' = IF Loadable("runtime") THEN runtime
                     ELSE IF Loadable("repaired") THEN wheel
                     ELSE IF Loadable("installed") THEN installed
                     ELSE Missing]_loaderVars
  BY FirstLoad
<1> QED BY <1>1, <1>2, PTL DEF LoaderSpec, FirstLoadRight

=============================================================================
