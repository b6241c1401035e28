---------------------------- MODULE KernelClient ----------------------------
(***************************************************************************)
(* The client every handler shares. Its calls run in threads, one lock     *)
(* keeps them apart; close() comes from a thread too, while the event loop *)
(* itself takes the lock when a page or /mnemo status asks whether the     *)
(* inspector is there. A call into the native module is one step: it keeps *)
(* the interpreter's lock from its begin to its return.                    *)
(***************************************************************************)
CONSTANTS
  Calls,   \* the calls that handlers make: bounds their number
  Loop,    \* the event loop
  Closer,  \* the thread of terminate
  Nobody   \* no process

ASSUME ClientOK ==
  /\ Loop \notin Calls /\ Closer \notin Calls /\ Loop # Closer
  /\ Nobody \notin Calls \cup {Loop, Closer}

Procs == Calls \cup {Loop, Closer}

Stages == {"idle", "waiting", "holding", "asking", "calling", "answered", "refused"}

VARIABLES
  native,      \* whether the client holds a native object
  available,   \* whether its status says so
  store,       \* the store in the native object: "none", "open" or "closed"
  closeRaises, \* whether close() of the native object raises
  inspects,    \* whether the native object has inspect_json
  holder,      \* who has the lock
  stage,       \* how far each process is
  inspecting,  \* the calls that are inspect()
  served       \* history: the calls that the store has executed

clientVars == <<native, available, store, closeRaises, inspects, holder, stage, inspecting, served>>

Fixed == <<closeRaises, inspects>>

-----------------------------------------------------------------------------
\* Fault: a lock that its holder cannot take again.
FreeOnce(p) == holder = Nobody

\* RLock: whoever has it can take it again.
Free(p) == holder \in {Nobody, p}

Available == native /\ available

\* Leaving the with block, by a return or an exception.
Leaves(p, end) ==
  /\ stage' = [stage EXCEPT ![p] = end]
  /\ holder' = Nobody

ClientInit ==
  /\ native = FALSE
  /\ available = FALSE
  /\ store = "none"
  /\ closeRaises \in BOOLEAN
  /\ inspects \in BOOLEAN
  /\ holder = Nobody
  /\ stage = [p \in Procs |-> "idle"]
  /\ inspecting \in SUBSET Calls
  /\ served = {}

\* KernelClient.open returns before anyone has the client. All goes well, or the
\* module or the store does not open, or the health, the protocol or the schema is
\* wrong: then the native object is closed and given up.
OpenClient ==
  /\ store = "none"
  /\ \/ native' = TRUE /\ available' = TRUE /\ store' = "open"
     \/ native' = FALSE /\ available' = FALSE /\ store' = "closed"
  /\ UNCHANGED <<Fixed, holder, stage, inspecting, served>>

\* A handler starts a call, when the event loop is not stuck in the lock itself.
\* The handler looked at available, without the lock, some awaits ago.
Dispatch(p) ==
  /\ store # "none"
  /\ stage[p] = "idle"
  /\ stage[Loop] \notin {"waiting", "holding"}
  /\ stage' = [stage EXCEPT ![p] = "waiting"]
  /\ UNCHANGED <<native, available, store, Fixed, holder, inspecting, served>>

Take(p) ==
  /\ stage[p] = "waiting"
  /\ Free(p)
  /\ holder' = p
  /\ stage' = [stage EXCEPT ![p] = "holding"]
  /\ UNCHANGED <<native, available, store, Fixed, inspecting, served>>

Require(p) ==
  /\ p \in Calls /\ stage[p] = "holding"
  /\ Available
  /\ stage' = [stage EXCEPT ![p] = IF p \in inspecting THEN "asking" ELSE "calling"]
  /\ UNCHANGED <<native, available, store, Fixed, holder, inspecting, served>>

\* _require_native raises KernelUnavailableError.
Refuse(p) ==
  /\ p \in Calls /\ stage[p] = "holding"
  /\ ~Available
  /\ Leaves(p, "refused")
  /\ UNCHANGED <<native, available, store, Fixed, inspecting, served>>

\* inspect() reads inspector_available, which takes the lock that inspect() has.
AskAgain(p) ==
  /\ stage[p] = "asking"
  /\ Free(p)
  /\ IF inspects THEN /\ stage' = [stage EXCEPT ![p] = "calling"]
                      /\ UNCHANGED holder
                 ELSE Leaves(p, "refused")
  /\ UNCHANGED <<native, available, store, Fixed, inspecting, served>>

\* The native call, its answer or its error. A closed one says so and does nothing.
CallNative(p) ==
  /\ stage[p] = "calling"
  /\ served' = IF store = "open" THEN served \cup {p} ELSE served
  /\ \E end \in {"answered", "refused"} :
       /\ store # "open" => end = "refused"
       /\ Leaves(p, end)
  /\ UNCHANGED <<native, available, store, Fixed, inspecting>>

\* inspector_available on the event loop, which does nothing else meanwhile.
LoopAsks ==
  /\ stage[Loop] = "holding"
  /\ Leaves(Loop, IF Available /\ inspects THEN "answered" ELSE "refused")
  /\ UNCHANGED <<native, available, store, Fixed, inspecting, served>>

\* Fault: the client is given up only after a close() that did not raise.
CloseIfClosed ==
  /\ stage[Closer] = "holding"
  /\ store' = IF native /\ ~closeRaises THEN "closed" ELSE store
  /\ native' = (native /\ closeRaises)
  /\ available' = (available /\ closeRaises)
  /\ Leaves(Closer, IF native /\ closeRaises THEN "refused" ELSE "answered")
  /\ UNCHANGED <<Fixed, inspecting, served>>

\* close(): whatever the native close() does, the client is unavailable after it.
Close ==
  /\ stage[Closer] = "holding"
  /\ store' = IF native /\ ~closeRaises THEN "closed" ELSE store
  /\ native' = FALSE
  /\ available' = FALSE
  /\ Leaves(Closer, IF native /\ closeRaises THEN "refused" ELSE "answered")
  /\ UNCHANGED <<Fixed, inspecting, served>>

ClientNext ==
  \/ OpenClient
  \/ \E p \in Procs : Dispatch(p) \/ Take(p) \/ Require(p) \/ Refuse(p) \/ AskAgain(p) \/ CallNative(p)
  \/ LoopAsks
  \/ Close

\* Threads run, native calls return, and a lock that is free for good is taken. The
\* lock has no queue: with calls without end a waiting one might never get it.
ClientFairness ==
  \A p \in Procs :
    WF_clientVars(Take(p) \/ Require(p) \/ Refuse(p) \/ AskAgain(p) \/ CallNative(p)
                    \/ (p = Loop /\ LoopAsks) \/ (p = Closer /\ Close))

ClientSpec == ClientInit /\ [][ClientNext]_clientVars /\ ClientFairness

-----------------------------------------------------------------------------
(* Properties                                                              *)

ClientTypeOK ==
  /\ native \in BOOLEAN /\ available \in BOOLEAN
  /\ store \in {"none", "open", "closed"}
  /\ closeRaises \in BOOLEAN /\ inspects \in BOOLEAN
  /\ holder \in Procs \cup {Nobody}
  /\ stage \in [Procs -> Stages]
  /\ inspecting \subseteq Calls
  /\ served \subseteq Calls

\* Whoever was given the native object calls it while its store is open: neither a
\* close() nor another call comes in between.
NativeAlone ==
  \A p \in Procs : stage[p] \in {"asking", "calling"} =>
    /\ store = "open" /\ holder = p
    /\ \A q \in Procs \ {p} : stage[q] \notin {"holding", "asking", "calling"}

\* After close() has ended, also by an exception of the native one, no call is
\* served, and those that wait for the lock are refused.
NothingAfterClose ==
  [][stage[Closer] \in {"answered", "refused"} => served' = served]_clientVars

\* Whoever waits for the lock gets out of it with an answer or an error: every
\* call, inspect() that takes the lock twice, the shutdown, and the event loop,
\* which the lock never blocks for ever, whatever the calls in threads do.
CallsReturn == \A p \in Procs : stage[p] = "waiting" ~> stage[p] \in {"answered", "refused"}

=============================================================================
