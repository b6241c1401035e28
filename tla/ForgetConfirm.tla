--------------------------- MODULE ForgetConfirm ----------------------------
(***************************************************************************)
(* The command "/mnemo forget": a first message is answered with a         *)
(* request to confirm, a second one within the window purges the scope.    *)
(* What is pending lives in the plugin's memory, for a scope and an actor. *)
(* A handler runs on the event loop up to its await, so that part is one   *)
(* step; the purge runs in a thread and may fail before or after its       *)
(* transaction commits.                                                    *)
(***************************************************************************)
EXTENDS Naturals

CONSTANTS
  Scopes,    \* the scopes
  Actors,    \* the accounts that send commands
  Permits,   \* the pairs of a scope and an actor that may control it
  Window,    \* 60 seconds
  Purges,    \* names of purges: bounds how many are made in a start
  MaxTime,   \* bound on the clock
  MaxStarts  \* bound on the starts of the plugin

ASSUME ForgetOK ==
  /\ Permits \subseteq Scopes \X Actors
  /\ Window \in Nat /\ MaxTime \in Nat /\ MaxStarts \in Nat

Words == {"confirm", "other"}

Idle == [scope |-> "", actor |-> "", stage |-> "idle"]

Purge == [scope : Scopes, actor : Actors,
          stage : {"waiting", "committed", "forgotten", "failed"}]

VARIABLES
  clock,      \* the time datetime.now() reads
  starts,     \* how often the plugin has started
  deadline,   \* _forget_confirmations: until when a confirmation is valid
  purges,     \* the purges that were started
  forgotten,  \* the scopes whose purge has committed
  asked,      \* history: when the last unused request to confirm was answered
  confirmed   \* history: the purges that were confirmed

forgetVars == <<clock, starts, deadline, purges, forgotten, asked, confirmed>>

-----------------------------------------------------------------------------
\* Fault: the key of a confirmation does not name the actor.
KeyOfScope(s, a) == {<<s, b>> : b \in Actors}

\* The confirmations that a message of this actor in this scope sets.
KeysOf(s, a) == {<<s, a>>}

\* Fault: the deadline is not looked at.
ConfirmsEver(k, word) == word = "confirm" /\ deadline[k] # 0

\* confirmation == "confirm" and expires_at >= now, with 0.0 for no deadline.
Confirms(k, word) == word = "confirm" /\ deadline[k] >= clock

ForgetInit ==
  /\ clock = 1
  /\ starts = 1
  /\ deadline = [k \in Scopes \X Actors |-> 0]
  /\ purges = [c \in Purges |-> Idle]
  /\ forgotten = {}
  /\ asked = [k \in Scopes \X Actors |-> 0]
  /\ confirmed = {}

Tick ==
  /\ clock < MaxTime
  /\ clock' = clock + 1
  /\ UNCHANGED <<starts, deadline, purges, forgotten, asked, confirmed>>

\* Any word but a timely "confirm" opens the window, a late "confirm" too. In a
\* group only the listed accounts get so far.
AskForgetting(s, a, word) ==
  /\ <<s, a>> \in Permits
  /\ ~Confirms(<<s, a>>, word)
  /\ deadline' = [k \in Scopes \X Actors |->
                    IF k \in KeysOf(s, a) THEN clock + Window ELSE deadline[k]]
  /\ asked' = [asked EXCEPT ![<<s, a>>] = clock]
  /\ UNCHANGED <<clock, starts, purges, forgotten, confirmed>>

\* Fault: a confirmation that was used stays valid.
UsedKept(k) == deadline

\* _forget_confirmations.pop before the await.
Used(k) == [deadline EXCEPT ![k] = 0]

ConfirmForgetting(s, a, word) ==
  /\ <<s, a>> \in Permits
  /\ Confirms(<<s, a>>, word)
  /\ deadline' = Used(<<s, a>>)
  /\ \E c \in Purges :
       /\ purges[c] = Idle
       /\ purges' = [purges EXCEPT ![c] = [scope |-> s, actor |-> a, stage |-> "waiting"]]
  /\ asked' = [asked EXCEPT ![<<s, a>>] = 0]
  /\ confirmed' = confirmed \cup {[scope |-> s, actor |-> a, asked |-> asked[<<s, a>>], at |-> clock]}
  /\ UNCHANGED <<clock, starts, forgotten>>

\* purge_scope takes the mutex of the store, which one call at a time has.
Commit(c) ==
  /\ purges[c].stage = "waiting"
  /\ \A b \in Purges : purges[b].stage # "committed"
  /\ purges' = [purges EXCEPT ![c].stage = "committed"]
  /\ forgotten' = forgotten \cup {purges[c].scope}
  /\ UNCHANGED <<clock, starts, deadline, asked, confirmed>>

\* What the actor reads at the end.
Told(c, text) ==
  /\ purges' = [purges EXCEPT ![c].stage = text]
  /\ UNCHANGED <<clock, starts, deadline, forgotten, asked, confirmed>>

\* Fault: the answer does not wait for the purge.
ForgetsUnfinished(c) == purges[c].stage \in {"waiting", "committed"} /\ Told(c, "forgotten")

\* The file was compacted and the scan found nothing.
Forgets(c) == purges[c].stage = "committed" /\ Told(c, "forgotten")

\* The store is closed or the transaction fails: nothing is changed.
FailsToCommit(c) == purges[c].stage = "waiting" /\ Told(c, "failed")

\* After the commit the compaction or the scan fails. The answer is the same.
FailsAfterCommit(c) == purges[c].stage = "committed" /\ Told(c, "failed")

\* A restart loses what is pending and every answer; what has committed stays.
Restart ==
  /\ starts < MaxStarts
  /\ starts' = starts + 1
  /\ deadline' = [k \in Scopes \X Actors |-> 0]
  /\ purges' = [c \in Purges |-> Idle]
  /\ UNCHANGED <<clock, forgotten, asked, confirmed>>

ForgetNext ==
  \/ Tick
  \/ \E s \in Scopes, a \in Actors, word \in Words :
       AskForgetting(s, a, word) \/ ConfirmForgetting(s, a, word)
  \/ \E c \in Purges : \/ Commit(c)
                   \/ FailsToCommit(c)
                   \/ Forgets(c)
                   \/ FailsAfterCommit(c)
  \/ Restart

ForgetSpec == ForgetInit /\ [][ForgetNext]_forgetVars

-----------------------------------------------------------------------------
(* Properties                                                              *)

ForgetTypeOK ==
  /\ clock \in Nat
  /\ starts \in Nat
  /\ deadline \in [Scopes \X Actors -> Nat]
  /\ purges \in [Purges -> Purge \cup {Idle}]
  /\ forgotten \subseteq Scopes
  /\ asked \in [Scopes \X Actors -> Nat]
  /\ confirmed \subseteq [scope : Scopes, actor : Actors, asked : Nat, at : Nat]

\* A purge takes two messages of one permitted actor in one scope: the first
\* was answered with the request to confirm, the second came within the window
\* after it, and no request serves two purges. A restart in between never
\* lets less than that suffice.
ConfirmedInTime ==
  \A p \in confirmed :
    /\ <<p.scope, p.actor>> \in Permits
    /\ 0 < p.asked /\ p.asked <= p.at /\ p.at <= p.asked + Window

\* Who reads that a scope is forgotten can rely on it.
AnswerHolds ==
  \A c \in Purges : purges[c].stage = "forgotten" => purges[c].scope \in forgotten

=============================================================================
