-------------------------- MODULE MemoryActivation --------------------------
(***************************************************************************)
(* The activation of memories, over the actions of KernelStore: a journal  *)
(* claim creates or raises a memory, maintenance lets idle memories decay  *)
(* towards a floor with a half-life of 30 days, measured from the column   *)
(* updated_at_ms that both write.                                          *)
(*                                                                         *)
(* Time counts half-lives. A value is what an activation has above the     *)
(* floor of 0.05, in units of 1 / (100 * 2^MaxClock): halving is exact     *)
(* before the clock ends, so no rounding hides or makes a difference.      *)
(***************************************************************************)
EXTENDS KernelStore

CONSTANT MaxClock  \* bound on the clock

ASSUME MaxClockOK == MaxClock \in Nat

VARIABLES
  clock,   \* the time now_ms() reads; nothing sets it back
  heat,    \* activation and updated_at_ms of a memory
  raised   \* history: the heat a memory had when a claim last raised it

heatVars == <<clock, heat, raised>>

allVars == <<vars, heatVars>>

-----------------------------------------------------------------------------
Unit == 2 ^ MaxClock

Fresh == 45 * Unit     \* 0.50, a new memory

Step == 10 * Unit      \* 0.10, what a claim adds

Ceiling == 95 * Unit   \* 1.00

Cold == [value |-> 0, at |-> 0]

AtMost(x, top) == IF x <= top THEN x ELSE top

\* n claims of one proposal, one after the other, on a memory that was stored
\* before or was not.
RaisedBy(row, h, n, now) ==
  [value |-> AtMost(IF row = None THEN Fresh + (n - 1) * Step ELSE h.value + n * Step, Ceiling),
   at    |-> now]

\* Fault: the decayed memory keeps its time, so the next run decays it again
\* for the same days.
DecayedInPlace(h, now) ==
  IF now <= h.at \/ h.value = 0 THEN h
  ELSE [h EXCEPT !.value = @ \div 2 ^ (now - h.at)]

\* decay_active_memories for one row.
Decayed(h, now) ==
  IF now <= h.at \/ h.value = 0 THEN h
  ELSE [value |-> h.value \div 2 ^ (now - h.at), at |-> now]

\* Fault: save_journal reads the clock before it waits for the mutex.
SaveTimesEarly == 0 .. clock

\* save_journal reads the clock when it holds the mutex, retain_payloads reads
\* it before it waits for the mutex: other operations may come in between.
SaveTimes == {clock}

RetainTimes == 0 .. clock

-----------------------------------------------------------------------------
HotInit ==
  /\ Init
  /\ clock = 0
  /\ heat = [s \in Scopes |-> [m \in Memory |-> Cold]]
  /\ raised = heat

Pass ==
  /\ clock < MaxClock
  /\ clock' = clock + 1
  /\ UNCHANGED <<vars, heat, raised>>

\* A new version raises the memories its claims hit, once for each claim; the
\* digest of the current version is not counted twice.
HotSaveJournal(s, d, p) ==
  /\ SaveJournal(s, d, p)
  /\ LET hit == {m \in Memory : /\ ~SameDigest(s, d, p)
                                /\ Hits(p, m) # {}
                                /\ ~TerminalMemory(s, m)}
     IN \E now \in SaveTimes :
          /\ heat' = [heat EXCEPT ![s] = [m \in Memory |->
               IF m \in hit
                 THEN RaisedBy(memories[s][m], heat[s][m], Cardinality(Hits(p, m)), now)
                 ELSE heat[s][m]]]
          /\ raised' = [raised EXCEPT ![s] = [m \in Memory |->
               IF m \in hit THEN heat'[s][m] ELSE raised[s][m]]]
  /\ UNCHANGED clock

\* Maintenance decays the active memories of the scope.
HotRetainPayloads(s, cutoff, id) ==
  /\ RetainPayloads(s, cutoff, id)
  /\ \E now \in RetainTimes :
       heat' = [heat EXCEPT ![s] = [m \in Memory |->
         IF memories[s][m] # None /\ memories[s][m].state = "active"
           THEN Decayed(heat[s][m], now) ELSE heat[s][m]]]
  /\ UNCHANGED <<clock, raised>>

HotPurgeScope(s, id) ==
  /\ PurgeScope(s, id)
  /\ heat' = [heat EXCEPT ![s] = [m \in Memory |-> Cold]]
  /\ raised' = [raised EXCEPT ![s] = heat'[s]]
  /\ UNCHANGED clock

\* The operations that leave activations alone, but for the recall.
Unheated ==
  /\ \/ \E e \in Event, c \in Contents, t \in Times : IngestEvent(e, c, t)
     \/ \E s \in Scopes, action \in {"pause", "resume"} : SetCapturePolicy(s, action)
     \/ \E s \in Scopes, m \in Memory, to \in MemoryStates : CurateMemory(s, m, to)
     \/ ResidualScan
     \/ Interrupted
  /\ UNCHANGED heatVars

HotNext ==
  \/ Pass
  \/ \E s \in Scopes, d \in Days, p \in Proposals : HotSaveJournal(s, d, p)
  \/ \E s \in Scopes, cutoff \in Times, id \in OpIds : HotRetainPayloads(s, cutoff, id)
  \/ \E s \in Scopes, id \in OpIds : HotPurgeScope(s, id)
  \/ Unheated

HotSpec == HotInit /\ [][HotNext]_allVars

-----------------------------------------------------------------------------
(* Properties                                                              *)

\* Decay has no memory of its own: however often maintenance runs, and however
\* long a run waits for the mutex, a memory lost exactly the half-lives from
\* the last raise to the last decay. A raise starts the count anew.
DecayIsMemoryless ==
  \A s \in Scopes, m \in Memory :
    /\ raised[s][m].at <= heat[s][m].at
    /\ heat[s][m].value * 2 ^ (heat[s][m].at - raised[s][m].at) = raised[s][m].value

\* The time a memory was last written never moves back, although maintenance
\* reads the clock before it has the mutex: no idle time counts twice.
TouchedNeverBack ==
  [][\A s \in Scopes, m \in Memory :
       memories[s][m] # None /\ memories'[s][m] # None =>
         heat[s][m].at <= heat'[s][m].at]_allVars

=============================================================================
