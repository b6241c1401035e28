-------------------------------- MODULE Diary --------------------------------
(***************************************************************************)
(* The diary of the plugin (main.py) over the store: automatic journals    *)
(* that a captured message starts, journals a command asks for, the life   *)
(* of the plugin around them, and the store operations that other handlers *)
(* call meanwhile. request_recall is not among them: it writes only        *)
(* audits, which nothing here reads.                                       *)
(*                                                                         *)
(* The handlers are coroutines of one event loop. A step goes from one     *)
(* await to the next: an awaited store call runs in a thread and is one    *)
(* step of KernelStore, or changes no row when it only reads. Every call   *)
(* takes the lock of KernelClient, so none runs while another holds it     *)
(* (busy), and it raises once the client was closed. The model call is     *)
(* outside the repository: it returns any proposal, raises, or never       *)
(* returns.                                                                *)
(***************************************************************************)
EXTENDS KernelStore

CONSTANTS
  Runs,          \* ids of runs of _summarize_journal: bounds those at once
  DueDays,       \* the days in the order in which the clock makes them due
  MaxStarts,     \* bound on the starts of the plugin
  LateCaptures   \* whether message handlers still run while terminate() does

Key == Scopes \X Days

Run == [kind : {"auto", "command"}, key : Key, start : Nat,
        pc : {"new", "check", "context", "model", "save", "cancelled"},
        proposal : Proposal \cup {None}]

\* A save_journal call in a thread whose task was cancelled.
Save == [key : Key, start : Nat, proposal : Proposal]

ASSUME DiaryConstantsOK ==
  /\ DueDays \in Seq(Days) /\ DueDays # <<>>
  /\ MaxStarts \in Nat \ {0}
  /\ LateCaptures \in BOOLEAN
  /\ None \notin Run \cup Proposal

VARIABLES
  life,       \* of the plugin: "running", "cancelling", "closing" or "down"
  starts,     \* the starts so far: names the plugin object and its client
  due,        \* index of the day that due_journal_date returns now
  arrived,    \* scopes of capture handlers between ingest and scheduling
  attempted,  \* _journal_attempted
  tasks,      \* the keys of _journal_tasks
  runs,       \* the runs of _summarize_journal
  gathered,   \* the runs whose end terminate() awaits
  threads,    \* saves that outlived their cancelled task
  autoSaved   \* history: the versions of a journal that automatic runs stored

pluginVars == <<life, starts, due, arrived, attempted, tasks>>

runVars == <<runs, gathered, threads, autoSaved>>

diaryVars == <<vars, pluginVars, runVars>>

-----------------------------------------------------------------------------
\* The client that a plugin object opened answers until that object closes it.
Available(start) == start = starts /\ life # "down"

Idle(r) == runs[r] = None /\ r \notin gathered

At(r, pc) == runs[r] # None /\ runs[r].pc = pc

\* A run is about to call the store and the lock is free.
Calls(r, pc) == At(r, pc) /\ busy = None

Moved(r, pc) == [runs EXCEPT ![r].pc = pc]

Ended(r) == [runs EXCEPT ![r] = None]

\* The done callback of a task takes its key out of its plugin's dictionary.
Released(r) ==
  IF runs[r].kind = "auto" /\ runs[r].start = starts THEN tasks \ {runs[r].key} ELSE tasks

DiaryInit ==
  /\ Init
  /\ life = "running" /\ starts = 1 /\ due = 1
  /\ arrived = {} /\ attempted = {} /\ tasks = {}
  /\ runs = [r \in Runs |-> None]
  /\ gathered = {} /\ threads = {}
  /\ autoSaved = [s \in Scopes |-> [d \in Days |-> 0]]

-----------------------------------------------------------------------------
(* Captures, and the automatic run they schedule                           *)

CapturesRun == life = "running" \/ (LateCaptures /\ life # "down")

\* The store answers "ok" to a new message and to a replay of a stored one.
\* A captured reply (capture_sent_message, main.py:390-421) is a message whose
\* handler stops here: it is ingested and Schedule is never taken for it.
CaptureMessage(e, content, time) ==
  /\ CapturesRun
  /\ \/ IngestEvent(e, content, time)
     \/ /\ busy = None
        /\ ~OptedOut(e[1])
        /\ events[e] # None /\ events[e].content = content /\ events[e].time = time
        /\ UNCHANGED vars
  /\ arrived' = arrived \cup {e[1]}
  /\ UNCHANGED <<life, starts, due, attempted, tasks, runVars>>

\* Fault: only tasks that have begun are looked up.
KnownIfBegun(key) == key \in attempted

\* Fault: attempts are not looked up.
KnownIfRunning(key) == key \in tasks

Known(key) == key \in attempted \cup tasks

\* _schedule_auto_journal, when the handler goes on after its ingest.
Schedule(s) ==
  LET key == <<s, DueDays[due]>> IN
  /\ CapturesRun
  /\ s \in arrived
  /\ arrived' = arrived \ {s}
  /\ \/ /\ Known(key)
        /\ UNCHANGED <<tasks, runs>>
     \/ /\ ~Known(key)
        /\ tasks' = tasks \cup {key}
        /\ \E r \in Runs :
             /\ Idle(r)
             /\ runs' = [runs EXCEPT ![r] = [kind |-> "auto", key |-> key, start |-> starts,
                                             pc |-> "new", proposal |-> None]]
  /\ UNCHANGED <<vars, life, starts, due, attempted, gathered, threads, autoSaved>>

\* The task begins: the attempt counts from here, whatever becomes of it.
BeginAuto(r) ==
  /\ At(r, "new")
  /\ IF runs[r].start = starts
       THEN attempted' = attempted \cup {runs[r].key} ELSE UNCHANGED attempted
  /\ IF Available(runs[r].start)
       THEN runs' = Moved(r, "check") /\ UNCHANGED tasks
       ELSE runs' = Ended(r) /\ tasks' = Released(r)
  /\ UNCHANGED <<vars, life, starts, due, arrived, gathered, threads, autoSaved>>

\* /mnemo summarize for any day: no check for a journal that exists.
Summarize(r, key) ==
  /\ life # "down"
  /\ Idle(r)
  /\ runs' = [runs EXCEPT ![r] = [kind |-> "command", key |-> key, start |-> starts,
                                  pc |-> "context", proposal |-> None]]
  /\ UNCHANGED <<vars, pluginVars, gathered, threads, autoSaved>>

-----------------------------------------------------------------------------
(* A run, from await to await                                              *)

\* Fault: an existing journal is not looked for.
CheckNothing(r) ==
  /\ Calls(r, "check")
  /\ Available(runs[r].start)
  /\ runs' = Moved(r, "context")
  /\ UNCHANGED <<vars, pluginVars, gathered, threads, autoSaved>>

\* skip_existing: an automatic run ends when the day has a journal already.
CheckExisting(r) ==
  LET s == runs[r].key[1]  d == runs[r].key[2] IN
  /\ Calls(r, "check")
  /\ Available(runs[r].start)
  /\ IF journals[s][d] = <<>>
       THEN runs' = Moved(r, "context") /\ UNCHANGED tasks
       ELSE runs' = Ended(r) /\ tasks' = Released(r)
  /\ UNCHANGED <<vars, life, starts, due, arrived, attempted, gathered, threads, autoSaved>>

\* A day without readable events ends the run, any other goes to the model.
ReadContext(r) ==
  /\ Calls(r, "context")
  /\ Available(runs[r].start)
  /\ IF Admitted(runs[r].key[1], runs[r].key[2]) # {}
       THEN runs' = Moved(r, "model") /\ UNCHANGED tasks
       ELSE runs' = Ended(r) /\ tasks' = Released(r)
  /\ UNCHANGED <<vars, life, starts, due, arrived, attempted, gathered, threads, autoSaved>>

\* Fault: the answer is lost on the way to the save.
AnswerLost(r, p) ==
  /\ At(r, "model")
  /\ runs' = Moved(r, "save")
  /\ UNCHANGED <<vars, pluginVars, gathered, threads, autoSaved>>

ModelAnswers(r, p) ==
  /\ At(r, "model")
  /\ runs' = [runs EXCEPT ![r].pc = "save", ![r].proposal = p]
  /\ UNCHANGED <<vars, pluginVars, gathered, threads, autoSaved>>

ModelFails(r) ==
  /\ At(r, "model")
  /\ runs' = Ended(r) /\ tasks' = Released(r)
  /\ UNCHANGED <<vars, life, starts, due, arrived, attempted, gathered, threads, autoSaved>>

\* What autoSaved counts after an automatic save for this key.
AutoSaves(key) ==
  [autoSaved EXCEPT ![key[1]][key[2]] = @ + Len(journals'[key[1]][key[2]])
                                            - Len(journals[key[1]][key[2]])]

SaveProposal(r) ==
  /\ At(r, "save")
  /\ Available(runs[r].start)
  /\ SaveJournal(runs[r].key[1], runs[r].key[2], runs[r].proposal)
  /\ autoSaved' = IF runs[r].kind = "auto" THEN AutoSaves(runs[r].key) ELSE autoSaved
  /\ runs' = Ended(r) /\ tasks' = Released(r)
  /\ UNCHANGED <<life, starts, due, arrived, attempted, gathered, threads>>

\* Fault: a call to a closed client hangs.
CallFailsWhenOpen(r) ==
  /\ \E pc \in {"check", "context", "save"} : Calls(r, pc)
  /\ Available(runs[r].start)
  /\ runs' = Ended(r) /\ tasks' = Released(r)
  /\ UNCHANGED <<vars, life, starts, due, arrived, attempted, gathered, threads, autoSaved>>

\* A call raises: the client is closed, the proposal is refused, or SQLite
\* reports an error. The run ends, and it wrote nothing.
CallFails(r) ==
  /\ \E pc \in {"check", "context", "save"} : Calls(r, pc)
  /\ runs' = Ended(r) /\ tasks' = Released(r)
  /\ UNCHANGED <<vars, life, starts, due, arrived, attempted, gathered, threads, autoSaved>>

CancelledEnds(r) ==
  /\ At(r, "cancelled")
  /\ runs' = Ended(r) /\ tasks' = Released(r)
  /\ UNCHANGED <<vars, life, starts, due, arrived, attempted, gathered, threads, autoSaved>>

\* Fault: a thread keeps the native object over the close of its client.
ThreadSavesAnyway(t) ==
  /\ t \in threads
  /\ SaveJournal(t.key[1], t.key[2], t.proposal)
  /\ autoSaved' = AutoSaves(t.key)
  /\ threads' = threads \ {t}
  /\ UNCHANGED <<pluginVars, runs, gathered>>

\* The thread of a cancelled save gets the lock before the client is closed.
ThreadSaves(t) ==
  /\ t \in threads
  /\ Available(t.start)
  /\ SaveJournal(t.key[1], t.key[2], t.proposal)
  /\ autoSaved' = AutoSaves(t.key)
  /\ threads' = threads \ {t}
  /\ UNCHANGED <<pluginVars, runs, gathered>>

\* It raises, with nobody to hear it, or was never started.
ThreadFails(t) ==
  /\ t \in threads
  /\ threads' = threads \ {t}
  /\ UNCHANGED <<vars, pluginVars, runs, gathered, autoSaved>>

-----------------------------------------------------------------------------
(* The life of the plugin                                                  *)

Registered ==
  {r \in Runs : runs[r] # None /\ runs[r].kind = "auto" /\ runs[r].start = starts
                  /\ runs[r].key \in tasks}

\* Fault: the tasks are awaited and not cancelled.
TerminateUncancelled ==
  /\ life = "running"
  /\ life' = IF Registered = {} THEN "closing" ELSE "cancelling"
  /\ gathered' = Registered
  /\ UNCHANGED <<vars, starts, due, arrived, attempted, tasks, runs, threads, autoSaved>>

\* terminate() cancels every task it finds, and goes on at once if there is
\* none. A save goes on in its thread.
Terminate ==
  /\ life = "running"
  /\ life' = IF Registered = {} THEN "closing" ELSE "cancelling"
  /\ gathered' = Registered
  /\ runs' = [r \in Runs |-> IF r \in Registered
                               THEN [runs[r] EXCEPT !.pc = "cancelled", !.proposal = None]
                               ELSE runs[r]]
  /\ threads' = threads \cup
       {[key |-> runs[r].key, start |-> starts, proposal |-> runs[r].proposal] :
          r \in {x \in Registered : runs[x].pc = "save"}}
  /\ UNCHANGED <<vars, starts, due, arrived, attempted, tasks, autoSaved>>

\* The gather returns when the cancelled tasks have ended, then the dictionary
\* is cleared.
Gathered ==
  /\ life = "cancelling"
  /\ \A r \in gathered : runs[r] = None
  /\ life' = "closing"
  /\ gathered' = {} /\ tasks' = {}
  /\ UNCHANGED <<vars, starts, due, arrived, attempted, runs, threads, autoSaved>>

\* close() waits for the lock.
Close ==
  /\ life = "closing"
  /\ busy = None
  /\ life' = "down"
  /\ UNCHANGED <<vars, starts, due, arrived, attempted, tasks, runVars>>

\* The process dies, at any moment.
Crash ==
  /\ life' = "down"
  /\ busy' = None
  /\ runs' = [r \in Runs |-> None]
  /\ gathered' = {} /\ threads' = {}
  /\ UNCHANGED <<events, policy, derivedVars, ledger, starts, due, arrived, attempted, tasks,
                 autoSaved>>

\* A new plugin object opens a client of its own. Runs and threads of the old
\* object may still be there.
Start ==
  /\ life = "down"
  /\ starts < MaxStarts
  /\ life' = "running" /\ starts' = starts + 1
  /\ arrived' = {} /\ attempted' = {} /\ tasks' = {}
  /\ UNCHANGED <<vars, due, runVars>>

Tick ==
  /\ due < Len(DueDays)
  /\ due' = due + 1
  /\ UNCHANGED <<vars, life, starts, arrived, attempted, tasks, runVars>>

\* The operations of the store that other handlers call; one of them goes on
\* with the lock after its commit.
OtherCall ==
  /\ life # "down"
  /\ \/ \E s \in Scopes, action \in {"pause", "resume"} : SetCapturePolicy(s, action)
     \/ \E s \in Scopes, id \in OpIds : PurgeScope(s, id)
     \/ \E s \in Scopes, cutoff \in Times, id \in OpIds : RetainPayloads(s, cutoff, id)
  /\ UNCHANGED <<pluginVars, runVars>>

Finish ==
  /\ ResidualScan \/ Interrupted
  /\ UNCHANGED <<pluginVars, runVars>>

-----------------------------------------------------------------------------
StoreCall(r) == CheckExisting(r) \/ ReadContext(r) \/ SaveProposal(r) \/ CallFails(r)

ThreadEnds(t) == ThreadSaves(t) \/ ThreadFails(t)

DiaryNext ==
  \/ \E e \in Event, c \in Contents, t \in Times : CaptureMessage(e, c, t)
  \/ \E s \in Scopes : Schedule(s)
  \/ \E r \in Runs, key \in Key : Summarize(r, key)
  \/ \E r \in Runs : BeginAuto(r) \/ StoreCall(r) \/ ModelFails(r) \/ CancelledEnds(r)
  \/ \E r \in Runs, p \in Proposals : ModelAnswers(r, p)
  \/ \E t \in threads : ThreadEnds(t)
  \/ Terminate \/ Gathered \/ Close \/ Crash \/ Start \/ Tick
  \/ OtherCall \/ Finish

DiarySpec == DiaryInit /\ [][DiaryNext]_diaryVars

\* The event loop and the threads go on, and a waiting thread gets the lock.
\* Nothing is assumed of the model, the clock, the users or the framework.
Fairness ==
  /\ \A r \in Runs : /\ WF_diaryVars(BeginAuto(r))
                     /\ WF_diaryVars(StoreCall(r))
                     /\ WF_diaryVars(CancelledEnds(r))
  /\ WF_diaryVars(Gathered)
  /\ WF_diaryVars(Close)
  /\ WF_diaryVars(Finish)

FairDiarySpec == DiarySpec /\ Fairness

-----------------------------------------------------------------------------
(* Properties                                                              *)

DiaryTypeOK ==
  /\ life \in {"running", "cancelling", "closing", "down"}
  /\ starts \in 1 .. MaxStarts /\ due \in 1 .. Len(DueDays)
  /\ arrived \subseteq Scopes
  /\ attempted \subseteq Key /\ tasks \subseteq Key
  /\ runs \in [Runs -> Run \cup {None}]
  /\ \A r \in Runs : At(r, "save") => runs[r].proposal # None
  /\ gathered \subseteq Runs
  /\ threads \subseteq Save
  /\ autoSaved \in [Scopes -> [Days -> Nat]]

\* "A restart or a repeated message makes no copy": over restarts and crashes,
\* automatic runs store at most one version of a day's journal: a save that terminate() cut off from its
\* task either lands before the close, where the next start finds it, or never.
NoCopies == \A s \in Scopes, d \in Days : autoSaved[s][d] <= 1

\* Until terminate() has cleared its tasks, a plugin object has one automatic
\* diary at a time for a scope and day, cancelled or not: the model is not
\* called twice at once for it.
OneAutoAtATime ==
  life \in {"running", "cancelling"} =>
    \A q, r \in {x \in Runs : runs[x] # None} :
      /\ runs[q].kind = "auto" /\ runs[q].start = starts
      /\ runs[r].kind = "auto" /\ runs[r].start = starts
      /\ runs[q].key = runs[r].key
      => q = r

\* A plugin object begins the automatic diary of a scope and day once: a run
\* that failed is not begun again by the messages that follow.
TriedOnce ==
  [][\A r \in Runs :
       /\ At(r, "new") /\ runs[r].start = starts
       /\ runs'[r] # None /\ runs'[r].pc = "check"
       => runs[r].key \notin attempted]_diaryVars

\* Once the plugin is down nothing it left behind changes the database: not a
\* command still waiting for the model, not the thread of a cancelled save.
SilentWhenDown == [][life = "down" => UNCHANGED vars]_diaryVars

\* "The journal exists, automatic diary skipped": an automatic run never puts
\* a version over a journal that is there.
AutoNeverReplaces ==
  [][\A s \in Scopes, d \in Days :
       autoSaved'[s][d] > autoSaved[s][d] => journals[s][d] = <<>>]_diaryVars

\* terminate() comes to its end although the model never answers.
ShutdownCompletes == life = "cancelling" ~> life = "down"

\* Every run ends or waits for the model, also one whose plugin was closed.
RunsMoveOn ==
  \A r \in Runs : runs[r] # None ~> (runs[r] = None \/ runs[r].pc = "model")

=============================================================================
