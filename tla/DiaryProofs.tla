----------------------------- MODULE DiaryProofs -----------------------------
(***************************************************************************)
(* Theorems about Diary, for every value of its constants: the plugin only *)
(* takes steps of the store, so what KernelStoreProofs says of the store   *)
(* holds under it; and what the plugin's own bookkeeping keeps from        *)
(* happening twice.                                                        *)
(***************************************************************************)
EXTENDS Diary, KernelStoreProofs

\* An automatic run of the plugin object that is there now.
AutoNow(r) == runs[r] # None /\ runs[r].kind = "auto" /\ runs[r].start = starts

Places == {"new", "check", "context", "model", "save", "cancelled"}

\* What a run is, as far as the proofs look.
Sound(x) ==
  /\ x \in Run
  /\ x.pc = "save" => x.proposal \in Proposals
  /\ x.pc = "new" => x.kind = "auto"
  /\ x.start <= starts

SoundSave(t) == t \in Save /\ t.proposal \in Proposals /\ t.start <= starts

RunsSound ==
  /\ runs \in [Runs -> Run \cup {None}]
  /\ \A r \in Runs : runs[r] # None => Sound(runs[r])

ThreadsSound == \A t \in threads : SoundSave(t)

RestTyped ==
  /\ life \in {"running", "cancelling", "closing", "down"}
  /\ starts \in 1 .. MaxStarts /\ due \in 1 .. Len(DueDays)
  /\ arrived \subseteq Scopes
  /\ attempted \subseteq Key /\ tasks \subseteq Key
  /\ gathered \subseteq Runs
  /\ autoSaved \in [Scopes -> [Days -> Nat]]

DiaryTypes == RunsSound /\ ThreadsSound /\ RestTyped

-----------------------------------------------------------------------------
(* What a step does to one run                                             *)

OnlyRun(r) == \A q \in Runs : q # r => runs'[q] = runs[q]

\* A run goes on: the same run in another place.
GoesOn(r) ==
  /\ runs[r] # None /\ runs[r].pc \in {"new", "check", "context", "model"}
  /\ OnlyRun(r)
  /\ runs' \in [Runs -> Run \cup {None}]
  /\ runs'[r] # None /\ runs'[r] \in Run
  /\ runs'[r].pc \in {"check", "context", "model", "save"}
  /\ runs'[r].kind = runs[r].kind
  /\ runs'[r].key = runs[r].key
  /\ runs'[r].start = runs[r].start
  /\ runs'[r].pc = "save" => runs'[r].proposal \in Proposals
  /\ UNCHANGED <<life, starts, due, arrived, tasks, gathered, threads, autoSaved>>

\* A run ends and gives its key back.
Ends(r) ==
  /\ runs[r] # None
  /\ OnlyRun(r)
  /\ runs' \in [Runs -> Run \cup {None}]
  /\ runs'[r] = None
  /\ tasks' = Released(r)
  /\ UNCHANGED <<life, starts, due, arrived, gathered, threads>>

\* A run in another place is a run.
LEMMA MovedRun ==
  ASSUME NEW x \in Run, NEW pc \in Places, NEW y, y = [x EXCEPT !.pc = pc]
  PROVE  /\ y \in Run
         /\ y.kind = x.kind /\ y.key = x.key /\ y.start = x.start
         /\ y.pc = pc /\ y.proposal = x.proposal
BY DEF Run, Places

\* None is neither a run nor a proposal.
LEMMA NoneIsNoRun == None \notin Run /\ None \notin Proposal
BY DiaryConstantsOK

\* Moving a run from one place to the next leaves the same run.
LEMMA MovedGoesOn ==
  ASSUME RunsSound, NEW r \in Runs, runs[r] # None,
         runs[r].pc \in {"new", "check", "context", "model"},
         NEW pc \in {"check", "context", "model"}, runs' = Moved(r, pc),
         UNCHANGED <<life, starts, due, arrived, tasks, gathered, threads, autoSaved>>
  PROVE  GoesOn(r) /\ runs'[r].pc = pc
<1>1. runs[r] \in Run /\ runs'[r] = [runs[r] EXCEPT !.pc = pc]
  BY DEF RunsSound, Moved
<1>2. pc \in Places
  BY DEF Places
<1>3. /\ runs'[r] \in Run
      /\ runs'[r].kind = runs[r].kind /\ runs'[r].key = runs[r].key
      /\ runs'[r].start = runs[r].start
      /\ runs'[r].pc = pc
  BY <1>1, <1>2, MovedRun
<1>4. OnlyRun(r)
  BY DEF RunsSound, Moved, OnlyRun
<1>5. runs' \in [Runs -> Run \cup {None}]
  BY <1>1, <1>3 DEF RunsSound, Moved
<1> QED
  BY <1>3, <1>4, <1>5, NoneIsNoRun DEF GoesOn

\* Ending a run leaves no run in its place.
LEMMA EndedEnds ==
  ASSUME RunsSound, NEW r \in Runs, runs[r] # None, runs' = Ended(r), tasks' = Released(r),
         UNCHANGED <<life, starts, due, arrived, gathered, threads>>
  PROVE  Ends(r)
BY DEF RunsSound, Ended, Ends, OnlyRun

\* The steps of a run keep it or end it.
LEMMA RunSteps ==
  ASSUME RunsSound, NEW r \in Runs
  PROVE  /\ BeginAuto(r) => (GoesOn(r) /\ runs'[r].pc = "check") \/ Ends(r)
         /\ CheckExisting(r) => (GoesOn(r) /\ runs'[r].pc = "context") \/ Ends(r)
         /\ ReadContext(r) => (GoesOn(r) /\ runs'[r].pc = "model") \/ Ends(r)
         /\ \A p \in Proposals : ModelAnswers(r, p) => GoesOn(r) /\ runs'[r].pc = "save"
         /\ ModelFails(r) \/ CallFails(r) \/ CancelledEnds(r) \/ SaveProposal(r) => Ends(r)
<1>1. ASSUME BeginAuto(r) PROVE (GoesOn(r) /\ runs'[r].pc = "check") \/ Ends(r)
  BY <1>1, MovedGoesOn, EndedEnds DEF BeginAuto, At
<1>2. ASSUME CheckExisting(r) PROVE (GoesOn(r) /\ runs'[r].pc = "context") \/ Ends(r)
  BY <1>2, MovedGoesOn, EndedEnds DEF CheckExisting, Calls, At
<1>3. ASSUME ReadContext(r) PROVE (GoesOn(r) /\ runs'[r].pc = "model") \/ Ends(r)
  BY <1>3, MovedGoesOn, EndedEnds DEF ReadContext, Calls, At
<1>4. ASSUME NEW p \in Proposals, ModelAnswers(r, p) PROVE GoesOn(r) /\ runs'[r].pc = "save"
  <2>1. runs[r] \in Run /\ runs[r] # None /\ runs[r].pc = "model"
    BY <1>4 DEF RunsSound, ModelAnswers, At
  <2>2. runs'[r] = [runs[r] EXCEPT !.pc = "save", !.proposal = p]
    BY <1>4, <2>1 DEF RunsSound, ModelAnswers
  <2>3. p \in Proposal \cup {None}
    BY ConstantsOK
  <2>4. /\ runs'[r] \in Run
        /\ runs'[r].kind = runs[r].kind /\ runs'[r].key = runs[r].key
        /\ runs'[r].start = runs[r].start
        /\ runs'[r].pc = "save" /\ runs'[r].proposal = p
    BY <2>1, <2>2, <2>3 DEF Run
  <2>5. OnlyRun(r)
    BY <1>4 DEF RunsSound, ModelAnswers, OnlyRun
  <2>6. runs' \in [Runs -> Run \cup {None}]
    BY <1>4, <2>2, <2>4 DEF RunsSound, ModelAnswers
  <2> QED
    BY <1>4, <2>1, <2>4, <2>5, <2>6, NoneIsNoRun DEF GoesOn, ModelAnswers, pluginVars
<1>5. ASSUME ModelFails(r) \/ CallFails(r) \/ CancelledEnds(r) \/ SaveProposal(r) PROVE Ends(r)
  BY <1>5, EndedEnds DEF ModelFails, CallFails, CancelledEnds, SaveProposal, Calls, At
<1> QED
  BY <1>1, <1>2, <1>3, <1>4, <1>5

\* terminate() leaves every run it cancels the same run, and the others alone.
LEMMA TerminatedRuns ==
  ASSUME RunsSound, Terminate
  PROVE  /\ runs' \in [Runs -> Run \cup {None}]
         /\ \A r \in Runs : r \notin Registered => runs'[r] = runs[r]
         /\ \A r \in Registered :
              /\ runs'[r] # None /\ runs'[r] \in Run
              /\ runs'[r].kind = runs[r].kind /\ runs'[r].key = runs[r].key
              /\ runs'[r].start = runs[r].start
              /\ runs'[r].pc = "cancelled"
<1>1. ASSUME NEW r \in Registered
      PROVE  /\ runs'[r] # None /\ runs'[r] \in Run
             /\ runs'[r].kind = runs[r].kind /\ runs'[r].key = runs[r].key
             /\ runs'[r].start = runs[r].start
             /\ runs'[r].pc = "cancelled"
  <2>1. r \in Runs /\ runs[r] \in Run
    BY DEF RunsSound, Registered
  <2>2. runs'[r] = [runs[r] EXCEPT !.pc = "cancelled", !.proposal = None]
    BY <2>1 DEF Terminate
  <2> QED
    BY <2>1, <2>2, NoneIsNoRun DEF Run
<1>2. \A r \in Runs : r \notin Registered => runs'[r] = runs[r]
  BY DEF Terminate
<1>3. ASSUME NEW r \in Runs PROVE runs'[r] \in Run \cup {None}
  BY <1>1, <1>2 DEF RunsSound
<1>4. runs' \in [Runs -> Run \cup {None}]
  BY <1>3 DEF Terminate
<1> QED
  BY <1>1, <1>2, <1>4

\* A capture that schedules a task begins a new run, with a key of its own.
ScheduledAt(s, r) ==
  LET key == <<s, DueDays[due]>> IN
  /\ CapturesRun
  /\ ~Known(key) /\ key \in Key
  /\ runs[r] = None
  /\ OnlyRun(r)
  /\ runs' \in [Runs -> Run \cup {None}]
  /\ runs'[r] # None /\ runs'[r] \in Run
  /\ runs'[r].kind = "auto" /\ runs'[r].key = key /\ runs'[r].start = starts
  /\ runs'[r].pc = "new"
  /\ tasks' = tasks \cup {key}

\* A capture that schedules begins one run, or finds the key known.
LEMMA ScheduledRuns ==
  ASSUME DiaryTypes, NEW s \in Scopes, Schedule(s)
  PROVE  /\ UNCHANGED <<tasks, runs>> \/ \E r \in Runs : ScheduledAt(s, r)
         /\ UNCHANGED <<vars, life, starts, due, attempted, gathered, threads, autoSaved>>
<1> DEFINE key == <<s, DueDays[due]>>
<1>1. key \in Key
  BY DiaryConstantsOK DEF DiaryTypes, RestTyped, Key
<1>2. ASSUME ~Known(key), NEW r \in Runs, Idle(r), tasks' = tasks \cup {key},
             runs' = [runs EXCEPT ![r] = [kind |-> "auto", key |-> key, start |-> starts,
                                          pc |-> "new", proposal |-> None]]
      PROVE  ScheduledAt(s, r)
  <2> DEFINE new == [kind |-> "auto", key |-> key, start |-> starts,
                     pc |-> "new", proposal |-> None]
  <2>1. new \in Run
    BY <1>1 DEF DiaryTypes, RestTyped, Run
  <2>2. runs'[r] = new /\ OnlyRun(r)
    BY <1>2 DEF DiaryTypes, RunsSound, OnlyRun
  <2>3. runs' \in [Runs -> Run \cup {None}]
    BY <1>2, <2>1 DEF DiaryTypes, RunsSound
  <2>4. runs[r] = None /\ CapturesRun
    BY <1>2 DEF Idle, Schedule
  <2>5. new.kind = "auto" /\ new.key = key /\ new.start = starts /\ new.pc = "new"
    OBVIOUS
  <2> QED
    BY <1>1, <1>2, <2>1, <2>2, <2>3, <2>4, <2>5, NoneIsNoRun DEF ScheduledAt
<1> QED
  BY <1>2 DEF Schedule

-----------------------------------------------------------------------------
(* The store under the plugin, and the types                               *)

\* The parts of a run's key.
LEMMA KeyParts ==
  /\ \A x \in Run : x.key[1] \in Scopes /\ x.key[2] \in Days /\ x.key \in Key
  /\ \A t \in Save : t.key[1] \in Scopes /\ t.key[2] \in Days /\ t.key \in Key
BY DEF Run, Save, Key

\* What the plugin calls are operations of the store, and nothing else changes
\* its rows.
LEMMA StoreStep ==
  ASSUME DiaryTypes, [DiaryNext]_diaryVars
  PROVE  [Next]_vars
<1> USE DEF DiaryTypes
<1>1. ASSUME NEW e \in Event, NEW c \in Contents, NEW t \in Times, CaptureMessage(e, c, t)
      PROVE  [Next]_vars
  BY <1>1 DEF CaptureMessage, Next
<1>2. ASSUME NEW s \in Scopes, Schedule(s) PROVE [Next]_vars
  BY <1>2 DEF Schedule
<1>3. ASSUME NEW r \in Runs, NEW key \in Key, Summarize(r, key) PROVE [Next]_vars
  BY <1>3 DEF Summarize
<1>4. ASSUME NEW r \in Runs, SaveProposal(r) PROVE [Next]_vars
  <2>1. runs[r] \in Run /\ runs[r].proposal \in Proposals
    BY <1>4 DEF SaveProposal, At, RunsSound, Sound
  <2> QED
    BY <1>4, <2>1, KeyParts DEF SaveProposal, Next
<1>5. ASSUME NEW r \in Runs,
             \/ BeginAuto(r) \/ CheckExisting(r) \/ ReadContext(r) \/ CallFails(r)
             \/ ModelFails(r) \/ CancelledEnds(r)
      PROVE  [Next]_vars
  BY <1>5 DEF BeginAuto, CheckExisting, ReadContext, CallFails, ModelFails, CancelledEnds
<1>6. ASSUME NEW r \in Runs, NEW p \in Proposals, ModelAnswers(r, p) PROVE [Next]_vars
  BY <1>6 DEF ModelAnswers
<1>7. ASSUME NEW t \in threads, ThreadSaves(t) PROVE [Next]_vars
  <2>1. t \in Save /\ t.proposal \in Proposals
    BY DEF ThreadsSound, SoundSave
  <2> QED
    BY <1>7, <2>1, KeyParts DEF ThreadSaves, Next
<1>8. ASSUME NEW t \in threads, ThreadFails(t) PROVE [Next]_vars
  BY <1>8 DEF ThreadFails
<1>9. ASSUME Terminate \/ Gathered \/ Close \/ Start \/ Tick PROVE [Next]_vars
  BY <1>9 DEF Terminate, Gathered, Close, Start, Tick
<1>10. ASSUME Crash PROVE [Next]_vars
  <2>1. CASE busy = None
    BY <1>10, <2>1 DEF Crash, vars, derivedVars
  <2>2. CASE busy # None
    BY <1>10, <2>2 DEF Crash, Interrupted, Next
  <2> QED
    BY <2>1, <2>2
<1>11. ASSUME OtherCall PROVE [Next]_vars
  BY <1>11 DEF OtherCall, Next
<1>12. ASSUME Finish PROVE [Next]_vars
  BY <1>12 DEF Finish, Next
<1>13. ASSUME UNCHANGED diaryVars PROVE [Next]_vars
  BY <1>13 DEF diaryVars
<1> QED
  BY <1>1, <1>2, <1>3, <1>4, <1>5, <1>6, <1>7, <1>8, <1>9, <1>10, <1>11, <1>12, <1>13
     DEF DiaryNext, StoreCall, ThreadEnds

\* What a stored journal adds to the count of automatic versions: at most one.
LEMMA AutoSavesCounts ==
  ASSUME TypeOK, RestTyped, NEW key \in Key, NEW p \in Proposals,
         SaveJournal(key[1], key[2], p), autoSaved' = AutoSaves(key)
  PROVE  /\ autoSaved' \in [Scopes -> [Days -> Nat]]
         /\ \A s \in Scopes, d \in Days :
              s # key[1] \/ d # key[2] => autoSaved'[s][d] = autoSaved[s][d]
         /\ autoSaved'[key[1]][key[2]] <= autoSaved[key[1]][key[2]] + 1
         /\ journals'[key[1]][key[2]] # <<>>
<1> DEFINE s0 == key[1]  d0 == key[2]
<1>0. s0 \in Scopes /\ d0 \in Days
  BY DEF Key
<1>1. journals[s0][d0] \in Seq(Proposal) /\ p \in Proposal
  BY <1>0, ConstantsOK DEF TypeOK
<1>2. \/ Len(journals'[s0][d0]) = Len(journals[s0][d0])
      \/ Len(journals'[s0][d0]) = Len(journals[s0][d0]) + 1
  <2>1. CASE KeepJournal(s0, d0, p)
    BY <1>0, <1>1, <2>1 DEF KeepJournal
  <2>2. CASE StoreJournal(s0, d0, p)
    <3>1. journals'[s0][d0] = Append(journals[s0][d0], p)
      BY <1>0, <2>2 DEF StoreJournal, TypeOK
    <3> QED
      BY <1>1, <3>1
  <2> QED
    BY <2>1, <2>2 DEF SaveJournal
<1>3. journals'[s0][d0] # <<>>
  BY <1>0, SavedJournal
<1>4. Len(journals[s0][d0]) \in Nat
  BY <1>1
<1> DEFINE added == Len(journals'[s0][d0]) - Len(journals[s0][d0])
<1>5. added = 0 \/ added = 1
  BY <1>2, <1>4
<1>6. autoSaved' = [autoSaved EXCEPT ![s0][d0] = autoSaved[s0][d0] + added]
  BY <1>0, <1>2, <1>4 DEF AutoSaves, RestTyped
<1> HIDE DEF added, s0, d0
<1>7. /\ autoSaved' \in [Scopes -> [Days -> Nat]]
      /\ autoSaved'[s0][d0] = autoSaved[s0][d0] + added
      /\ \A s \in Scopes, d \in Days : s # s0 \/ d # d0 => autoSaved'[s][d] = autoSaved[s][d]
  BY <1>0, <1>5, <1>6 DEF RestTyped
<1>8. autoSaved[s0][d0] \in Nat
  BY <1>0 DEF RestTyped
<1> QED
  BY <1>3, <1>5, <1>7, <1>8 DEF s0, d0

\* A run that goes on is sound.
LEMMA GoneOnSound ==
  ASSUME RunsSound, NEW r \in Runs, GoesOn(r)
  PROVE  RunsSound'
<1> SUFFICES ASSUME NEW q \in Runs, runs'[q] # None PROVE Sound(runs[q])'
  BY DEF GoesOn, RunsSound
<1>1. starts' = starts
  BY DEF GoesOn
<1>2. CASE q = r
  BY <1>1, <1>2 DEF RunsSound, GoesOn, Sound
<1>3. CASE q # r
  BY <1>1, <1>3 DEF RunsSound, GoesOn, OnlyRun, Sound
<1> QED
  BY <1>2, <1>3

\* A run that ends leaves sound runs, and gives back a key at most.
LEMMA EndedSound ==
  ASSUME RunsSound, RestTyped, NEW r \in Runs, Ends(r)
  PROVE  RunsSound' /\ tasks' \subseteq Key
BY DEF RunsSound, RestTyped, Ends, OnlyRun, Sound, Released

\* A plugin that starts on an empty database has its types.
LEMMA InitTypes == DiaryInit => DiaryTypes
BY DiaryConstantsOK DEF DiaryInit, DiaryTypes, RunsSound, ThreadsSound, RestTyped

\* Every step keeps the types, and that a run or thread is of a start so far and
\* that what it is about to save is a proposal.
LEMMA TypesStep ==
  ASSUME TypeOK, DiaryTypes, [DiaryNext]_diaryVars
  PROVE  DiaryTypes'
<1> USE DEF DiaryTypes
<1>1. ASSUME UNCHANGED <<starts, runs>> PROVE RunsSound'
  BY <1>1 DEF RunsSound, Sound
<1>2. ASSUME UNCHANGED <<starts>>, threads' \subseteq threads PROVE ThreadsSound'
  BY <1>2 DEF ThreadsSound, SoundSave
<1>3. ASSUME NEW e \in Event, NEW c \in Contents, NEW t \in Times, CaptureMessage(e, c, t)
      PROVE  DiaryTypes'
  <2>1. e[1] \in Scopes
    BY DEF Event
  <2> QED
    BY <1>1, <1>2, <1>3, <2>1 DEF CaptureMessage, runVars, RestTyped
<1>4. ASSUME NEW s \in Scopes, Schedule(s) PROVE DiaryTypes'
  <2>1. /\ UNCHANGED <<vars, life, starts, due, attempted, gathered, threads, autoSaved>>
        /\ arrived' \subseteq Scopes
    BY <1>4 DEF Schedule, RestTyped
  <2>2. CASE UNCHANGED <<tasks, runs>>
    BY <1>1, <1>2, <2>1, <2>2 DEF RestTyped
  <2>3. ASSUME NEW r \in Runs, ScheduledAt(s, r) PROVE DiaryTypes'
    <3>1. RunsSound'
      BY <2>1, <2>3 DEF ScheduledAt, RunsSound, Sound, OnlyRun, RestTyped
    <3>2. tasks' \subseteq Key
      BY <2>3 DEF ScheduledAt, RestTyped
    <3> QED
      BY <1>2, <2>1, <3>1, <3>2 DEF RestTyped
  <2> QED
    BY <1>4, <2>2, <2>3, ScheduledRuns
<1>5. ASSUME NEW r \in Runs, NEW key \in Key, Summarize(r, key) PROVE DiaryTypes'
  <2> DEFINE new == [kind |-> "command", key |-> key, start |-> starts,
                     pc |-> "context", proposal |-> None]
  <2>1. new \in Run /\ new.pc = "context" /\ new.start = starts
    BY DEF RestTyped, Run
  <2>2. runs' = [runs EXCEPT ![r] = new] /\ UNCHANGED starts
    BY <1>5 DEF Summarize, pluginVars
  <2> HIDE DEF new
  <2>3. RunsSound'
    BY <2>1, <2>2 DEF RunsSound, Sound, RestTyped
  <2> QED
    BY <1>2, <1>5, <2>3 DEF Summarize, RestTyped, pluginVars
<1>6. ASSUME NEW r \in Runs, BeginAuto(r) PROVE DiaryTypes'
  <2>1. RunsSound' /\ tasks' \subseteq Key
    BY <1>6, RunSteps, GoneOnSound, EndedSound DEF GoesOn, RestTyped
  <2>2. runs[r].key \in Key
    BY <1>6, KeyParts DEF BeginAuto, At, RunsSound, Sound
  <2> QED
    BY <1>2, <1>6, <2>1, <2>2 DEF BeginAuto, RestTyped
<1>7. ASSUME NEW r \in Runs,
             CheckExisting(r) \/ ReadContext(r) \/ CallFails(r) \/ ModelFails(r) \/ CancelledEnds(r)
      PROVE  DiaryTypes'
  <2>1. RunsSound' /\ tasks' \subseteq Key
    BY <1>7, RunSteps, GoneOnSound, EndedSound DEF GoesOn, RestTyped
  <2>2. UNCHANGED <<life, starts, due, arrived, attempted, gathered, threads, autoSaved>>
    BY <1>7 DEF CheckExisting, ReadContext, CallFails, ModelFails, CancelledEnds
  <2> QED
    BY <1>2, <2>1, <2>2 DEF RestTyped
<1>8. ASSUME NEW r \in Runs, NEW p \in Proposals, ModelAnswers(r, p) PROVE DiaryTypes'
  <2>1. RunsSound'
    BY <1>8, RunSteps, GoneOnSound
  <2> QED
    BY <1>2, <1>8, <2>1 DEF ModelAnswers, RestTyped, pluginVars
<1>9. ASSUME NEW r \in Runs, SaveProposal(r) PROVE DiaryTypes'
  <2>1. RunsSound' /\ tasks' \subseteq Key
    BY <1>9, RunSteps, EndedSound
  <2>2. runs[r].key \in Key /\ runs[r].proposal \in Proposals
    BY <1>9, KeyParts DEF SaveProposal, At, RunsSound, Sound
  <2>3. autoSaved' \in [Scopes -> [Days -> Nat]]
    BY <1>9, <2>2, AutoSavesCounts DEF SaveProposal, RestTyped
  <2> QED
    BY <1>2, <1>9, <2>1, <2>3 DEF SaveProposal, RestTyped
<1>10. ASSUME NEW t \in threads, ThreadSaves(t) PROVE DiaryTypes'
  <2>1. t.key \in Key /\ t.proposal \in Proposals
    BY KeyParts DEF ThreadsSound, SoundSave
  <2>2. autoSaved' \in [Scopes -> [Days -> Nat]]
    BY <1>10, <2>1, AutoSavesCounts DEF ThreadSaves
  <2> QED
    BY <1>1, <1>2, <1>10, <2>2 DEF ThreadSaves, RestTyped, pluginVars
<1>11. ASSUME NEW t \in threads, ThreadFails(t) PROVE DiaryTypes'
  BY <1>1, <1>2, <1>11 DEF ThreadFails, RestTyped, pluginVars
<1>12. ASSUME Terminate PROVE DiaryTypes'
  <2>1. UNCHANGED <<starts, due, arrived, attempted, tasks, autoSaved>>
    BY <1>12 DEF Terminate
  <2>2. RunsSound'
    <3>1. \A r \in Registered : r \in Runs /\ runs[r] # None
      BY DEF Registered
    <3> SUFFICES ASSUME NEW r \in Runs, runs'[r] # None PROVE Sound(runs[r])'
      BY <1>12, TerminatedRuns DEF RunsSound
    <3>2. CASE r \in Registered
      BY <1>12, <2>1, <3>1, <3>2, TerminatedRuns DEF RunsSound, Sound
    <3>3. CASE r \notin Registered
      BY <1>12, <2>1, <3>3, TerminatedRuns DEF RunsSound, Sound
    <3> QED
      BY <3>2, <3>3
  <2>3. ThreadsSound'
    <3>1. ASSUME NEW r \in Registered, runs[r].pc = "save"
          PROVE  SoundSave([key |-> runs[r].key, start |-> starts, proposal |-> runs[r].proposal])
      <4>1. runs[r].key \in Key /\ runs[r].proposal \in Proposals
        BY <3>1, KeyParts DEF RunsSound, Sound, Registered
      <4> QED
        BY <4>1, ConstantsOK DEF SoundSave, Save, RestTyped
    <3> QED
      BY <1>12, <2>1, <3>1 DEF Terminate, ThreadsSound, SoundSave
  <2>4. life' \in {"closing", "cancelling"} /\ gathered' \subseteq Runs
    BY <1>12 DEF Terminate, Registered
  <2> QED
    BY <2>1, <2>2, <2>3, <2>4 DEF RestTyped
<1>13. ASSUME Gathered \/ Close \/ Tick PROVE DiaryTypes'
  <2>1. UNCHANGED <<starts, runs, threads>>
    BY <1>13 DEF Gathered, Close, Tick, runVars
  <2>2. RestTyped'
    BY <1>13, DiaryConstantsOK DEF Gathered, Close, Tick, runVars, RestTyped
  <2> QED
    BY <1>1, <1>2, <2>1, <2>2
<1>14. ASSUME Crash PROVE DiaryTypes'
  BY <1>14 DEF Crash, RunsSound, ThreadsSound, RestTyped
<1>15. ASSUME Start PROVE DiaryTypes'
  <2>1. starts' \in 1 .. MaxStarts /\ starts <= starts' /\ starts \in Nat
    BY <1>15, DiaryConstantsOK DEF Start, RestTyped
  <2>2. UNCHANGED <<runs, threads, gathered, autoSaved, due>>
    BY <1>15 DEF Start, runVars
  <2>3. RunsSound'
    <3> SUFFICES ASSUME NEW r \in Runs, runs[r] # None PROVE Sound(runs[r])'
      BY <2>2 DEF RunsSound
    <3>1. runs[r].start \in Nat /\ Sound(runs[r])
      BY DEF RunsSound, Sound, Run
    <3> QED
      BY <2>1, <2>2, <3>1 DEF Sound
  <2>4. ThreadsSound'
    <3> SUFFICES ASSUME NEW t \in threads PROVE SoundSave(t)'
      BY <2>2 DEF ThreadsSound
    <3>1. t.start \in Nat /\ SoundSave(t)
      BY DEF ThreadsSound, SoundSave, Save
    <3> QED
      BY <2>1, <3>1 DEF SoundSave
  <2> QED
    BY <1>15, <2>1, <2>2, <2>3, <2>4 DEF Start, RestTyped
<1>16. ASSUME OtherCall \/ Finish \/ UNCHANGED diaryVars PROVE DiaryTypes'
  BY <1>1, <1>2, <1>16 DEF OtherCall, Finish, diaryVars, runVars, pluginVars, RestTyped
<1> QED
  BY <1>3, <1>4, <1>5, <1>6, <1>7, <1>8, <1>9, <1>10, <1>11, <1>12, <1>13, <1>14, <1>15, <1>16
     DEF DiaryNext, StoreCall, ThreadEnds

\* The types of the plugin and of the store under it hold together: the store's
\* are kept because the plugin's steps are the store's.
LEMMA TypesHold == DiarySpec => [](TypeOK /\ DiaryTypes)
<1>1. DiaryInit => TypeOK /\ DiaryTypes
  BY InitTypeOK, InitTypes DEF DiaryInit
<1>2. TypeOK /\ DiaryTypes /\ [DiaryNext]_diaryVars => (TypeOK /\ DiaryTypes)'
  BY StoreStep, TypesStep, NextTypeOK
<1> QED
  BY <1>1, <1>2, PTL DEF DiarySpec

\* Every plugin and every handler, restart and crash are a behaviour of the
\* store: what is proved of KernelStore holds under the plugin (main.py calls the
\* kernel through KernelClient only).
THEOREM DiaryRunsStore == DiarySpec => Spec
<1>1. DiaryInit => Init
  BY DEF DiaryInit
<1>2. DiaryTypes /\ [DiaryNext]_diaryVars => [Next]_vars
  BY StoreStep
<1> QED
  BY <1>1, <1>2, TypesHold, PTL DEF DiarySpec, Spec

\* The plugin's own state has its types in every interleaving.
THEOREM DiaryTypeCorrect == DiarySpec => []DiaryTypeOK
<1>1. DiaryTypes => DiaryTypeOK
  <2> SUFFICES ASSUME DiaryTypes PROVE DiaryTypeOK
    OBVIOUS
  <2>1. \A r \in Runs : At(r, "save") => runs[r].proposal # None
    BY ConstantsOK, NoneIsNoRun DEF DiaryTypes, RunsSound, Sound, At
  <2>2. threads \subseteq Save
    BY DEF DiaryTypes, ThreadsSound, SoundSave
  <2> QED
    BY <2>1, <2>2 DEF DiaryTypes, RunsSound, RestTyped, DiaryTypeOK
<1> QED
  BY <1>1, TypesHold, PTL

-----------------------------------------------------------------------------
(* Silence after the shutdown                                              *)

\* Once the plugin is down, no operation holds the lock.
DownIsIdle == life = "down" => busy = None

\* No step of a plugin that is down changes a row.
LEMMA DownStep ==
  ASSUME DownIsIdle, [DiaryNext]_diaryVars, life = "down"
  PROVE  UNCHANGED vars
<1> USE DEF DownIsIdle
<1>1. \A e \in Event, c \in Contents, t \in Times : ~CaptureMessage(e, c, t)
  BY DEF CaptureMessage, CapturesRun
<1>2. \A r \in Runs : ~SaveProposal(r)
  BY DEF SaveProposal, Available
<1>3. \A t \in threads : ~ThreadSaves(t)
  BY DEF ThreadSaves, Available
<1>4. ~OtherCall /\ ~Finish
  BY DEF OtherCall, Finish, ResidualScan, Interrupted
<1>5. Crash => UNCHANGED vars
  BY DEF Crash, vars, derivedVars
<1>6. \A s \in Scopes : Schedule(s) => UNCHANGED vars
  BY DEF Schedule
<1>7. \A r \in Runs, key \in Key : Summarize(r, key) => UNCHANGED vars
  BY DEF Summarize
<1>8. \A r \in Runs :
        \/ BeginAuto(r) \/ CheckExisting(r) \/ ReadContext(r) \/ CallFails(r)
        \/ ModelFails(r) \/ CancelledEnds(r)
        => UNCHANGED vars
  BY DEF BeginAuto, CheckExisting, ReadContext, CallFails, ModelFails, CancelledEnds
<1>9. \A r \in Runs, p \in Proposals : ModelAnswers(r, p) => UNCHANGED vars
  BY DEF ModelAnswers
<1>10. \A t \in threads : ThreadFails(t) => UNCHANGED vars
  BY DEF ThreadFails
<1>11. Terminate \/ Gathered \/ Close \/ Start \/ Tick \/ UNCHANGED diaryVars => UNCHANGED vars
  BY DEF Terminate, Gathered, Close, Start, Tick, diaryVars
<1> QED
  BY <1>1, <1>2, <1>3, <1>4, <1>5, <1>6, <1>7, <1>8, <1>9, <1>10, <1>11
     DEF DiaryNext, StoreCall, ThreadEnds

\* The plugin goes down by close(), which holds the lock, or with the process.
LEMMA DownIsIdleStep == DownIsIdle /\ [DiaryNext]_diaryVars => DownIsIdle'
<1> SUFFICES ASSUME DownIsIdle, [DiaryNext]_diaryVars, life' = "down" PROVE busy' = None
  BY DEF DownIsIdle
<1>1. CASE life = "down"
  BY <1>1, DownStep DEF DownIsIdle, vars
<1>2. CASE Close
  BY <1>2 DEF Close, vars
<1>3. CASE Crash
  BY <1>3 DEF Crash
<1>4. CASE life # "down" /\ ~Close /\ ~Crash
  <2>1. \A e \in Event, c \in Contents, t \in Times : CaptureMessage(e, c, t) => life' = life
    BY DEF CaptureMessage
  <2>2. \A s \in Scopes : Schedule(s) => life' = life
    BY DEF Schedule
  <2>3. \A r \in Runs, key \in Key : Summarize(r, key) => life' = life
    BY DEF Summarize, pluginVars
  <2>4. \A r \in Runs :
          \/ BeginAuto(r) \/ CheckExisting(r) \/ ReadContext(r) \/ CallFails(r)
          \/ ModelFails(r) \/ CancelledEnds(r) \/ SaveProposal(r)
          => life' = life
    BY DEF BeginAuto, CheckExisting, ReadContext, CallFails, ModelFails, CancelledEnds,
           SaveProposal
  <2>5. \A r \in Runs, p \in Proposals : ModelAnswers(r, p) => life' = life
    BY DEF ModelAnswers, pluginVars
  <2>6. \A t \in threads : ThreadEnds(t) => life' = life
    BY DEF ThreadEnds, ThreadSaves, ThreadFails, pluginVars
  <2>7. Tick \/ OtherCall \/ Finish \/ UNCHANGED diaryVars => life' = life
    BY DEF Tick, OtherCall, Finish, diaryVars, pluginVars
  <2>8. Terminate \/ Gathered \/ Start => life' # "down"
    BY DEF Terminate, Gathered, Start
  <2> QED
    BY <1>4, <2>1, <2>2, <2>3, <2>4, <2>5, <2>6, <2>7, <2>8 DEF DiaryNext, StoreCall
<1> QED
  BY <1>1, <1>2, <1>3, <1>4

\* A plugin that is down writes nothing more: neither a command that still waits
\* for the model nor the thread of a cancelled save (terminate, KernelClient.close).
THEOREM DownIsSilent == DiarySpec => SilentWhenDown
<1>1. DiaryInit => DownIsIdle
  BY DEF DiaryInit, Init, DownIsIdle
<1>2. DownIsIdle /\ [DiaryNext]_diaryVars => [life = "down" => UNCHANGED vars]_diaryVars
  BY DownStep
<1> QED
  BY <1>1, <1>2, DownIsIdleStep, PTL DEF DiarySpec, SilentWhenDown

-----------------------------------------------------------------------------
(* One automatic diary at a time                                           *)

\* Until terminate() has awaited its tasks, the key of every automatic run of the
\* plugin object is in the dictionary, and no two runs share one.
KeysHeld ==
  life \in {"running", "cancelling"} =>
    /\ \A r \in Runs : AutoNow(r) => runs[r].key \in tasks
    /\ \A q, r \in Runs : AutoNow(q) /\ AutoNow(r) /\ runs[q].key = runs[r].key => q = r

\* A run that goes on keeps its key.
LEMMA KeysHeldGoesOn ==
  ASSUME KeysHeld, NEW r \in Runs, GoesOn(r)
  PROVE  KeysHeld'
<1> UNCHANGED <<life, starts, tasks>>
  BY DEF GoesOn
<1>1. ASSUME NEW q \in Runs
      PROVE  AutoNow(q)' => AutoNow(q) /\ runs'[q].key = runs[q].key
  <2>1. CASE q = r
    BY <2>1 DEF GoesOn, AutoNow
  <2>2. CASE q # r
    BY <2>2 DEF GoesOn, OnlyRun, AutoNow
  <2> QED
    BY <2>1, <2>2
<1> QED
  BY <1>1 DEF KeysHeld

\* A run that ends takes its own key only, and no other run has it.
LEMMA KeysHeldEnds ==
  ASSUME KeysHeld, NEW r \in Runs, Ends(r)
  PROVE  KeysHeld'
<1> UNCHANGED <<life, starts>>
  BY DEF Ends
<1>1. ASSUME NEW q \in Runs, AutoNow(q)'
      PROVE  q # r /\ AutoNow(q) /\ runs'[q] = runs[q]
  <2>1. q # r
    BY <1>1 DEF Ends, AutoNow
  <2> QED
    BY <1>1, <2>1 DEF Ends, OnlyRun, AutoNow
<1>2. ASSUME NEW q \in Runs, AutoNow(q)', life \in {"running", "cancelling"}
      PROVE  runs'[q].key \in tasks'
  <2>1. runs[q].key \in tasks /\ q # r /\ runs'[q] = runs[q] /\ AutoNow(q)
    BY <1>1, <1>2 DEF KeysHeld
  <2>2. AutoNow(r) => runs[r].key # runs[q].key
    BY <1>2, <2>1 DEF KeysHeld
  <2> QED
    BY <2>1, <2>2 DEF Ends, Released, AutoNow
<1> QED
  BY <1>1, <1>2 DEF KeysHeld

\* Every step keeps the dictionary in agreement with the runs.
LEMMA KeysHeldStep ==
  ASSUME DiaryTypes, KeysHeld, [DiaryNext]_diaryVars
  PROVE  KeysHeld'
<1> USE DEF DiaryTypes
<1>1. ASSUME UNCHANGED <<life, starts, tasks, runs>> PROVE KeysHeld'
  BY <1>1 DEF KeysHeld, AutoNow
<1>2. ASSUME NEW e \in Event, NEW c \in Contents, NEW t \in Times, CaptureMessage(e, c, t)
      PROVE  KeysHeld'
  BY <1>1, <1>2 DEF CaptureMessage, runVars
<1>3. ASSUME NEW s \in Scopes, Schedule(s) PROVE KeysHeld'
  <2>1. UNCHANGED <<life, starts>>
    BY <1>3 DEF Schedule
  <2>2. ASSUME NEW r \in Runs, ScheduledAt(s, r) PROVE KeysHeld'
    <3> DEFINE key == <<s, DueDays[due]>>
    <3>1. /\ runs'[r].key = key /\ tasks' = tasks \cup {key} /\ key \notin tasks
          /\ \A q \in Runs : q # r => runs'[q] = runs[q]
      BY <2>2 DEF ScheduledAt, OnlyRun, Known
    <3> HIDE DEF key
    <3>2. \A q \in Runs : q # r /\ AutoNow(q)' => AutoNow(q)
      BY <2>1, <3>1 DEF AutoNow
    <3> QED
      BY <2>1, <3>1, <3>2 DEF KeysHeld
  <2> QED
    BY <1>1, <1>3, <2>1, <2>2, ScheduledRuns
<1>4. ASSUME NEW r \in Runs, NEW key \in Key, Summarize(r, key) PROVE KeysHeld'
  <2>1. UNCHANGED <<life, starts, tasks>>
    BY <1>4 DEF Summarize, pluginVars
  <2>2. runs'[r].kind = "command" /\ \A q \in Runs : q # r => runs'[q] = runs[q]
    BY <1>4 DEF Summarize, RunsSound
  <2>3. \A q \in Runs : AutoNow(q)' => AutoNow(q) /\ runs'[q] = runs[q]
    BY <2>1, <2>2 DEF AutoNow
  <2> QED
    BY <2>1, <2>3 DEF KeysHeld
<1>5. ASSUME NEW r \in Runs, BeginAuto(r) \/ StoreCall(r) \/ ModelFails(r) \/ CancelledEnds(r)
      PROVE  KeysHeld'
  BY <1>5, RunSteps, KeysHeldGoesOn, KeysHeldEnds DEF StoreCall
<1>6. ASSUME NEW r \in Runs, NEW p \in Proposals, ModelAnswers(r, p) PROVE KeysHeld'
  BY <1>6, RunSteps, KeysHeldGoesOn
<1>7. ASSUME NEW t \in threads, ThreadEnds(t) PROVE KeysHeld'
  BY <1>1, <1>7 DEF ThreadEnds, ThreadSaves, ThreadFails, pluginVars
<1>8. ASSUME Terminate PROVE KeysHeld'
  <2>1. life = "running" /\ UNCHANGED <<starts, tasks>>
    BY <1>8 DEF Terminate
  <2>2. ASSUME NEW q \in Runs, AutoNow(q)' PROVE AutoNow(q) /\ runs'[q].key = runs[q].key
    BY <1>8, <2>1, <2>2, TerminatedRuns DEF AutoNow, Registered
  <2> QED
    BY <2>1, <2>2 DEF KeysHeld
<1>9. ASSUME Gathered \/ Close \/ Crash PROVE KeysHeld'
  BY <1>9 DEF Gathered, Close, Crash, KeysHeld
<1>10. ASSUME Start PROVE KeysHeld'
  <2>1. \A r \in Runs : runs[r] # None => runs[r].start <= starts
    BY DEF RunsSound, Sound
  <2>2. \A r \in Runs : runs[r] # None => runs[r].start \in Nat
    BY DEF RunsSound, Sound, Run
  <2>3. starts' = starts + 1 /\ runs' = runs /\ starts \in Nat
    BY <1>10 DEF Start, runVars, RestTyped
  <2>4. \A r \in Runs : ~AutoNow(r)'
    BY <2>1, <2>2, <2>3 DEF AutoNow
  <2> QED
    BY <2>4 DEF KeysHeld
<1>11. ASSUME Tick \/ OtherCall \/ Finish \/ UNCHANGED diaryVars PROVE KeysHeld'
  BY <1>1, <1>11 DEF Tick, OtherCall, Finish, diaryVars, runVars, pluginVars
<1> QED
  BY <1>2, <1>3, <1>4, <1>5, <1>6, <1>7, <1>8, <1>9, <1>10, <1>11 DEF DiaryNext

\* The dictionary agrees with the runs in every reachable state.
LEMMA KeysAreHeld == DiarySpec => []KeysHeld
<1>1. DiaryInit => KeysHeld
  BY DEF DiaryInit, KeysHeld, AutoNow
<1>2. TypeOK /\ DiaryTypes /\ KeysHeld /\ [DiaryNext]_diaryVars => KeysHeld'
  BY KeysHeldStep
<1> QED
  BY <1>1, <1>2, TypesHold, PTL DEF DiarySpec

\* A plugin object has one automatic diary at a time for a scope and day
\* (_schedule_auto_journal and the done callback), also while handlers still run
\* during terminate().
THEOREM OneAutoHolds == DiarySpec => []OneAutoAtATime
<1>1. KeysHeld => OneAutoAtATime
  BY DEF KeysHeld, OneAutoAtATime, AutoNow
<1> QED
  BY <1>1, KeysAreHeld, PTL

-----------------------------------------------------------------------------
(* One attempt for a start                                                 *)

\* What follows holds when no message handler goes on during terminate(). Then a
\* plugin that is not running has only automatic runs that were cancelled.
RestCancelled ==
  life # "running" => \A r \in Runs : AutoNow(r) => runs[r].pc = "cancelled"

\* A task that has not begun is for a day not attempted.
NewIsFresh ==
  \A r \in Runs : AutoNow(r) /\ runs[r].pc = "new" => runs[r].key \notin attempted

\* What is automatic after a step of run r was so before, in its place unless it
\* is r, which did not go back.
LEMMA RunsBack ==
  ASSUME NEW r \in Runs, GoesOn(r) \/ Ends(r)
  PROVE  /\ UNCHANGED <<life, starts>>
         /\ \A q \in Runs : AutoNow(q)' =>
              /\ AutoNow(q) /\ runs'[q].key = runs[q].key
              /\ \/ q # r /\ runs'[q] = runs[q]
                 \/ q = r /\ GoesOn(r)
<1>1. UNCHANGED <<life, starts>> /\ OnlyRun(r)
  BY DEF GoesOn, Ends
<1> SUFFICES ASSUME NEW q \in Runs, AutoNow(q)'
             PROVE  /\ AutoNow(q) /\ runs'[q].key = runs[q].key
                    /\ \/ q # r /\ runs'[q] = runs[q]
                       \/ q = r /\ GoesOn(r)
  BY <1>1
<1>2. CASE q # r
  BY <1>1, <1>2 DEF OnlyRun, AutoNow
<1>3. CASE q = r
  BY <1>1, <1>3 DEF GoesOn, Ends, AutoNow
<1> QED
  BY <1>2, <1>3

\* After Start no run and no thread is of the new plugin object.
LEMMA StartIsNew ==
  ASSUME DiaryTypes, Start
  PROVE  /\ \A r \in Runs : ~AutoNow(r)'
         /\ \A t \in threads' : t.start # starts'
<1>1. \A r \in Runs : runs[r] # None => runs[r].start <= starts /\ runs[r].start \in Nat
  BY DEF DiaryTypes, RunsSound, Sound, Run
<1>2. \A t \in threads : t.start <= starts /\ t.start \in Nat
  BY DEF DiaryTypes, ThreadsSound, SoundSave, Save
<1>3. starts' = starts + 1 /\ runs' = runs /\ threads' = threads /\ starts \in Nat
  BY DEF Start, runVars, DiaryTypes, RestTyped
<1> QED
  BY <1>1, <1>2, <1>3 DEF AutoNow

\* terminate() finds every automatic run in its dictionary.
LEMMA AllRegistered ==
  ASSUME KeysHeld, life = "running", NEW r \in Runs, AutoNow(r)
  PROVE  r \in Registered
BY DEF KeysHeld, Registered, AutoNow

\* terminate() leaves cancelled runs only.
LEMMA TerminateCancels ==
  ASSUME DiaryTypes, KeysHeld, Terminate
  PROVE  \A r \in Runs : AutoNow(r)' => AutoNow(r) /\ r \in Registered /\ runs'[r].pc = "cancelled"
<1>1. life = "running" /\ UNCHANGED starts
  BY DEF Terminate
<1> SUFFICES ASSUME NEW r \in Runs, AutoNow(r)'
             PROVE  AutoNow(r) /\ r \in Registered /\ runs'[r].pc = "cancelled"
  OBVIOUS
<1>2. AutoNow(r)
  BY <1>1, TerminatedRuns DEF AutoNow, Registered, DiaryTypes
<1>3. r \in Registered
  BY <1>1, <1>2, AllRegistered
<1> QED
  BY <1>2, <1>3, TerminatedRuns DEF DiaryTypes

\* A plugin that stops running has cancelled what it began.
LEMMA RestCancelledStep ==
  ASSUME ~LateCaptures, DiaryTypes, KeysHeld, RestCancelled, [DiaryNext]_diaryVars
  PROVE  RestCancelled'
<1>1. ASSUME UNCHANGED <<life, starts, runs>> PROVE RestCancelled'
  BY <1>1 DEF RestCancelled, AutoNow
<1>2. ASSUME NEW r \in Runs, GoesOn(r) \/ Ends(r) PROVE RestCancelled'
  <2> SUFFICES ASSUME life' # "running", NEW q \in Runs, AutoNow(q)'
               PROVE  runs'[q].pc = "cancelled"
    BY DEF RestCancelled
  <2>1. AutoNow(q) /\ runs[q].pc = "cancelled" /\ ~(q = r /\ GoesOn(r))
    BY <1>2, RunsBack DEF RestCancelled, GoesOn
  <2> QED
    BY <1>2, <2>1, RunsBack
<1>3. ASSUME NEW e \in Event, NEW c \in Contents, NEW t \in Times, CaptureMessage(e, c, t)
      PROVE  RestCancelled'
  BY <1>1, <1>3 DEF CaptureMessage, runVars
<1>4. ASSUME NEW s \in Scopes, Schedule(s) PROVE RestCancelled'
  BY <1>4 DEF Schedule, CapturesRun, RestCancelled
<1>5. ASSUME NEW r \in Runs, NEW key \in Key, Summarize(r, key) PROVE RestCancelled'
  <2>1. UNCHANGED <<life, starts>>
    BY <1>5 DEF Summarize, pluginVars
  <2>2. runs'[r].kind = "command" /\ \A q \in Runs : q # r => runs'[q] = runs[q]
    BY <1>5 DEF Summarize, DiaryTypes, RunsSound
  <2> QED
    BY <2>1, <2>2 DEF RestCancelled, AutoNow
<1>6. ASSUME NEW r \in Runs, BeginAuto(r) \/ StoreCall(r) \/ ModelFails(r) \/ CancelledEnds(r)
      PROVE  RestCancelled'
  BY <1>2, <1>6, RunSteps DEF StoreCall, DiaryTypes
<1>7. ASSUME NEW r \in Runs, NEW p \in Proposals, ModelAnswers(r, p) PROVE RestCancelled'
  BY <1>2, <1>7, RunSteps DEF DiaryTypes
<1>8. ASSUME NEW t \in threads, ThreadEnds(t) PROVE RestCancelled'
  BY <1>1, <1>8 DEF ThreadEnds, ThreadSaves, ThreadFails, pluginVars
<1>9. ASSUME Terminate PROVE RestCancelled'
  BY <1>9, TerminateCancels DEF RestCancelled
<1>10. ASSUME Gathered \/ Close PROVE RestCancelled'
  BY <1>10 DEF Gathered, Close, runVars, RestCancelled, AutoNow
<1>11. ASSUME Crash PROVE RestCancelled'
  BY <1>11 DEF Crash, RestCancelled, AutoNow
<1>12. ASSUME Start PROVE RestCancelled'
  BY <1>12, StartIsNew DEF RestCancelled
<1>13. ASSUME Tick \/ OtherCall \/ Finish \/ UNCHANGED diaryVars PROVE RestCancelled'
  BY <1>1, <1>13 DEF Tick, OtherCall, Finish, diaryVars, runVars, pluginVars
<1> QED
  BY <1>3, <1>4, <1>5, <1>6, <1>7, <1>8, <1>9, <1>10, <1>11, <1>12, <1>13 DEF DiaryNext

\* Beginning one task makes no other task that waits stale.
LEMMA NewIsFreshStep ==
  ASSUME ~LateCaptures, DiaryTypes, KeysHeld, RestCancelled, NewIsFresh, [DiaryNext]_diaryVars
  PROVE  NewIsFresh'
<1>1. ASSUME UNCHANGED <<starts, attempted, runs>> PROVE NewIsFresh'
  BY <1>1 DEF NewIsFresh, AutoNow
<1>2. ASSUME NEW r \in Runs, GoesOn(r) \/ Ends(r), UNCHANGED attempted PROVE NewIsFresh'
  <2> SUFFICES ASSUME NEW q \in Runs, AutoNow(q)', runs'[q].pc = "new"
               PROVE  runs'[q].key \notin attempted
    BY <1>2 DEF NewIsFresh
  <2>1. AutoNow(q) /\ runs'[q] = runs[q]
    BY <1>2, RunsBack DEF GoesOn
  <2> QED
    BY <2>1 DEF NewIsFresh
<1>3. ASSUME NEW e \in Event, NEW c \in Contents, NEW t \in Times, CaptureMessage(e, c, t)
      PROVE  NewIsFresh'
  BY <1>1, <1>3 DEF CaptureMessage, runVars
<1>4. ASSUME NEW s \in Scopes, Schedule(s) PROVE NewIsFresh'
  <2>1. UNCHANGED <<starts, attempted>>
    BY <1>4 DEF Schedule
  <2>2. ASSUME NEW r \in Runs, ScheduledAt(s, r) PROVE NewIsFresh'
    <3>1. runs'[r].key \notin attempted /\ \A q \in Runs : q # r => runs'[q] = runs[q]
      BY <2>2 DEF ScheduledAt, OnlyRun, Known
    <3> QED
      BY <2>1, <3>1 DEF NewIsFresh, AutoNow
  <2> QED
    BY <1>1, <1>4, <2>1, <2>2, ScheduledRuns
<1>5. ASSUME NEW r \in Runs, NEW key \in Key, Summarize(r, key) PROVE NewIsFresh'
  <2>1. UNCHANGED <<starts, attempted>>
    BY <1>5 DEF Summarize, pluginVars
  <2>2. runs'[r].kind = "command" /\ \A q \in Runs : q # r => runs'[q] = runs[q]
    BY <1>5 DEF Summarize, DiaryTypes, RunsSound
  <2> QED
    BY <2>1, <2>2 DEF NewIsFresh, AutoNow
<1>6. ASSUME NEW r \in Runs, BeginAuto(r) PROVE NewIsFresh'
  <2> SUFFICES ASSUME NEW q \in Runs, AutoNow(q)', runs'[q].pc = "new"
               PROVE  runs'[q].key \notin attempted'
    BY DEF NewIsFresh
  <2>1. GoesOn(r) \/ Ends(r)
    BY <1>6, RunSteps DEF DiaryTypes
  <2>2. AutoNow(q) /\ runs'[q] = runs[q] /\ q # r
    BY <2>1, RunsBack DEF GoesOn
  <2>3. life = "running" /\ runs[q].key \notin attempted
    BY <2>2 DEF RestCancelled, NewIsFresh
  <2>4. runs[r].start = starts => AutoNow(r)
    BY <1>6 DEF BeginAuto, At, AutoNow, DiaryTypes, RunsSound, Sound
  <2>5. runs[r].start = starts => runs[r].key # runs[q].key
    BY <2>2, <2>3, <2>4 DEF KeysHeld
  <2> QED
    BY <1>6, <2>2, <2>3, <2>5 DEF BeginAuto
<1>7. ASSUME NEW r \in Runs, StoreCall(r) \/ ModelFails(r) \/ CancelledEnds(r)
      PROVE  NewIsFresh'
  <2>1. GoesOn(r) \/ Ends(r)
    BY <1>7, RunSteps DEF StoreCall, DiaryTypes
  <2>2. UNCHANGED attempted
    BY <1>7 DEF StoreCall, CheckExisting, ReadContext, SaveProposal, CallFails, ModelFails,
                CancelledEnds
  <2> QED
    BY <1>2, <2>1, <2>2
<1>8. ASSUME NEW r \in Runs, NEW p \in Proposals, ModelAnswers(r, p) PROVE NewIsFresh'
  BY <1>2, <1>8, RunSteps DEF DiaryTypes, ModelAnswers, pluginVars
<1>9. ASSUME NEW t \in threads, ThreadEnds(t) PROVE NewIsFresh'
  BY <1>1, <1>9 DEF ThreadEnds, ThreadSaves, ThreadFails, pluginVars
<1>10. ASSUME Terminate PROVE NewIsFresh'
  BY <1>10, TerminateCancels DEF NewIsFresh
<1>11. ASSUME Gathered \/ Close PROVE NewIsFresh'
  BY <1>1, <1>11 DEF Gathered, Close, runVars
<1>12. ASSUME Crash PROVE NewIsFresh'
  BY <1>12 DEF Crash, NewIsFresh, AutoNow
<1>13. ASSUME Start PROVE NewIsFresh'
  BY <1>13, StartIsNew DEF NewIsFresh
<1>14. ASSUME Tick \/ OtherCall \/ Finish \/ UNCHANGED diaryVars PROVE NewIsFresh'
  BY <1>1, <1>14 DEF Tick, OtherCall, Finish, diaryVars, runVars, pluginVars
<1> QED
  BY <1>3, <1>4, <1>5, <1>6, <1>7, <1>8, <1>9, <1>10, <1>11, <1>12, <1>13, <1>14 DEF DiaryNext

\* The four facts about the plugin's tasks hold together.
PluginInv == TypeOK /\ DiaryTypes /\ KeysHeld /\ RestCancelled /\ NewIsFresh

\* The facts about the tasks of a plugin hold in every reachable state.
LEMMA PluginInvHolds ==
  ASSUME ~LateCaptures
  PROVE  DiarySpec => []PluginInv
<1>1. DiaryInit => RestCancelled /\ NewIsFresh
  BY DEF DiaryInit, RestCancelled, NewIsFresh, AutoNow
<1>2. /\ TypeOK /\ DiaryTypes /\ KeysHeld /\ RestCancelled /\ NewIsFresh
      /\ [DiaryNext]_diaryVars
      => (RestCancelled /\ NewIsFresh)'
  BY RestCancelledStep, NewIsFreshStep
<1> QED
  BY <1>1, <1>2, TypesHold, KeysAreHeld, PTL DEF DiarySpec, PluginInv

\* A plugin object begins the automatic diary of a scope and day once
\* (_journal_attempted), if no handler goes on during terminate().
THEOREM BegunOnce ==
  ASSUME ~LateCaptures
  PROVE  DiarySpec => TriedOnce
<1> DEFINE A == \A r \in Runs :
                  /\ At(r, "new") /\ runs[r].start = starts
                  /\ runs'[r] # None /\ runs'[r].pc = "check"
                  => runs[r].key \notin attempted
<1>1. PluginInv => A
  BY DEF PluginInv, NewIsFresh, AutoNow, At, DiaryTypes, RunsSound, Sound
<1>2. PluginInv /\ [DiaryNext]_diaryVars => [A]_diaryVars
  BY <1>1
<1> HIDE DEF A
<1>3. DiarySpec => [][A]_diaryVars
  BY <1>2, PluginInvHolds, PTL DEF DiarySpec
<1> QED
  BY <1>3 DEF TriedOnce, A

-----------------------------------------------------------------------------
(* One stored diary over all starts                                        *)

Counted(k) == autoSaved[k[1]][k[2]]

\* What an automatic run stored is still there, or the scope was forgotten.
Landed ==
  \A k \in Key : Counted(k) >= 1 => journals[k[1]][k[2]] # <<>> \/ Forgotten(k[1])

PendingRun(r, k) ==
  AutoNow(r) /\ runs[r].key = k /\ runs[r].pc \in {"context", "model", "save"}

PendingSave(t, k) == t \in threads /\ t.start = starts /\ t.key = k

\* A diary of this day may still be stored: its run looked for a journal before.
Pending(k) == (\E r \in Runs : PendingRun(r, k)) \/ (\E t \in threads : PendingSave(t, k))

\* Then none was stored before.
PendingIsFirst == \A k \in Key : Pending(k) => Counted(k) = 0 \/ Forgotten(k[1])

\* The cancelled saves of the plugin object outlive terminate(), one for a day.
SavesOutlive ==
  /\ life = "running" => \A t \in threads : t.start # starts
  /\ \A t, u \in threads : t.start = starts /\ u.start = starts /\ t.key = u.key => t = u

CopiesInv == Landed /\ NoCopies /\ PendingIsFirst /\ SavesOutlive

\* Forgetting is for ever, and journals go in no other way.
LEMMA JournalsStay ==
  ASSUME TypeOK, [Next]_vars, NEW s \in Scopes, NEW d \in Days
  PROVE  /\ Forgotten(s) => Forgotten(s)'
         /\ journals[s][d] # <<>> => journals'[s][d] # <<>> \/ Forgotten(s)'
<1> DEFINE Stays == /\ Forgotten(s) => Forgotten(s)'
                    /\ journals[s][d] # <<>> => journals'[s][d] # <<>> \/ Forgotten(s)'
<1>1. ASSUME UNCHANGED <<policy, journals>> PROVE Stays
  BY <1>1 DEF Forgotten
<1>2. ASSUME NEW e \in Event, NEW c \in Contents, NEW t \in Times, IngestEvent(e, c, t)
      PROVE  Stays
  BY <1>1, <1>2 DEF IngestEvent, derivedVars
<1>3. ASSUME NEW x \in Scopes, NEW action \in {"pause", "resume"}, SetCapturePolicy(x, action)
      PROVE  Stays
  BY <1>3 DEF SetCapturePolicy, derivedVars, Forgotten, TypeOK
<1>4. ASSUME NEW x \in Scopes, NEW y \in Days, NEW p \in Proposals, SaveJournal(x, y, p)
      PROVE  Stays
  <2>1. UNCHANGED policy
    BY <1>4 DEF SaveJournal
  <2>2. journals'[x][y] # <<>>
    BY <1>4, SavedJournal
  <2>3. x # s \/ y # d => journals'[s][d] = journals[s][d]
    BY <1>4, SavedJournal, ZenonT(30)
  <2> QED
    BY <2>1, <2>2, <2>3 DEF Forgotten
<1>5. ASSUME NEW x \in Scopes, NEW m \in Memory, NEW to \in MemoryStates, CurateMemory(x, m, to)
      PROVE  Stays
  BY <1>1, <1>5 DEF CurateMemory
<1>6. ASSUME NEW x \in Scopes, NEW need, NEW cued, NEW exposed,
             RequestRecall(x, need, cued, exposed)
      PROVE  Stays
  BY <1>1, <1>6 DEF RequestRecall
<1>7. ASSUME NEW x \in Scopes, NEW id \in OpIds, PurgeScope(x, id) PROVE Stays
  <2>1. x = s => Forgotten(s)'
    BY <1>7, NoneIsNoRow DEF PurgeScope, Forgotten, TypeOK, PolicyRow
  <2>2. x # s => policy'[s] = policy[s] /\ journals'[s] = journals[s]
    BY <1>7 DEF PurgeScope, TypeOK
  <2> QED
    BY <2>1, <2>2 DEF Forgotten
<1>8. ASSUME NEW x \in Scopes, NEW cutoff \in Times, NEW id \in OpIds,
             RetainPayloads(x, cutoff, id)
      PROVE  Stays
  BY <1>1, <1>8 DEF RetainPayloads, derivedVars
<1>9. ASSUME ResidualScan \/ Interrupted PROVE Stays
  BY <1>1, <1>9 DEF ResidualScan, Interrupted, derivedVars
<1>10. ASSUME UNCHANGED vars PROVE Stays
  BY <1>1, <1>10 DEF vars
<1> QED
  BY <1>2, <1>3, <1>4, <1>5, <1>6, <1>7, <1>8, <1>9, <1>10 DEF Next

\* Nothing is saved in a forgotten scope: no event of it can be admitted.
LEMMA SavedIsNotForgotten ==
  ASSUME ForgottenHoldsNothing, NEW s \in Scopes, NEW d, NEW p, SaveJournal(s, d, p)
  PROVE  ~Forgotten(s)
BY DEF ForgottenHoldsNothing, SaveJournal, Admitted

\* Where nothing is saved automatically and nothing new is pending, the counts
\* stay right.
LEMMA CountsStay ==
  ASSUME TypeOK, [Next]_vars, Landed, NoCopies, PendingIsFirst, UNCHANGED autoSaved,
         \A k \in Key : Pending(k)' => Pending(k) \/ Counted(k) = 0 \/ Forgotten(k[1])
  PROVE  Landed' /\ NoCopies' /\ PendingIsFirst'
<1>1. \A k \in Key : k[1] \in Scopes /\ k[2] \in Days
  BY DEF Key
<1>2. \A k \in Key : Counted(k)' = Counted(k)
  BY DEF Counted
<1>3. Landed'
  BY <1>1, <1>2, JournalsStay DEF Landed
<1>4. PendingIsFirst'
  BY <1>1, <1>2, JournalsStay DEF PendingIsFirst
<1> QED
  BY <1>3, <1>4 DEF NoCopies

\* A step that leaves the runs of this start, or takes some away, leaves nothing
\* new pending.
LEMMA NothingNew ==
  ASSUME \A q \in Runs : AutoNow(q)' => AutoNow(q) /\ runs'[q] = runs[q],
         UNCHANGED starts, threads' \subseteq threads, NEW k
  PROVE  Pending(k)' => Pending(k)
BY DEF Pending, PendingRun, PendingSave

\* A save by the last one who could save this day counts one.
LEMMA LastSaves ==
  ASSUME TypeOK, DiaryTypes, ForgottenHoldsNothing, CopiesInv, [Next]_vars,
         NEW key \in Key, NEW p \in Proposals, Pending(key),
         SaveJournal(key[1], key[2], p), autoSaved' = AutoSaves(key),
         \A k \in Key : Pending(k)' => Pending(k) /\ k # key
  PROVE  Landed' /\ NoCopies' /\ PendingIsFirst'
<1>1. \A k \in Key : k[1] \in Scopes /\ k[2] \in Days
  BY DEF Key
<1>2. Counted(key) = 0
  BY <1>1, SavedIsNotForgotten DEF CopiesInv, PendingIsFirst
<1>3. /\ Counted(key)' <= 1 /\ journals'[key[1]][key[2]] # <<>>
      /\ \A s \in Scopes, d \in Days :
           s # key[1] \/ d # key[2] => autoSaved'[s][d] = autoSaved[s][d]
  BY <1>2, AutoSavesCounts DEF Counted, DiaryTypes
<1>4. \A k \in Key : k # key => k[1] # key[1] \/ k[2] # key[2]
  BY DEF Key
<1>5. \A k \in Key : k # key => Counted(k)' = Counted(k)
  BY <1>1, <1>3, <1>4 DEF Counted
<1>6. Landed'
  <2> SUFFICES ASSUME NEW k \in Key, (Counted(k) >= 1)'
               PROVE  (journals[k[1]][k[2]] # <<>> \/ Forgotten(k[1]))'
    BY DEF Landed
  <2>1. CASE k = key
    BY <1>3, <2>1
  <2>2. CASE k # key
    BY <1>1, <1>5, <2>2, JournalsStay DEF CopiesInv, Landed
  <2> QED
    BY <2>1, <2>2
<1>7. NoCopies'
  <2> SUFFICES ASSUME NEW s \in Scopes, NEW d \in Days PROVE autoSaved'[s][d] <= 1
    BY DEF NoCopies
  <2>1. CASE s = key[1] /\ d = key[2]
    BY <1>3, <2>1 DEF Counted
  <2>2. CASE s # key[1] \/ d # key[2]
    BY <1>3, <2>2 DEF CopiesInv, NoCopies
  <2> QED
    BY <2>1, <2>2
<1>8. PendingIsFirst'
  <2> SUFFICES ASSUME NEW k \in Key, Pending(k)' PROVE (Counted(k) = 0 \/ Forgotten(k[1]))'
    BY DEF PendingIsFirst
  <2>1. Counted(k) = 0 \/ Forgotten(k[1])
    BY DEF CopiesInv, PendingIsFirst
  <2> QED
    BY <1>1, <1>5, <2>1, JournalsStay
<1> QED
  BY <1>6, <1>7, <1>8

\* terminate() turns the runs that are saving into threads, and nothing else.
LEMMA TerminatedSaves ==
  ASSUME DiaryTypes, KeysHeld, SavesOutlive, Terminate
  PROVE  /\ SavesOutlive'
         /\ \A k \in Key : Pending(k)' => Pending(k)
<1> DEFINE save(r) == [key |-> runs[r].key, start |-> starts, proposal |-> runs[r].proposal]
           saving == {r \in Registered : runs[r].pc = "save"}
<1>1. /\ life = "running" /\ life' # "running" /\ UNCHANGED starts
      /\ threads' = threads \cup {save(r) : r \in saving}
  BY DEF Terminate
<1>2. \A r \in saving : r \in Runs /\ AutoNow(r) /\ runs[r].pc = "save"
  BY DEF Registered, AutoNow
<1>3. \A r \in saving : save(r).key = runs[r].key
  OBVIOUS
<1>4. \A q, r \in saving : save(q).key = save(r).key => q = r
  BY <1>1, <1>2, <1>3 DEF KeysHeld
<1>5. \A t \in threads' : t.start = starts => \E r \in saving : t = save(r)
  BY <1>1 DEF SavesOutlive
<1> HIDE DEF save, saving
<1>6. SavesOutlive'
  <2> SUFFICES ASSUME NEW t \in threads', NEW u \in threads', t.start = starts, u.start = starts,
                      t.key = u.key
               PROVE  t = u
    BY <1>1 DEF SavesOutlive
  <2> QED
    BY <1>4, <1>5
<1>7. ASSUME NEW k \in Key, Pending(k)' PROVE Pending(k)
  <2>1. \A r \in Runs : ~PendingRun(r, k)'
    BY TerminateCancels DEF PendingRun
  <2>2. PICK t \in threads' : t.start = starts /\ t.key = k
    BY <1>1, <1>7, <2>1 DEF Pending, PendingSave
  <2>3. PICK r \in saving : t = save(r)
    BY <1>5, <2>2
  <2>4. PendingRun(r, k)
    BY <1>2, <1>3, <2>2, <2>3 DEF PendingRun
  <2> QED
    BY <1>2, <2>4 DEF Pending
<1> QED
  BY <1>6, <1>7

\* Threads may end without disturbing the rest.
LEMMA SavesOutliveStays ==
  ASSUME SavesOutlive, UNCHANGED starts, threads' \subseteq threads,
         life' = "running" => life = "running"
  PROVE  SavesOutlive'
BY DEF SavesOutlive

\* The save of an automatic run is the only one that could come for its day.
LEMMA SaveProposalCopies ==
  ASSUME PluginInv, ForgottenHoldsNothing, CopiesInv, [Next]_vars, NEW r \in Runs, SaveProposal(r)
  PROVE  CopiesInv'
<1>1. /\ Ends(r) /\ UNCHANGED <<life, starts, threads>>
      /\ runs[r] # None /\ runs[r].pc = "save" /\ runs[r].start = starts
      /\ runs[r].key \in Key /\ runs[r].proposal \in Proposals
  BY RunSteps, KeyParts
     DEF PluginInv, DiaryTypes, RunsSound, Sound, SaveProposal, At, Available, Ends
<1> PICK key \in Key : key = runs[r].key
  BY <1>1
<1>2. SavesOutlive'
  BY <1>1, SavesOutliveStays DEF CopiesInv
<1>3. \A q \in Runs : AutoNow(q)' => q # r /\ AutoNow(q) /\ runs'[q] = runs[q]
  BY <1>1, RunsBack DEF Ends, AutoNow
<1>4. \A k \in Key : Pending(k)' => Pending(k)
  BY <1>1, <1>3, NothingNew
<1>5. CASE runs[r].kind # "auto"
  BY <1>2, <1>4, <1>5, CountsStay DEF SaveProposal, CopiesInv, PluginInv
<1>6. CASE runs[r].kind = "auto"
  <2>1. AutoNow(r) /\ PendingRun(r, key)
    BY <1>1, <1>6 DEF AutoNow, PendingRun
  <2>2. life = "running"
    BY <1>1, <2>1 DEF PluginInv, RestCancelled
  <2>3. \A q \in Runs : q # r /\ AutoNow(q) => runs[q].key # key
    BY <2>1, <2>2 DEF PluginInv, KeysHeld
  <2>4. ~Pending(key)'
    <3>1. \A q \in Runs : ~PendingRun(q, key)'
      BY <1>3, <2>3 DEF PendingRun
    <3>2. \A t \in threads' : t.start # starts'
      BY <1>1, <2>2 DEF CopiesInv, SavesOutlive
    <3> QED
      BY <3>1, <3>2 DEF Pending, PendingSave
  <2>5. \A k \in Key : Pending(k)' => Pending(k) /\ k # key
    BY <1>4, <2>4
  <2>6. Pending(key) /\ autoSaved' = AutoSaves(key)
    BY <1>6, <2>1 DEF Pending, SaveProposal
  <2> QED
    BY <1>1, <1>2, <2>5, <2>6, LastSaves DEF SaveProposal, CopiesInv, PluginInv
<1> QED
  BY <1>5, <1>6

\* So is the save of a thread that outlived its task.
LEMMA ThreadSavesCopies ==
  ASSUME PluginInv, ForgottenHoldsNothing, CopiesInv, [Next]_vars, NEW t \in threads,
         ThreadSaves(t)
  PROVE  CopiesInv'
<1>1. /\ UNCHANGED <<life, starts, runs>> /\ threads' = threads \ {t}
      /\ t.start = starts /\ t.key \in Key /\ t.proposal \in Proposals
  BY KeyParts DEF PluginInv, DiaryTypes, ThreadsSound, SoundSave, ThreadSaves, Available, pluginVars
<1>2. SavesOutlive'
  BY <1>1, SavesOutliveStays DEF CopiesInv
<1>3. \A k \in Key : Pending(k)' => Pending(k)
  BY <1>1, NothingNew DEF AutoNow
<1>4. ~Pending(t.key)'
  <2>1. \A r \in Runs : ~PendingRun(r, t.key)'
    BY <1>1 DEF PluginInv, CopiesInv, SavesOutlive, RestCancelled, PendingRun, AutoNow
  <2>2. \A u \in threads' : ~(u.start = starts /\ u.key = t.key)
    BY <1>1 DEF CopiesInv, SavesOutlive
  <2> QED
    BY <1>1, <2>1, <2>2 DEF Pending, PendingSave
<1>5. \A k \in Key : Pending(k)' => Pending(k) /\ k # t.key
  BY <1>3, <1>4
<1>6. Pending(t.key)
  BY <1>1 DEF Pending, PendingSave
<1> QED
  BY <1>1, <1>2, <1>5, <1>6, LastSaves DEF ThreadSaves, CopiesInv, PluginInv

\* Every step keeps the count of automatic versions of a day at most one.
LEMMA CopiesStep ==
  ASSUME PluginInv, ForgottenHoldsNothing, CopiesInv, [DiaryNext]_diaryVars
  PROVE  CopiesInv'
<1>0. [Next]_vars
  BY StoreStep DEF PluginInv
<1> DEFINE Still == UNCHANGED <<starts, autoSaved>> /\ threads' \subseteq threads
                      /\ (life' = "running" => life = "running")
<1>1. ASSUME Still, \A q \in Runs : AutoNow(q)' => AutoNow(q) /\ runs'[q] = runs[q]
      PROVE  CopiesInv'
  <2>1. \A k \in Key : Pending(k)' => Pending(k)
    BY <1>1, NothingNew
  <2> QED
    BY <1>0, <1>1, <2>1, CountsStay, SavesOutliveStays DEF CopiesInv, PluginInv
<1>2. ASSUME Still, UNCHANGED runs PROVE CopiesInv'
  BY <1>1, <1>2 DEF AutoNow
<1>3. ASSUME Still, NEW r \in Runs, Ends(r) PROVE CopiesInv'
  BY <1>1, <1>3, RunsBack DEF Ends, AutoNow
<1>4. ASSUME Still, NEW r \in Runs, GoesOn(r),
             \/ runs'[r].pc = "check"
             \/ runs[r].pc \in {"context", "model"}
             \/ runs[r].kind = "auto" => journals[runs[r].key[1]][runs[r].key[2]] = <<>>
      PROVE  CopiesInv'
  <2>1. ASSUME NEW k \in Key, Pending(k)'
        PROVE  Pending(k) \/ Counted(k) = 0 \/ Forgotten(k[1])
    <3>1. ASSUME NEW t \in threads', PendingSave(t, k)' PROVE Pending(k)
      BY <1>4, <3>1 DEF Pending, PendingSave
    <3>2. ASSUME NEW q \in Runs, q # r, PendingRun(q, k)' PROVE Pending(k)
      <4>1. AutoNow(q) /\ runs'[q] = runs[q]
        BY <1>4, <3>2, RunsBack DEF PendingRun
      <4> QED
        BY <3>2, <4>1 DEF Pending, PendingRun
    <3>3. ASSUME PendingRun(r, k)' PROVE Pending(k) \/ Counted(k) = 0 \/ Forgotten(k[1])
      <4>1. AutoNow(r) /\ runs[r].key = k /\ runs'[r].pc # "check"
        BY <1>4, <3>3, RunsBack DEF PendingRun
      <4>2. CASE runs[r].pc \in {"context", "model"}
        BY <4>1, <4>2 DEF Pending, PendingRun
      <4>3. CASE journals[k[1]][k[2]] = <<>>
        <5>1. Counted(k) \in Nat
          BY DEF PluginInv, DiaryTypes, RestTyped, Counted, Key
        <5> QED
          BY <4>3, <5>1 DEF CopiesInv, Landed
      <4> QED
        BY <1>4, <4>1, <4>2, <4>3 DEF AutoNow
    <3> QED
      BY <2>1, <3>1, <3>2, <3>3 DEF Pending
  <2> QED
    BY <1>0, <1>4, <2>1, CountsStay, SavesOutliveStays DEF CopiesInv, PluginInv
<1>5. ASSUME NEW e \in Event, NEW c \in Contents, NEW t \in Times, CaptureMessage(e, c, t)
      PROVE  CopiesInv'
  BY <1>2, <1>5 DEF CaptureMessage, runVars
<1>6. ASSUME NEW s \in Scopes, Schedule(s) PROVE CopiesInv'
  <2>1. Still
    BY <1>6 DEF Schedule
  <2>2. ASSUME NEW r \in Runs, ScheduledAt(s, r) PROVE CopiesInv'
    <3>1. \A k : ~PendingRun(r, k)'
      BY <2>2 DEF ScheduledAt, PendingRun
    <3>2. \A k : \A q \in Runs : q # r /\ PendingRun(q, k)' => PendingRun(q, k)
      BY <2>1, <2>2 DEF ScheduledAt, OnlyRun, PendingRun, AutoNow
    <3>3. \A k \in Key : Pending(k)' => Pending(k)
      BY <2>1, <3>1, <3>2 DEF Pending, PendingSave
    <3> QED
      BY <1>0, <2>1, <3>3, CountsStay, SavesOutliveStays DEF CopiesInv, PluginInv
  <2> QED
    BY <1>2, <1>6, <2>1, <2>2, ScheduledRuns DEF PluginInv
<1>7. ASSUME NEW r \in Runs, NEW key \in Key, Summarize(r, key) PROVE CopiesInv'
  <2>1. Still
    BY <1>7 DEF Summarize, pluginVars
  <2>2. runs'[r].kind = "command" /\ \A q \in Runs : q # r => runs'[q] = runs[q]
    BY <1>7 DEF Summarize, PluginInv, DiaryTypes, RunsSound
  <2> QED
    BY <1>1, <2>1, <2>2 DEF AutoNow
<1>8. ASSUME NEW r \in Runs, BeginAuto(r) PROVE CopiesInv'
  <2>1. Still
    BY <1>8 DEF BeginAuto
  <2> QED
    BY <1>3, <1>4, <1>8, <2>1, RunSteps DEF PluginInv, DiaryTypes
<1>9. ASSUME NEW r \in Runs, CheckExisting(r) PROVE CopiesInv'
  <2>1. Still
    BY <1>9 DEF CheckExisting
  <2>2. GoesOn(r) => journals[runs[r].key[1]][runs[r].key[2]] = <<>>
    BY <1>9 DEF CheckExisting, Ended, GoesOn, PluginInv, DiaryTypes, RunsSound
  <2> QED
    BY <1>3, <1>4, <1>9, <2>1, <2>2, RunSteps DEF PluginInv, DiaryTypes
<1>10. ASSUME NEW r \in Runs, ReadContext(r) PROVE CopiesInv'
  <2>1. Still /\ runs[r].pc = "context"
    BY <1>10 DEF ReadContext, Calls, At
  <2> QED
    BY <1>3, <1>4, <1>10, <2>1, RunSteps DEF PluginInv, DiaryTypes
<1>11. ASSUME NEW r \in Runs, NEW p \in Proposals, ModelAnswers(r, p) PROVE CopiesInv'
  <2>1. Still /\ runs[r].pc = "model"
    BY <1>11 DEF ModelAnswers, At, pluginVars
  <2> QED
    BY <1>4, <1>11, <2>1, RunSteps DEF PluginInv, DiaryTypes
<1>12. ASSUME NEW r \in Runs, ModelFails(r) \/ CallFails(r) \/ CancelledEnds(r)
       PROVE  CopiesInv'
  <2>1. Still
    BY <1>12 DEF ModelFails, CallFails, CancelledEnds
  <2> QED
    BY <1>3, <1>12, <2>1, RunSteps DEF PluginInv, DiaryTypes
<1>13. ASSUME NEW r \in Runs, SaveProposal(r) PROVE CopiesInv'
  BY <1>0, <1>13, SaveProposalCopies
<1>14. ASSUME NEW t \in threads, ThreadSaves(t) PROVE CopiesInv'
  BY <1>0, <1>14, ThreadSavesCopies
<1>15. ASSUME NEW t \in threads, ThreadFails(t) PROVE CopiesInv'
  BY <1>2, <1>15 DEF ThreadFails, pluginVars
<1>16. ASSUME Terminate PROVE CopiesInv'
  <2>1. SavesOutlive' /\ \A k \in Key : Pending(k)' => Pending(k)
    BY <1>16, TerminatedSaves DEF CopiesInv, PluginInv
  <2>2. UNCHANGED autoSaved
    BY <1>16 DEF Terminate
  <2> QED
    BY <1>0, <2>1, <2>2, CountsStay DEF CopiesInv, PluginInv
<1>17. ASSUME Gathered \/ Close PROVE CopiesInv'
  BY <1>2, <1>17 DEF Gathered, Close, runVars
<1>18. ASSUME Crash PROVE CopiesInv'
  <2>1. Still /\ \A q \in Runs : ~AutoNow(q)'
    BY <1>18 DEF Crash, AutoNow
  <2> QED
    BY <1>1, <2>1
<1>19. ASSUME Start PROVE CopiesInv'
  <2>1. \A k \in Key : ~Pending(k)'
    BY <1>19, StartIsNew DEF Pending, PendingRun, PendingSave, PluginInv
  <2>2. SavesOutlive'
    BY <1>19, StartIsNew DEF SavesOutlive, PluginInv
  <2>3. UNCHANGED autoSaved
    BY <1>19 DEF Start, runVars
  <2> QED
    BY <1>0, <2>1, <2>2, <2>3, CountsStay DEF CopiesInv, PluginInv
<1>20. ASSUME Tick \/ OtherCall \/ Finish \/ UNCHANGED diaryVars PROVE CopiesInv'
  BY <1>2, <1>20 DEF Tick, OtherCall, Finish, diaryVars, runVars, pluginVars
<1> QED
  BY <1>5, <1>6, <1>7, <1>8, <1>9, <1>10, <1>11, <1>12, <1>13, <1>14, <1>15, <1>16, <1>17, <1>18,
     <1>19, <1>20
     DEF DiaryNext, StoreCall, ThreadEnds

\* For any number of runs, starts and crashes, and whatever threads of an earlier
\* start still do, automatic runs store at most one version of a day's journal
\* (skip_existing in _summarize_journal), if no handler goes on during terminate().
THEOREM NoCopiesMade ==
  ASSUME ~LateCaptures
  PROVE  DiarySpec => []NoCopies
<1>1. DiaryInit => CopiesInv
  <2> SUFFICES ASSUME DiaryInit PROVE CopiesInv
    OBVIOUS
  <2>1. \A k \in Key : Counted(k) = 0
    BY DEF DiaryInit, Counted, Key
  <2> QED
    BY <2>1 DEF DiaryInit, CopiesInv, Landed, NoCopies, PendingIsFirst, SavesOutlive
<1>2. PluginInv /\ ForgottenHoldsNothing /\ CopiesInv /\ [DiaryNext]_diaryVars => CopiesInv'
  BY CopiesStep
<1>3. DiarySpec => []ForgottenHoldsNothing
  BY DiaryRunsStore, ForgottenScopesHoldNothing, PTL
<1>4. DiarySpec => []CopiesInv
  BY <1>1, <1>2, <1>3, PluginInvHolds, PTL DEF DiarySpec
<1>5. CopiesInv => NoCopies
  BY DEF CopiesInv
<1> QED
  BY <1>4, <1>5, PTL

=============================================================================
