------------------------------ MODULE Migrations ------------------------------
(***************************************************************************)
(* Opening a database (migrations.rs): the schema check, the backup, the   *)
(* pending migrations, the restore when one fails and the removal of the   *)
(* backup when none does. One step stands for one file operation or one    *)
(* transaction; the process may die between any two, and any may fail. The *)
(* release that opens the database changes between sessions, so the target *)
(* version may go up or down. Between an open and the next, the store      *)
(* writes to the file and purges it.                                       *)
(*                                                                         *)
(* A file is its schema version, the events in it and the events whose     *)
(* body can be read in it. A database that is closed or dropped has its    *)
(* WAL in the main file: the removal of the sidecars changes nothing.      *)
(***************************************************************************)
EXTENDS Naturals, FiniteSets

CONSTANTS
  Events,      \* the raw events
  MaxVersion,  \* the schema version of the last release
  Lossy,       \* the versions whose migration drops events: none of the
               \* released ones is known to, but the code guards against it
  FileIds,     \* names of backups and temporary files, never used again:
               \* bounds the number of failures
  None

Versions == 1 .. MaxVersion

Content == [version : 0 .. MaxVersion, events : SUBSET Events, bodies : SUBSET Events]

File == [complete : BOOLEAN, content : Content]

ASSUME MigrationConstants ==
  /\ MaxVersion \in Nat \ {0}
  /\ Lossy \subseteq Versions
  /\ None \notin Content \cup File \cup FileIds

VARIABLES
  target,  \* the last version of the running release's catalog
  db,      \* the database file
  files,   \* backups and temporary files beside it
  names,   \* the names not used yet
  pc,      \* where open_database is; "ready" when its connection is in use
  mine,    \* the backup that this open made
  atOpen,  \* the content that this open found, of which it keeps a fingerprint
  temp,    \* the temporary file of the restore
  ended,   \* what the last open reported
  known,   \* history: the events ever stored
  purged   \* history: the events whose body was purged and not captured since

openVars == <<mine, atOpen, temp>>

vars == <<target, db, files, names, pc, openVars, ended, known, purged>>

Empty == [version |-> 0, events |-> {}, bodies |-> {}]

Init ==
  /\ target \in Versions
  /\ db = None
  /\ files = [f \in FileIds |-> None]
  /\ names = FileIds
  /\ pc = "closed" /\ ended = "nothing"
  /\ mine = None /\ atOpen = Empty /\ temp = None
  /\ known = {} /\ purged = {}

-----------------------------------------------------------------------------
\* The open returns or the process dies: what it held in memory is gone.
Leave(result) == pc' = "closed" /\ ended' = result /\ mine' = None /\ temp' = None

Store(f, content, complete) ==
  files' = [files EXCEPT ![f] = [complete |-> complete, content |-> content]]

\* SQLite creates a missing file. A newer schema is refused, a current one is
\* ready, and only a database with tables is backed up.
Open ==
  LET found == IF db = None THEN Empty ELSE db IN
  /\ pc = "closed"
  /\ db' = found
  /\ atOpen' = found
  /\ mine' = None /\ temp' = None
  /\ \/ /\ found.version > target
        /\ pc' = "closed" /\ ended' = "newer schema"
     \/ /\ found.version = target
        /\ pc' = "ready" /\ ended' = "ok"
     \/ /\ found.version < target
        /\ pc' = IF found.version = 0 THEN "migrate" ELSE "backup"
        /\ ended' = "nothing"
  /\ UNCHANGED <<target, files, names, known, purged>>

\* The backup gets a name of its own and is copied page by page.
BeginBackup ==
  /\ pc = "backup"
  /\ \E f \in names : /\ names' = names \ {f}
                      /\ mine' = f
                      /\ Store(f, db, FALSE)
  /\ pc' = "copy"
  /\ UNCHANGED <<target, db, atOpen, temp, ended, known, purged>>

\* Fault: the file counts as a backup before its copy is finished.
BackupUnfinished ==
  /\ pc = "copy"
  /\ UNCHANGED files
  /\ pc' = "migrate"
  /\ UNCHANGED <<target, db, names, openVars, ended, known, purged>>

EndBackup ==
  /\ pc = "copy"
  /\ Store(mine, db, TRUE)
  /\ pc' = "migrate"
  /\ UNCHANGED <<target, db, names, openVars, ended, known, purged>>

\* The open fails; the unfinished copy is removed if that is possible.
BackupFails ==
  /\ pc \in {"backup", "copy"}
  /\ \/ UNCHANGED files
     \/ mine # None /\ files' = [files EXCEPT ![mine] = None]
  /\ Leave("failed")
  /\ UNCHANGED <<target, db, names, atOpen, known, purged>>

\* Fault: a migration is applied once more.
ApplyAgain ==
  /\ pc = "migrate"
  /\ db' = [db EXCEPT !.version = @ + 1]
  /\ UNCHANGED <<target, files, names, pc, openVars, ended, known, purged>>

\* Each pending migration is a transaction of its own.
Apply ==
  /\ pc = "migrate"
  /\ db.version < target
  /\ \E kept \in SUBSET db.events :
       /\ kept # db.events => db.version + 1 \in Lossy
       /\ db' = [version |-> db.version + 1, events |-> kept, bodies |-> db.bodies \cap kept]
  /\ UNCHANGED <<target, files, names, pc, openVars, ended, known, purged>>

\* Fault: the events are not compared.
AcceptUnchecked ==
  /\ pc = "migrate"
  /\ db.version = target
  /\ IF mine = None THEN pc' = "ready" /\ ended' = "ok"
                    ELSE pc' = "zero" /\ UNCHANGED ended
  /\ UNCHANGED <<target, db, files, names, openVars, known, purged>>

\* All versions are there and the events are those of before.
Accept ==
  /\ pc = "migrate"
  /\ db.version = target
  /\ db.events = atOpen.events
  /\ IF mine = None THEN pc' = "ready" /\ ended' = "ok"
                    ELSE pc' = "zero" /\ UNCHANGED ended
  /\ UNCHANGED <<target, db, files, names, openVars, known, purged>>

\* A migration or a check fails, or the events changed. Without a backup the
\* open returns, with the migrations that were committed.
MigrationFails ==
  /\ pc = "migrate"
  /\ IF mine = None THEN Leave("failed")
                    ELSE pc' = "restore" /\ UNCHANGED <<ended, mine, temp>>
  /\ UNCHANGED <<target, db, files, names, atOpen, known, purged>>

\* Fault: the restore takes whichever complete backup it finds.
RestoreAny ==
  /\ pc = "restore"
  /\ \E g \in FileIds :
       /\ files[g] # None /\ files[g].complete
       /\ \E f \in names : /\ names' = names \ {f}
                           /\ temp' = f
                           /\ Store(f, files[g].content, TRUE)
  /\ pc' = "remove"
  /\ UNCHANGED <<target, db, mine, atOpen, ended, known, purged>>

\* restore_backup: copy the backup beside the database, ...
RestoreCopy ==
  /\ pc = "restore"
  /\ \E f \in names : /\ names' = names \ {f}
                      /\ temp' = f
                      /\ Store(f, files[mine].content, TRUE)
  /\ pc' = "remove"
  /\ UNCHANGED <<target, db, mine, atOpen, ended, known, purged>>

\* ... remove the database, ...
RestoreRemove ==
  /\ pc = "remove"
  /\ db' = None
  /\ pc' = "rename"
  /\ UNCHANGED <<target, files, names, openVars, ended, known, purged>>

\* ... and move the copy into its place. The backup stays.
RestoreRename ==
  /\ pc = "rename"
  /\ db' = files[temp].content
  /\ files' = [files EXCEPT ![temp] = None]
  /\ Leave("restored")
  /\ UNCHANGED <<target, names, atOpen, known, purged>>

\* A step of the restore fails. A copy that cannot be moved is deleted.
RestoreFails ==
  /\ pc \in {"restore", "remove", "rename"}
  /\ files' = IF pc = "rename" THEN [files EXCEPT ![temp] = None] ELSE files
  /\ Leave("not restored")
  /\ UNCHANGED <<target, db, names, atOpen, known, purged>>

\* secure_remove: overwrite the backup with zeros, ...
ZeroBackup ==
  /\ pc = "zero"
  /\ Store(mine, Empty, FALSE)
  /\ pc' = "unlink"
  /\ UNCHANGED <<target, db, names, openVars, ended, known, purged>>

\* ... and remove it: the connection is returned.
RemoveBackup ==
  /\ pc = "unlink"
  /\ files' = [files EXCEPT ![mine] = None]
  /\ pc' = "ready" /\ ended' = "ok"
  /\ UNCHANGED <<target, db, names, openVars, known, purged>>

\* The migrated database stays, and the open fails.
CleanupFails ==
  /\ pc \in {"zero", "unlink"}
  /\ Leave("failed")
  /\ UNCHANGED <<target, db, files, names, atOpen, known, purged>>

-----------------------------------------------------------------------------
(* The sessions of the store                                               *)

\* A database that lost an event captures it anew when it is replayed.
Ingest(e) ==
  /\ pc = "ready"
  /\ e \notin db.events
  /\ db' = [db EXCEPT !.events = @ \cup {e}, !.bodies = @ \cup {e}]
  /\ known' = known \cup {e}
  /\ purged' = purged \ {e}
  /\ UNCHANGED <<target, files, names, pc, openVars, ended>>

Purge(e) ==
  /\ pc = "ready"
  /\ e \in db.bodies
  /\ db' = [db EXCEPT !.bodies = @ \ {e}]
  /\ purged' = purged \cup {e}
  /\ UNCHANGED <<target, files, names, pc, openVars, ended, known>>

\* The store is closed, or the process dies at any point of an open.
Stop ==
  /\ pc # "closed"
  /\ Leave("nothing")
  /\ UNCHANGED <<target, db, files, names, atOpen, known, purged>>

\* Another release is installed.
Install(version) ==
  /\ pc = "closed"
  /\ target' = version
  /\ UNCHANGED <<db, files, names, pc, openVars, ended, known, purged>>

Next ==
  \/ Open \/ BeginBackup \/ EndBackup \/ BackupFails
  \/ Apply \/ Accept \/ MigrationFails
  \/ RestoreCopy \/ RestoreRemove \/ RestoreRename \/ RestoreFails
  \/ ZeroBackup \/ RemoveBackup \/ CleanupFails
  \/ \E e \in Events : Ingest(e) \/ Purge(e)
  \/ Stop
  \/ \E version \in Versions : Install(version)

Spec == Init /\ [][Next]_vars

-----------------------------------------------------------------------------
(* Properties                                                              *)

TypeOK ==
  /\ target \in Versions
  /\ db \in Content \cup {None}
  /\ files \in [FileIds -> File \cup {None}]
  /\ names \subseteq FileIds
  /\ pc \in {"closed", "backup", "copy", "migrate", "restore", "remove", "rename",
             "zero", "unlink", "ready"}
  /\ mine \in FileIds \cup {None} /\ temp \in FileIds \cup {None}
  /\ atOpen \in Content
  /\ ended \in {"nothing", "ok", "newer schema", "failed", "restored", "not restored"}
  /\ known \subseteq Events /\ purged \subseteq Events
  /\ pc \in {"copy", "restore", "remove", "rename", "zero", "unlink"} => mine # None
  /\ pc \in {"remove", "rename"} => temp # None
  /\ pc \in {"backup", "copy", "migrate", "ready"} => db # None

\* Whatever fails and wherever the process dies, an event once stored is in
\* the database or in a complete file beside it.
Recoverable ==
  \A e \in known :
    \/ db # None /\ e \in db.events
    \/ \E f \in FileIds : files[f] # None /\ files[f].complete /\ e \in files[f].content.events

\* "Replaying migrations [...] cannot resurrect purged payloads" (SECURITY.md:25): no
\* restore reaches back beyond the open that it belongs to. It is about restores
\* only: an event captured again after a purge counts as a new one.
PurgedStaysPurged == db # None => purged \cap db.bodies = {}

\* An open that reports a failed migration as restored leaves the database as
\* it found it.
RestoredAsFound == pc = "closed" /\ ended = "restored" => db = atOpen

\* "Online backup and recovery from failure": a database that opens holds every
\* event stored before, since open_database created or restored it.
ReadyHoldsAll == pc = "ready" => known \subseteq db.events

=============================================================================
