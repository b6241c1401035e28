--------------------------- MODULE MigrationsProofs ---------------------------
(***************************************************************************)
(* Proofs about Migrations, for every number of events, versions, files    *)
(* and failures: nothing stored is lost, no restore brings a purged body   *)
(* back, and a restore that is reported gave back what was found.          *)
(***************************************************************************)
EXTENDS Migrations, TLAPS

CompleteFile(content) == [complete |-> TRUE, content |-> content]

\* Names not taken have no file, and the two files of an open are distinct.
NamesAreFresh ==
  /\ \A f \in names : files[f] = None
  /\ mine \notin names /\ temp \notin names
  /\ mine # None => mine # temp

\* The files of the open under way hold what it found, as far as it got.
FilesOfOpen ==
  /\ pc = "backup" => mine = None
  /\ pc = "copy" => files[mine] = [complete |-> FALSE, content |-> db]
  /\ mine # None /\ pc \in {"migrate", "restore", "remove", "rename", "zero"}
       => files[mine] = CompleteFile(atOpen)
  /\ pc \in {"remove", "rename"} => files[temp] = CompleteFile(atOpen)
  /\ pc = "unlink" => files[mine] = [complete |-> FALSE, content |-> Empty]

\* The database under way holds nothing that the open did not find, and
\* without a backup there was nothing to find.
DatabaseOfOpen ==
  /\ pc \in {"backup", "copy"} => db = atOpen
  /\ pc \in {"migrate", "restore", "remove"}
       => db # None /\ db.events \subseteq atOpen.events /\ db.bodies \subseteq atOpen.bodies
  /\ pc \in {"zero", "unlink"}
       => /\ db # None /\ db.events = atOpen.events /\ db.bodies \subseteq atOpen.bodies
          /\ db.version = target
  /\ pc = "rename" => db = None
  /\ pc = "migrate" /\ mine = None => atOpen.events = {}
  /\ pc = "ready" => db.version = target

\* A database without a schema holds nothing.
SchemaFirst ==
  /\ db # None /\ db.version = 0 => db.events = {} /\ db.bodies = {}
  /\ atOpen.version = 0 => atOpen.events = {} /\ atOpen.bodies = {}

\* What an open found holds no purged body: nothing is purged meanwhile.
FoundIsPurged == pc \notin {"ready", "closed"} => purged \cap atOpen.bodies = {}

Inv ==
  /\ TypeOK
  /\ NamesAreFresh /\ FilesOfOpen /\ DatabaseOfOpen /\ SchemaFirst /\ FoundIsPurged
  /\ Recoverable /\ PurgedStaysPurged /\ RestoredAsFound

\* None is none of the things that a variable may hold instead of it.
LEMMA NoneApart == None \notin Content /\ None \notin File /\ None \notin FileIds
  BY MigrationConstants

\* A complete file is a file, with its content.
LEMMA CompleteFileType ==
  ASSUME NEW content \in Content
  PROVE  /\ CompleteFile(content) \in File /\ CompleteFile(content) # None
         /\ CompleteFile(content).complete /\ CompleteFile(content).content = content
<1>1. CompleteFile(content) \in File
  BY DEF CompleteFile, File
<1>2. CompleteFile(content).complete /\ CompleteFile(content).content = content
  BY DEF CompleteFile
<1> QED
  BY <1>1, <1>2, NoneApart

\* So is the content of an empty database.
LEMMA EmptyContent == Empty \in Content /\ Empty # None
<1>1. Empty \in Content
  BY MigrationConstants DEF Empty, Content
<1> QED
  BY <1>1, NoneApart

\* Storing a file changes this one file.
LEMMA StoreChangesOne ==
  ASSUME files \in [FileIds -> File \cup {None}],
         NEW f \in FileIds, NEW content \in Content, NEW complete \in BOOLEAN,
         Store(f, content, complete)
  PROVE  /\ files' \in [FileIds -> File \cup {None}]
         /\ files'[f] = [complete |-> complete, content |-> content]
         /\ \A g \in FileIds \ {f} : files'[g] = files[g]
  BY DEF Store, File

\* Removing a file changes this one file.
LEMMA RemoveChangesOne ==
  ASSUME files \in [FileIds -> File \cup {None}],
         NEW f \in FileIds, files' = [files EXCEPT ![f] = None]
  PROVE  /\ files' \in [FileIds -> File \cup {None}]
         /\ files'[f] = None
         /\ \A g \in FileIds \ {f} : files'[g] = files[g]
  OBVIOUS

\* What Recoverable says of one event.
Holds(f, e) == files[f] # None /\ files[f].complete /\ e \in files[f].content.events

\* Opening keeps the invariant: what it finds becomes the content of the open.
LEMMA OpenKeepsInv ==
  ASSUME Inv, Open
  PROVE  Inv'
<1> USE DEF Inv
<1>a. /\ db' \in Content /\ db' # None /\ atOpen' = db'
      /\ db = None => db' = Empty
      /\ db # None => db' = db
  BY EmptyContent, NoneApart DEF Open, TypeOK
<1>b. db'.version = 0 => db'.events = {} /\ db'.bodies = {}
  <2>1. CASE db = None
    BY <2>1, <1>a DEF Empty
  <2>2. CASE db # None
    BY <2>2, <1>a DEF SchemaFirst
  <2> QED
    BY <2>1, <2>2
<1>c. /\ pc' = "migrate" => db'.version = 0
      /\ pc' = "ready" => db'.version = target'
      /\ pc' \in {"closed", "ready", "migrate", "backup"} /\ mine' = None
  BY <1>a DEF Open
<1>d. purged' \cap atOpen'.bodies = {}
  <2>1. CASE db = None
    BY <2>1, <1>a DEF Empty
  <2>2. CASE db # None
    BY <2>2, <1>a DEF Open, PurgedStaysPurged
  <2> QED
    BY <2>1, <2>2
<1>1. TypeOK'
  BY <1>a DEF Open, TypeOK
<1>2. NamesAreFresh'
  BY MigrationConstants DEF Open, NamesAreFresh, TypeOK
<1>3. FilesOfOpen'
  BY DEF Open, FilesOfOpen
<1>4. DatabaseOfOpen'
  BY <1>a, <1>b, <1>c DEF DatabaseOfOpen
<1>5. SchemaFirst'
  BY <1>a, <1>b DEF SchemaFirst
<1>6. FoundIsPurged'
  BY <1>d DEF FoundIsPurged
<1>7. Recoverable'
  BY DEF Open, Recoverable
<1>8. PurgedStaysPurged'
  BY <1>a, <1>d DEF PurgedStaysPurged
<1>9. RestoredAsFound'
  BY DEF Open, RestoredAsFound
<1> QED
  BY <1>1, <1>2, <1>3, <1>4, <1>5, <1>6, <1>7, <1>8, <1>9 DEF Inv

\* A backup begun keeps the invariant: its name was free.
LEMMA BeginBackupKeepsInv ==
  ASSUME Inv, BeginBackup
  PROVE  Inv'
<1> USE DEF Inv
<1>a. PICK f \in names : names' = names \ {f} /\ mine' = f /\ Store(f, db, FALSE)
  BY DEF BeginBackup
<1>b. f \in FileIds /\ db \in Content
  BY DEF BeginBackup, TypeOK
<1>c. /\ files' \in [FileIds -> File \cup {None}]
      /\ files'[f] = [complete |-> FALSE, content |-> db]
      /\ \A g \in FileIds \ {f} : files'[g] = files[g]
  BY <1>a, <1>b, StoreChangesOne DEF TypeOK
<1>1. TypeOK'
  BY MigrationConstants, <1>a, <1>b, <1>c DEF BeginBackup, Store, TypeOK, DatabaseOfOpen,
     FilesOfOpen
<1>2. NamesAreFresh'
  BY DEF BeginBackup, Store, NamesAreFresh
<1>3. FilesOfOpen'
  BY <1>a, <1>b, <1>c DEF BeginBackup, Store, FilesOfOpen
<1>4. DatabaseOfOpen'
  BY DEF BeginBackup, Store, DatabaseOfOpen
<1>5. SchemaFirst'
  BY DEF BeginBackup, Store, SchemaFirst
<1>6. FoundIsPurged'
  BY DEF BeginBackup, Store, FoundIsPurged
<1>7. Recoverable'
  <2> SUFFICES ASSUME NEW x \in known'
               PROVE  \/ db' # None /\ x \in db'.events
                      \/ \E g \in FileIds : Holds(g, x)'
    BY DEF Recoverable, Holds
  <2>1. \/ db # None /\ x \in db.events
        \/ \E g \in FileIds : Holds(g, x)
    BY DEF BeginBackup, Recoverable, Holds
  <2>2. ASSUME NEW g \in FileIds, Holds(g, x)
        PROVE  Holds(g, x)'
    <3>1. g # f
      BY <2>2, <1>a DEF NamesAreFresh, Holds
    <3> QED
      BY <2>2, <3>1, <1>c DEF Holds
  <2> QED
    BY <2>1, <2>2 DEF BeginBackup
<1>8. PurgedStaysPurged'
  BY DEF BeginBackup, Store, PurgedStaysPurged
<1>9. RestoredAsFound'
  BY DEF BeginBackup, Store, RestoredAsFound
<1> QED
  BY <1>1, <1>2, <1>3, <1>4, <1>5, <1>6, <1>7, <1>8, <1>9 DEF Inv

\* A backup finished keeps the invariant: it is the database that was found.
LEMMA EndBackupKeepsInv ==
  ASSUME Inv, EndBackup
  PROVE  Inv'
<1> USE DEF Inv
<1>a. mine \in FileIds /\ db \in Content /\ db = atOpen
  BY NoneApart DEF EndBackup, TypeOK, DatabaseOfOpen
<1>b. /\ files' \in [FileIds -> File \cup {None}]
      /\ files'[mine] = CompleteFile(db)
      /\ \A g \in FileIds \ {mine} : files'[g] = files[g]
  BY <1>a, StoreChangesOne DEF EndBackup, TypeOK, CompleteFile
<1>1. TypeOK'
  BY <1>a, <1>b DEF EndBackup, Store, openVars, TypeOK
<1>2. NamesAreFresh'
  BY DEF EndBackup, Store, openVars, NamesAreFresh
<1>3. FilesOfOpen'
  BY <1>a, <1>b DEF EndBackup, Store, openVars, FilesOfOpen
<1>4. DatabaseOfOpen'
  BY MigrationConstants, <1>a, <1>b DEF EndBackup, Store, openVars, DatabaseOfOpen
<1>5. SchemaFirst'
  BY DEF EndBackup, Store, openVars, SchemaFirst
<1>6. FoundIsPurged'
  BY DEF EndBackup, Store, openVars, FoundIsPurged
<1>7. Recoverable'
  <2> SUFFICES ASSUME NEW x \in known'
               PROVE  \/ db' # None /\ x \in db'.events
                      \/ \E g \in FileIds : Holds(g, x)'
    BY DEF Recoverable, Holds
  <2>1. \/ db # None /\ x \in db.events
        \/ \E g \in FileIds : Holds(g, x)
    BY DEF EndBackup, Recoverable, Holds
  <2>2. ASSUME NEW f \in FileIds, Holds(f, x)
        PROVE  Holds(f, x)'
    <3>1. f # mine
      BY <2>2 DEF EndBackup, FilesOfOpen, Holds
    <3> QED
      BY <2>2, <3>1, <1>b DEF Holds
  <2> QED
    BY <2>1, <2>2 DEF EndBackup
<1>8. PurgedStaysPurged'
  BY DEF EndBackup, Store, openVars, PurgedStaysPurged
<1>9. RestoredAsFound'
  BY DEF EndBackup, Store, openVars, RestoredAsFound
<1> QED
  BY <1>1, <1>2, <1>3, <1>4, <1>5, <1>6, <1>7, <1>8, <1>9 DEF Inv

\* A backup that fails keeps the invariant: only an unfinished copy is removed.
LEMMA BackupFailsKeepsInv ==
  ASSUME Inv, BackupFails
  PROVE  Inv'
<1> USE DEF Inv
<1>a. pc = "copy" => mine \in FileIds /\ files[mine] = [complete |-> FALSE, content |-> db]
  BY NoneApart DEF BackupFails, TypeOK, FilesOfOpen
<1>b. /\ files' \in [FileIds -> File \cup {None}]
      /\ \A g \in FileIds : files'[g] = files[g] \/ (g = mine /\ pc = "copy" /\ files'[g] = None)
  BY <1>a, NoneApart, RemoveChangesOne DEF BackupFails, TypeOK, FilesOfOpen
<1>1. TypeOK'
  BY DEF BackupFails, Leave, TypeOK
<1>2. NamesAreFresh'
  BY MigrationConstants DEF BackupFails, Leave, NamesAreFresh, TypeOK
<1>3. FilesOfOpen'
  BY DEF BackupFails, Leave, FilesOfOpen
<1>4. DatabaseOfOpen'
  BY DEF BackupFails, Leave, DatabaseOfOpen
<1>5. SchemaFirst'
  BY DEF BackupFails, Leave, SchemaFirst
<1>6. FoundIsPurged'
  BY DEF BackupFails, Leave, FoundIsPurged
<1>7. Recoverable'
  <2> SUFFICES ASSUME NEW x \in known'
               PROVE  \/ db' # None /\ x \in db'.events
                      \/ \E g \in FileIds : Holds(g, x)'
    BY DEF Recoverable, Holds
  <2>1. \/ db # None /\ x \in db.events
        \/ \E g \in FileIds : Holds(g, x)
    BY DEF BackupFails, Recoverable, Holds
  <2>2. ASSUME NEW f \in FileIds, Holds(f, x)
        PROVE  Holds(f, x)'
    BY <2>2, <1>a, <1>b DEF Holds
  <2> QED
    BY <2>1, <2>2 DEF BackupFails
<1>8. PurgedStaysPurged'
  BY DEF BackupFails, Leave, PurgedStaysPurged
<1>9. RestoredAsFound'
  BY DEF BackupFails, Leave, RestoredAsFound
<1> QED
  BY <1>1, <1>2, <1>3, <1>4, <1>5, <1>6, <1>7, <1>8, <1>9 DEF Inv

\* A migration keeps the invariant: what it may drop is in the backup.
LEMMA ApplyKeepsInv ==
  ASSUME Inv, Apply
  PROVE  Inv'
<1> USE DEF Inv
<1>a. PICK kept \in SUBSET db.events :
        db' = [version |-> db.version + 1, events |-> kept, bodies |-> db.bodies \cap kept]
  BY DEF Apply
<1>b. db \in Content /\ db.version \in 0 .. MaxVersion /\ db.version < target
  BY DEF Apply, TypeOK, Content
<1>c. /\ db' \in Content /\ db'.version = db.version + 1
      /\ db'.events \subseteq db.events /\ db'.bodies \subseteq db.bodies
  <2>1. target \in 1 .. MaxVersion
    BY DEF TypeOK, Versions
  <2>2. db.version + 1 \in 0 .. MaxVersion
    BY MigrationConstants, <1>b, <2>1
  <2>3. db.events \subseteq Events /\ db.bodies \subseteq Events
    BY <1>b DEF Content
  <2> QED
    BY <1>a, <2>2, <2>3 DEF Content
<1>d. db' # None
  BY <1>c, NoneApart
<1>1. TypeOK'
  BY <1>b, <1>c, <1>d DEF Apply, openVars, TypeOK
<1>2. NamesAreFresh'
  BY DEF Apply, openVars, NamesAreFresh
<1>3. FilesOfOpen'
  BY DEF Apply, openVars, FilesOfOpen
<1>4. DatabaseOfOpen'
  BY <1>b, <1>c, <1>d DEF Apply, openVars, DatabaseOfOpen
<1>5. SchemaFirst'
  BY <1>b, <1>c, <1>d DEF Apply, openVars, SchemaFirst
<1>6. FoundIsPurged'
  BY DEF Apply, openVars, FoundIsPurged
<1>7. Recoverable'
  <2> SUFFICES ASSUME NEW x \in known'
               PROVE  \/ db' # None /\ x \in db'.events
                      \/ \E g \in FileIds : Holds(g, x)'
    BY DEF Recoverable, Holds
  <2>1. \/ db # None /\ x \in db.events
        \/ \E g \in FileIds : Holds(g, x)
    BY DEF Apply, Recoverable, Holds
  <2>2. CASE x \in db.events
    <3>1. x \in atOpen.events /\ mine # None
      BY <2>2 DEF Apply, DatabaseOfOpen
    <3>2. mine \in FileIds /\ atOpen \in Content /\ files[mine] = CompleteFile(atOpen)
      BY <3>1 DEF Apply, TypeOK, FilesOfOpen
    <3>3. Holds(mine, x)
      BY <3>1, <3>2, CompleteFileType DEF Holds
    <3> QED
      BY <3>2, <3>3 DEF Apply, Holds
  <2>3. CASE x \notin db.events
    BY <2>1, <2>3 DEF Apply, Holds
  <2> QED
    BY <2>2, <2>3
<1>8. PurgedStaysPurged'
  BY MigrationConstants, <1>b, <1>c, <1>d DEF Apply, openVars, PurgedStaysPurged
<1>9. RestoredAsFound'
  BY DEF Apply, openVars, RestoredAsFound
<1> QED
  BY <1>1, <1>2, <1>3, <1>4, <1>5, <1>6, <1>7, <1>8, <1>9 DEF Inv

\* Accepting keeps the invariant: the events are those of before.
LEMMA AcceptKeepsInv ==
  ASSUME Inv, Accept
  PROVE  Inv'
<1> USE DEF Inv
<1>1. TypeOK'
  BY DEF Accept, openVars, TypeOK
<1>2. NamesAreFresh'
  BY DEF Accept, openVars, NamesAreFresh
<1>3. FilesOfOpen'
  BY DEF Accept, openVars, FilesOfOpen
<1>4. DatabaseOfOpen'
  BY DEF Accept, openVars, DatabaseOfOpen
<1>5. SchemaFirst'
  BY DEF Accept, openVars, SchemaFirst
<1>6. FoundIsPurged'
  BY DEF Accept, openVars, FoundIsPurged
<1>7. Recoverable'
  BY DEF Accept, openVars, Recoverable
<1>8. PurgedStaysPurged'
  BY DEF Accept, openVars, PurgedStaysPurged
<1>9. RestoredAsFound'
  BY DEF Accept, openVars, RestoredAsFound
<1> QED
  BY <1>1, <1>2, <1>3, <1>4, <1>5, <1>6, <1>7, <1>8, <1>9 DEF Inv

\* A failed migration keeps the invariant.
LEMMA MigrationFailsKeepsInv ==
  ASSUME Inv, MigrationFails
  PROVE  Inv'
<1> USE DEF Inv
<1>1. TypeOK'
  BY DEF MigrationFails, Leave, TypeOK
<1>2. NamesAreFresh'
  BY DEF MigrationFails, Leave, NamesAreFresh
<1>3. FilesOfOpen'
  BY DEF MigrationFails, Leave, FilesOfOpen
<1>4. DatabaseOfOpen'
  BY DEF MigrationFails, Leave, DatabaseOfOpen
<1>5. SchemaFirst'
  BY DEF MigrationFails, Leave, SchemaFirst
<1>6. FoundIsPurged'
  BY DEF MigrationFails, Leave, FoundIsPurged
<1>7. Recoverable'
  BY DEF MigrationFails, Leave, Recoverable
<1>8. PurgedStaysPurged'
  BY DEF MigrationFails, Leave, PurgedStaysPurged
<1>9. RestoredAsFound'
  BY DEF MigrationFails, Leave, RestoredAsFound
<1> QED
  BY <1>1, <1>2, <1>3, <1>4, <1>5, <1>6, <1>7, <1>8, <1>9 DEF Inv

\* The copy of the backup keeps the invariant: it has a name of its own.
LEMMA RestoreCopyKeepsInv ==
  ASSUME Inv, RestoreCopy
  PROVE  Inv'
<1> USE DEF Inv
<1>a. mine \in FileIds /\ atOpen \in Content /\ files[mine] = CompleteFile(atOpen)
  BY NoneApart DEF RestoreCopy, TypeOK, FilesOfOpen
<1>b. PICK f \in names : names' = names \ {f} /\ temp' = f /\ Store(f, atOpen, TRUE)
  BY <1>a, CompleteFileType DEF RestoreCopy
<1>c. f \in FileIds /\ f # mine /\ files[f] = None
  BY DEF TypeOK, NamesAreFresh
<1>d. /\ files' \in [FileIds -> File \cup {None}]
      /\ files'[f] = CompleteFile(atOpen)
      /\ \A g \in FileIds \ {f} : files'[g] = files[g]
  BY <1>a, <1>b, <1>c, StoreChangesOne DEF TypeOK, CompleteFile
<1>1. TypeOK'
  BY MigrationConstants, <1>a, <1>b, <1>c, <1>d, ZenonT(30) DEF RestoreCopy, Store, TypeOK
<1>2. NamesAreFresh'
  BY DEF RestoreCopy, Store, NamesAreFresh
<1>3. FilesOfOpen'
  BY <1>a, <1>b, <1>c, <1>d DEF RestoreCopy, Store, FilesOfOpen
<1>4. DatabaseOfOpen'
  BY DEF RestoreCopy, Store, DatabaseOfOpen
<1>5. SchemaFirst'
  BY DEF RestoreCopy, Store, SchemaFirst
<1>6. FoundIsPurged'
  BY DEF RestoreCopy, Store, FoundIsPurged
<1>7. Recoverable'
  <2> SUFFICES ASSUME NEW x \in known'
               PROVE  \/ db' # None /\ x \in db'.events
                      \/ \E g \in FileIds : Holds(g, x)'
    BY DEF Recoverable, Holds
  <2>1. \/ db # None /\ x \in db.events
        \/ \E g \in FileIds : Holds(g, x)
    BY DEF RestoreCopy, Recoverable, Holds
  <2>2. ASSUME NEW g \in FileIds, Holds(g, x)
        PROVE  Holds(g, x)'
    BY <2>2, <1>c, <1>d DEF Holds
  <2> QED
    BY <2>1, <2>2 DEF RestoreCopy
<1>8. PurgedStaysPurged'
  BY DEF RestoreCopy, Store, PurgedStaysPurged
<1>9. RestoredAsFound'
  BY DEF RestoreCopy, Store, RestoredAsFound
<1> QED
  BY <1>1, <1>2, <1>3, <1>4, <1>5, <1>6, <1>7, <1>8, <1>9 DEF Inv

\* Removing the database keeps the invariant: its events are in the backup.
LEMMA RestoreRemoveKeepsInv ==
  ASSUME Inv, RestoreRemove
  PROVE  Inv'
<1> USE DEF Inv
<1>1. TypeOK'
  BY DEF RestoreRemove, openVars, TypeOK
<1>2. NamesAreFresh'
  BY DEF RestoreRemove, openVars, NamesAreFresh
<1>3. FilesOfOpen'
  BY DEF RestoreRemove, openVars, FilesOfOpen
<1>4. DatabaseOfOpen'
  BY DEF RestoreRemove, openVars, DatabaseOfOpen
<1>5. SchemaFirst'
  BY DEF RestoreRemove, openVars, SchemaFirst
<1>6. FoundIsPurged'
  BY DEF RestoreRemove, openVars, FoundIsPurged
<1>7. Recoverable'
  <2> SUFFICES ASSUME NEW x \in known'
               PROVE  \/ db' # None /\ x \in db'.events
                      \/ \E g \in FileIds : Holds(g, x)'
    BY DEF Recoverable, Holds
  <2>1. \/ db # None /\ x \in db.events
        \/ \E g \in FileIds : Holds(g, x)
    BY DEF RestoreRemove, Recoverable, Holds
  <2>2. CASE x \in db.events
    <3>1. x \in atOpen.events /\ atOpen \in Content /\ mine \in FileIds
      BY <2>2, NoneApart DEF RestoreRemove, DatabaseOfOpen, TypeOK
    <3>2. Holds(mine, x)
      BY <3>1, NoneApart, CompleteFileType DEF RestoreRemove, FilesOfOpen, Holds
    <3> QED
      BY <3>1, <3>2 DEF RestoreRemove, Holds
  <2>3. CASE x \notin db.events
    BY <2>1, <2>3 DEF RestoreRemove, Holds
  <2> QED
    BY <2>2, <2>3
<1>8. PurgedStaysPurged'
  BY DEF RestoreRemove, openVars, PurgedStaysPurged
<1>9. RestoredAsFound'
  BY DEF RestoreRemove, openVars, RestoredAsFound
<1> QED
  BY <1>1, <1>2, <1>3, <1>4, <1>5, <1>6, <1>7, <1>8, <1>9 DEF Inv

\* Moving the copy into place keeps the invariant: it is what the open found.
LEMMA RestoreRenameKeepsInv ==
  ASSUME Inv, RestoreRename
  PROVE  Inv'
<1> USE DEF Inv
<1>a. temp \in FileIds /\ atOpen \in Content /\ files[temp] = CompleteFile(atOpen)
  BY NoneApart DEF RestoreRename, TypeOK, FilesOfOpen
<1>b. db' = atOpen /\ atOpen # None
  BY <1>a, NoneApart, CompleteFileType DEF RestoreRename
<1>c. /\ files' \in [FileIds -> File \cup {None}]
      /\ files'[temp] = None
      /\ \A g \in FileIds \ {temp} : files'[g] = files[g]
  BY <1>a, RemoveChangesOne DEF RestoreRename, TypeOK
<1>1. TypeOK'
  BY <1>a, <1>b, <1>c DEF RestoreRename, Leave, TypeOK
<1>2. NamesAreFresh'
  BY MigrationConstants DEF RestoreRename, Leave, NamesAreFresh, TypeOK
<1>3. FilesOfOpen'
  BY DEF RestoreRename, Leave, FilesOfOpen
<1>4. DatabaseOfOpen'
  BY DEF RestoreRename, Leave, DatabaseOfOpen
<1>5. SchemaFirst'
  BY <1>a, <1>b, <1>c DEF RestoreRename, Leave, SchemaFirst
<1>6. FoundIsPurged'
  BY DEF RestoreRename, Leave, FoundIsPurged
<1>7. Recoverable'
  <2> SUFFICES ASSUME NEW x \in known'
               PROVE  \/ db' # None /\ x \in db'.events
                      \/ \E g \in FileIds : Holds(g, x)'
    BY DEF Recoverable, Holds
  <2>1. \/ db # None /\ x \in db.events
        \/ \E g \in FileIds : Holds(g, x)
    BY DEF RestoreRename, Recoverable, Holds
  <2>2. db = None
    BY DEF RestoreRename, DatabaseOfOpen
  <2>3. PICK f \in FileIds : Holds(f, x)
    BY <2>1, <2>2
  <2>4. CASE f = temp
    BY <2>3, <2>4, <1>a, <1>b, CompleteFileType DEF Holds
  <2>5. CASE f # temp
    BY <2>3, <2>5, <1>c DEF Holds
  <2> QED
    BY <2>4, <2>5
<1>8. PurgedStaysPurged'
  BY <1>a, <1>b, <1>c DEF RestoreRename, Leave, PurgedStaysPurged, TypeOK,
     DatabaseOfOpen, FilesOfOpen, NamesAreFresh, SchemaFirst, FoundIsPurged,
     CompleteFile
<1>9. RestoredAsFound'
  BY <1>a, <1>b, <1>c DEF RestoreRename, Leave, RestoredAsFound
<1> QED
  BY <1>1, <1>2, <1>3, <1>4, <1>5, <1>6, <1>7, <1>8, <1>9 DEF Inv

\* A failed restore keeps the invariant: the backup stays.
LEMMA RestoreFailsKeepsInv ==
  ASSUME Inv, RestoreFails
  PROVE  Inv'
<1> USE DEF Inv
<1>a. /\ mine \in FileIds /\ atOpen \in Content /\ files[mine] = CompleteFile(atOpen)
      /\ mine # temp
  BY NoneApart DEF RestoreFails, TypeOK, FilesOfOpen, NamesAreFresh
<1>b. pc = "rename" => temp \in FileIds /\ files[temp] = CompleteFile(atOpen)
  BY NoneApart DEF TypeOK, FilesOfOpen
<1>c. /\ files' \in [FileIds -> File \cup {None}]
      /\ \A g \in FileIds : files'[g] = files[g] \/ (g = temp /\ pc = "rename" /\ files'[g] = None)
  BY <1>b, RemoveChangesOne DEF RestoreFails, TypeOK
<1>1. TypeOK'
  BY DEF RestoreFails, Leave, TypeOK
<1>2. NamesAreFresh'
  BY MigrationConstants DEF RestoreFails, Leave, NamesAreFresh, TypeOK
<1>3. FilesOfOpen'
  BY DEF RestoreFails, Leave, FilesOfOpen
<1>4. DatabaseOfOpen'
  BY DEF RestoreFails, Leave, DatabaseOfOpen
<1>5. SchemaFirst'
  BY DEF RestoreFails, Leave, SchemaFirst
<1>6. FoundIsPurged'
  BY DEF RestoreFails, Leave, FoundIsPurged
<1>7. Recoverable'
  <2> SUFFICES ASSUME NEW x \in known'
               PROVE  \/ db' # None /\ x \in db'.events
                      \/ \E g \in FileIds : Holds(g, x)'
    BY DEF Recoverable, Holds
  <2>1. \/ db # None /\ x \in db.events
        \/ \E g \in FileIds : Holds(g, x)
    BY DEF RestoreFails, Recoverable, Holds
  <2>2. ASSUME NEW f \in FileIds, Holds(f, x)
        PROVE  \E g \in FileIds : Holds(g, x)'
    <3>1. CASE f = temp /\ pc = "rename"
      <4>1. Holds(mine, x)
        BY <2>2, <3>1, <1>a, <1>b DEF Holds
      <4>2. mine' = mine \/ mine' = None
        BY DEF RestoreFails, Leave
      <4>3. files'[mine] = files[mine]
        BY <1>a, <1>c
      <4> QED
        BY <4>1, <4>3, <1>a DEF Holds
    <3>2. CASE ~(f = temp /\ pc = "rename")
      BY <2>2, <3>2, <1>c DEF Holds
    <3> QED
      BY <3>1, <3>2
  <2> QED
    BY <2>1, <2>2 DEF RestoreFails
<1>8. PurgedStaysPurged'
  BY DEF RestoreFails, Leave, PurgedStaysPurged
<1>9. RestoredAsFound'
  BY DEF RestoreFails, Leave, RestoredAsFound
<1> QED
  BY <1>1, <1>2, <1>3, <1>4, <1>5, <1>6, <1>7, <1>8, <1>9 DEF Inv

\* Overwriting the backup keeps the invariant: its events are in the database.
LEMMA ZeroBackupKeepsInv ==
  ASSUME Inv, ZeroBackup
  PROVE  Inv'
<1> USE DEF Inv
<1>a. /\ mine \in FileIds /\ atOpen \in Content /\ files[mine] = CompleteFile(atOpen)
      /\ Empty \in Content
  BY NoneApart, EmptyContent DEF ZeroBackup, TypeOK, FilesOfOpen
<1>b. /\ files' \in [FileIds -> File \cup {None}]
      /\ files'[mine] = [complete |-> FALSE, content |-> Empty]
      /\ \A g \in FileIds \ {mine} : files'[g] = files[g]
  BY <1>a, StoreChangesOne DEF ZeroBackup, TypeOK
<1>1. TypeOK'
  BY <1>a, <1>b DEF ZeroBackup, Store, openVars, TypeOK
<1>2. NamesAreFresh'
  BY DEF ZeroBackup, Store, openVars, NamesAreFresh
<1>3. FilesOfOpen'
  BY <1>a, <1>b DEF ZeroBackup, Store, openVars, FilesOfOpen
<1>4. DatabaseOfOpen'
  BY DEF ZeroBackup, Store, openVars, DatabaseOfOpen
<1>5. SchemaFirst'
  BY DEF ZeroBackup, Store, openVars, SchemaFirst
<1>6. FoundIsPurged'
  BY DEF ZeroBackup, Store, openVars, FoundIsPurged
<1>7. Recoverable'
  <2> SUFFICES ASSUME NEW x \in known'
               PROVE  \/ db' # None /\ x \in db'.events
                      \/ \E g \in FileIds : Holds(g, x)'
    BY DEF Recoverable, Holds
  <2>1. \/ db # None /\ x \in db.events
        \/ \E g \in FileIds : Holds(g, x)
    BY DEF ZeroBackup, Recoverable, Holds
  <2>2. ASSUME NEW f \in FileIds, Holds(f, x)
        PROVE  (db' # None /\ x \in db'.events) \/ Holds(f, x)'
    <3>1. CASE f = mine
      BY <2>2, <3>1, <1>a, CompleteFileType DEF ZeroBackup, DatabaseOfOpen, Holds
    <3>2. CASE f # mine
      BY <2>2, <3>2, <1>b DEF Holds
    <3> QED
      BY <3>1, <3>2
  <2> QED
    BY <2>1, <2>2 DEF ZeroBackup
<1>8. PurgedStaysPurged'
  BY DEF ZeroBackup, Store, openVars, PurgedStaysPurged
<1>9. RestoredAsFound'
  BY DEF ZeroBackup, Store, openVars, RestoredAsFound
<1> QED
  BY <1>1, <1>2, <1>3, <1>4, <1>5, <1>6, <1>7, <1>8, <1>9 DEF Inv

\* Removing the overwritten backup keeps the invariant.
LEMMA RemoveBackupKeepsInv ==
  ASSUME Inv, RemoveBackup
  PROVE  Inv'
<1> USE DEF Inv
<1>a. mine \in FileIds /\ files[mine] = [complete |-> FALSE, content |-> Empty]
  BY NoneApart DEF RemoveBackup, TypeOK, FilesOfOpen
<1>b. /\ files' \in [FileIds -> File \cup {None}]
      /\ files'[mine] = None
      /\ \A g \in FileIds \ {mine} : files'[g] = files[g]
  BY <1>a, RemoveChangesOne DEF RemoveBackup, TypeOK
<1>1. TypeOK'
  BY DEF RemoveBackup, openVars, TypeOK, DatabaseOfOpen, FilesOfOpen
<1>2. NamesAreFresh'
  BY DEF RemoveBackup, openVars, NamesAreFresh
<1>3. FilesOfOpen'
  BY DEF RemoveBackup, openVars, FilesOfOpen
<1>4. DatabaseOfOpen'
  BY DEF RemoveBackup, openVars, DatabaseOfOpen
<1>5. SchemaFirst'
  BY DEF RemoveBackup, openVars, SchemaFirst
<1>6. FoundIsPurged'
  BY DEF RemoveBackup, openVars, FoundIsPurged
<1>7. Recoverable'
  <2> SUFFICES ASSUME NEW x \in known'
               PROVE  \/ db' # None /\ x \in db'.events
                      \/ \E g \in FileIds : Holds(g, x)'
    BY DEF Recoverable, Holds
  <2>1. \/ db # None /\ x \in db.events
        \/ \E g \in FileIds : Holds(g, x)
    BY DEF RemoveBackup, Recoverable, Holds
  <2>2. ASSUME NEW f \in FileIds, Holds(f, x)
        PROVE  Holds(f, x)'
    BY <2>2, <1>a, <1>b DEF Holds
  <2> QED
    BY <2>1, <2>2 DEF RemoveBackup
<1>8. PurgedStaysPurged'
  BY DEF RemoveBackup, openVars, PurgedStaysPurged
<1>9. RestoredAsFound'
  BY DEF RemoveBackup, openVars, RestoredAsFound
<1> QED
  BY <1>1, <1>2, <1>3, <1>4, <1>5, <1>6, <1>7, <1>8, <1>9 DEF Inv

\* A failed cleanup keeps the invariant.
LEMMA CleanupFailsKeepsInv ==
  ASSUME Inv, CleanupFails
  PROVE  Inv'
<1> USE DEF Inv
<1>1. TypeOK'
  BY DEF CleanupFails, Leave, TypeOK
<1>2. NamesAreFresh'
  BY NoneApart DEF CleanupFails, Leave, NamesAreFresh, TypeOK
<1>3. FilesOfOpen'
  BY DEF CleanupFails, Leave, FilesOfOpen
<1>4. DatabaseOfOpen'
  BY DEF CleanupFails, Leave, DatabaseOfOpen
<1>5. SchemaFirst'
  BY DEF CleanupFails, Leave, SchemaFirst
<1>6. FoundIsPurged'
  BY DEF CleanupFails, Leave, FoundIsPurged
<1>7. Recoverable'
  BY DEF CleanupFails, Leave, Recoverable
<1>8. PurgedStaysPurged'
  BY DEF CleanupFails, Leave, PurgedStaysPurged
<1>9. RestoredAsFound'
  BY DEF CleanupFails, Leave, RestoredAsFound
<1> QED
  BY <1>1, <1>2, <1>3, <1>4, <1>5, <1>6, <1>7, <1>8, <1>9 DEF Inv

\* A captured event keeps the invariant.
LEMMA IngestKeepsInv ==
  ASSUME Inv, NEW e \in Events, Ingest(e)
  PROVE  Inv'
<1> USE DEF Inv
<1>a. /\ db \in Content /\ db # None
      /\ db.version = target /\ target \in 1 .. MaxVersion
  BY NoneApart DEF Ingest, TypeOK, DatabaseOfOpen, Versions
<1>b. /\ db' \in Content /\ db'.version = db.version
      /\ db'.events = db.events \cup {e} /\ db'.bodies = db.bodies \cup {e}
  BY <1>a DEF Ingest, Content
<1>c. db' # None
  BY <1>b, NoneApart
<1>1. TypeOK'
  BY <1>a, <1>b, <1>c DEF Ingest, openVars, TypeOK
<1>2. NamesAreFresh'
  BY DEF Ingest, openVars, NamesAreFresh
<1>3. FilesOfOpen'
  BY DEF Ingest, openVars, FilesOfOpen
<1>4. DatabaseOfOpen'
  BY DEF Ingest, openVars, DatabaseOfOpen
<1>5. SchemaFirst'
  BY <1>a, <1>b, <1>c DEF Ingest, openVars, SchemaFirst
<1>6. FoundIsPurged'
  BY DEF Ingest, openVars, FoundIsPurged
<1>7. Recoverable'
  <2> SUFFICES ASSUME NEW x \in known'
               PROVE  \/ db' # None /\ x \in db'.events
                      \/ \E g \in FileIds : Holds(g, x)'
    BY DEF Recoverable, Holds
  <2>1. CASE x \notin known
    BY <2>1, <1>b, <1>c DEF Ingest
  <2>2. CASE x \in known
    <3>1. \/ db # None /\ x \in db.events
          \/ \E g \in FileIds : Holds(g, x)
      BY <2>2 DEF Recoverable, Holds
    <3> QED
      BY <3>1, <1>b, <1>c DEF Ingest, Holds
  <2> QED
    BY <2>1, <2>2
<1>8. PurgedStaysPurged'
  BY <1>a, <1>b, <1>c DEF Ingest, openVars, PurgedStaysPurged
<1>9. RestoredAsFound'
  BY DEF Ingest, openVars, RestoredAsFound
<1> QED
  BY <1>1, <1>2, <1>3, <1>4, <1>5, <1>6, <1>7, <1>8, <1>9 DEF Inv

\* A purged body keeps the invariant.
LEMMA PurgeKeepsInv ==
  ASSUME Inv, NEW e \in Events, Purge(e)
  PROVE  Inv'
<1> USE DEF Inv
<1>a. /\ db \in Content /\ db # None
      /\ db.version = target /\ target \in 1 .. MaxVersion
  BY NoneApart DEF Purge, TypeOK, DatabaseOfOpen, Versions
<1>b. /\ db' \in Content /\ db'.version = db.version
      /\ db'.events = db.events /\ db'.bodies = db.bodies \ {e}
  BY <1>a DEF Purge, Content
<1>c. db' # None
  BY <1>b, NoneApart
<1>1. TypeOK'
  BY <1>a, <1>b, <1>c DEF Purge, openVars, TypeOK
<1>2. NamesAreFresh'
  BY DEF Purge, openVars, NamesAreFresh
<1>3. FilesOfOpen'
  BY DEF Purge, openVars, FilesOfOpen
<1>4. DatabaseOfOpen'
  BY DEF Purge, openVars, DatabaseOfOpen
<1>5. SchemaFirst'
  BY <1>a, <1>b, <1>c DEF Purge, openVars, SchemaFirst
<1>6. FoundIsPurged'
  BY DEF Purge, openVars, FoundIsPurged
<1>7. Recoverable'
  <2> SUFFICES ASSUME NEW x \in known'
               PROVE  \/ db' # None /\ x \in db'.events
                      \/ \E g \in FileIds : Holds(g, x)'
    BY DEF Recoverable, Holds
  <2>1. CASE x \notin known
    BY <2>1, <1>b, <1>c DEF Purge
  <2>2. CASE x \in known
    <3>1. \/ db # None /\ x \in db.events
          \/ \E g \in FileIds : Holds(g, x)
      BY <2>2 DEF Recoverable, Holds
    <3> QED
      BY <3>1, <1>b, <1>c DEF Purge, Holds
  <2> QED
    BY <2>1, <2>2
<1>8. PurgedStaysPurged'
  BY <1>a, <1>b, <1>c DEF Purge, openVars, PurgedStaysPurged
<1>9. RestoredAsFound'
  BY DEF Purge, openVars, RestoredAsFound
<1> QED
  BY <1>1, <1>2, <1>3, <1>4, <1>5, <1>6, <1>7, <1>8, <1>9 DEF Inv

\* A process that stops or dies keeps the invariant.
LEMMA StopKeepsInv ==
  ASSUME Inv, Stop
  PROVE  Inv'
<1> USE DEF Inv
<1>1. TypeOK'
  BY DEF Stop, Leave, TypeOK
<1>2. NamesAreFresh'
  BY NoneApart DEF Stop, Leave, NamesAreFresh, TypeOK
<1>3. FilesOfOpen'
  BY DEF Stop, Leave, FilesOfOpen
<1>4. DatabaseOfOpen'
  BY DEF Stop, Leave, DatabaseOfOpen
<1>5. SchemaFirst'
  BY DEF Stop, Leave, SchemaFirst
<1>6. FoundIsPurged'
  BY DEF Stop, Leave, FoundIsPurged
<1>7. Recoverable'
  BY DEF Stop, Leave, Recoverable
<1>8. PurgedStaysPurged'
  BY DEF Stop, Leave, PurgedStaysPurged
<1>9. RestoredAsFound'
  BY DEF Stop, Leave, RestoredAsFound
<1> QED
  BY <1>1, <1>2, <1>3, <1>4, <1>5, <1>6, <1>7, <1>8, <1>9 DEF Inv

\* Another release keeps the invariant.
LEMMA InstallKeepsInv ==
  ASSUME Inv, NEW version \in Versions, Install(version)
  PROVE  Inv'
<1> USE DEF Inv
<1>1. TypeOK'
  BY DEF Install, openVars, TypeOK
<1>2. NamesAreFresh'
  BY DEF Install, openVars, NamesAreFresh
<1>3. FilesOfOpen'
  BY DEF Install, openVars, FilesOfOpen
<1>4. DatabaseOfOpen'
  BY DEF Install, openVars, DatabaseOfOpen
<1>5. SchemaFirst'
  BY DEF Install, openVars, SchemaFirst
<1>6. FoundIsPurged'
  BY DEF Install, openVars, FoundIsPurged
<1>7. Recoverable'
  BY DEF Install, openVars, Recoverable
<1>8. PurgedStaysPurged'
  BY DEF Install, openVars, PurgedStaysPurged
<1>9. RestoredAsFound'
  BY DEF Install, openVars, RestoredAsFound
<1> QED
  BY <1>1, <1>2, <1>3, <1>4, <1>5, <1>6, <1>7, <1>8, <1>9 DEF Inv

-----------------------------------------------------------------------------
\* The invariant holds at first: there is no database and no file.
LEMMA InitInv == Init => Inv
<1> SUFFICES ASSUME Init PROVE Inv
  OBVIOUS
<1>1. TypeOK
  <2>1. /\ target \in Versions /\ db = None /\ names = FileIds /\ pc = "closed"
        /\ mine = None /\ temp = None /\ atOpen \in Content /\ ended = "nothing"
        /\ known = {} /\ purged = {}
    BY EmptyContent DEF Init
  <2>2. files \in [FileIds -> File \cup {None}]
    BY DEF Init
  <2> QED
    BY <2>1, <2>2 DEF TypeOK
<1>2. NamesAreFresh
  BY NoneApart DEF Init, NamesAreFresh
<1>3. FilesOfOpen /\ DatabaseOfOpen /\ SchemaFirst /\ FoundIsPurged
  BY DEF Init, FilesOfOpen, DatabaseOfOpen, SchemaFirst, FoundIsPurged, Empty
<1>4. Recoverable /\ PurgedStaysPurged /\ RestoredAsFound
  BY DEF Init, Recoverable, PurgedStaysPurged, RestoredAsFound
<1> QED
  BY <1>1, <1>2, <1>3, <1>4 DEF Inv

\* Every step keeps the invariant.
LEMMA NextKeepsInv == Inv /\ [Next]_vars => Inv'
<1> SUFFICES ASSUME Inv, [Next]_vars PROVE Inv'
  OBVIOUS
<1>1. CASE Open \/ BeginBackup \/ EndBackup \/ BackupFails
  BY <1>1, OpenKeepsInv, BeginBackupKeepsInv, EndBackupKeepsInv, BackupFailsKeepsInv
<1>2. CASE Apply \/ Accept \/ MigrationFails
  BY <1>2, ApplyKeepsInv, AcceptKeepsInv, MigrationFailsKeepsInv
<1>3. CASE RestoreCopy \/ RestoreRemove \/ RestoreRename \/ RestoreFails
  BY <1>3, RestoreCopyKeepsInv, RestoreRemoveKeepsInv, RestoreRenameKeepsInv,
     RestoreFailsKeepsInv
<1>4. CASE ZeroBackup \/ RemoveBackup \/ CleanupFails
  BY <1>4, ZeroBackupKeepsInv, RemoveBackupKeepsInv, CleanupFailsKeepsInv
<1>5. CASE \E e \in Events : Ingest(e) \/ Purge(e)
  BY <1>5, IngestKeepsInv, PurgeKeepsInv
<1>6. CASE Stop \/ \E version \in Versions : Install(version)
  BY <1>6, StopKeepsInv, InstallKeepsInv
<1>7. CASE UNCHANGED vars
  <2> USE <1>7 DEF vars, openVars
  <2>1. TypeOK' /\ NamesAreFresh' /\ FilesOfOpen'
    BY ZenonT(30) DEF Inv, TypeOK, NamesAreFresh, FilesOfOpen
  <2>2. DatabaseOfOpen' /\ SchemaFirst' /\ FoundIsPurged'
    BY DEF Inv, DatabaseOfOpen, SchemaFirst, FoundIsPurged
  <2>3. Recoverable' /\ PurgedStaysPurged' /\ RestoredAsFound'
    BY DEF Inv, Recoverable, PurgedStaysPurged, RestoredAsFound
  <2> QED
    BY <2>1, <2>2, <2>3 DEF Inv
<1> QED
  BY <1>1, <1>2, <1>3, <1>4, <1>5, <1>6, <1>7 DEF Next

\* The invariant holds in every reachable state.
THEOREM InvHolds == Spec => []Inv
  BY InitInv, NextKeepsInv, PTL DEF Spec

\* The files and the state of an open have their types wherever the process
\* died before (open_database_with_catalog).
THEOREM MigrationsTypeCorrect == Spec => []TypeOK
<1>1. Inv => TypeOK
  BY DEF Inv
<1> QED
  BY <1>1, InvHolds, PTL

\* Every event ever stored is in the database or in a complete file beside it,
\* whatever fails and wherever an open is cut off (create_online_backup,
\* restore_backup, secure_remove).
THEOREM NothingIsLost == Spec => []Recoverable
<1>1. Inv => Recoverable
  BY DEF Inv
<1> QED
  BY <1>1, InvHolds, PTL

\* No restore makes a purged body readable again in the database: restore_backup
\* takes only the backup that the same open made.
THEOREM PurgesSurviveRestores == Spec => []PurgedStaysPurged
<1>1. Inv => PurgedStaysPurged
  BY DEF Inv
<1> QED
  BY <1>1, InvHolds, PTL

\* restore_succeeded is reported only for a database that is the one found.
THEOREM RestoresAreExact == Spec => []RestoredAsFound
<1>1. Inv => RestoredAsFound
  BY DEF Inv
<1> QED
  BY <1>1, InvHolds, PTL

===============================================================================
