------------------------------- MODULE Storage -------------------------------
(***************************************************************************)
(* Media rows and media files: MediaStore and MediaRepo, the sweeps and     *)
(* cleanups of StorageService, the exclusive lock of                        *)
(* MaintenanceCoordinator, and what backup and restore do to them.          *)
(*                                                                         *)
(* A file is written before its row and removed before its row, each with  *)
(* awaits in between, and the sweeps work through lists read long before.  *)
(* Whether a row is old enough to be swept is left open.  An avatar counts *)
(* as one more reference that is looked at everywhere.                     *)
(***************************************************************************)
EXTENDS Naturals

CONSTANTS
  Media,     \* media ids; no id is used twice
  Uploads,   \* those of origin 'upload'
  Counted,   \* kinds of reference that references() counts: message parts, ...
  Kinds,     \* all kinds: also video tasks and file drafts
  MaxOps,    \* bound: previews, cleanups, backups and restores by the admin
  MaxEpoch   \* bound: incarnations of the process (crashes + 1)

ASSUME StorageConstants ==
  /\ Uploads \subseteq Media /\ Counted \subseteq Kinds
  /\ MaxOps \in Nat /\ MaxEpoch \in Nat \ {0}

VARIABLES
  row,      \* durable: the media row of an id
  file,     \* durable: the ids whose file is on disk
  refs,     \* durable: the references to each row
  stored,   \* durable: the cleanup report of the last preview
  backup,   \* durable: the database as the last backup holds it
  open,     \* the database is open
  lock,     \* MaintenanceCoordinator.current
  save,     \* the save() under way for each id
  removal,  \* the delete() under way of each remover
  cleanup,  \* the cleanup under way
  job,      \* the maintenance job: its phase and the list of collectOrphans()
  torn,     \* rows that lost their file when a deletion or the database was cut short
  late,     \* references taken of a row that was already doomed
  ops, mode, epoch

vars == <<row, file, refs, stored, backup, open, lock, save, removal, cleanup,
          job, torn, late, ops, mode, epoch>>

Rows == {"none", "live", "trash", "gone"}
Removers == {"admin", "cleanup", "collect"}

NoReport == [trash |-> {}, orphans |-> {}, missing |-> {}]
NoRemoval == [of |-> {}, rm |-> FALSE]
NoCleanup == [phase |-> "idle", internal |-> FALSE, apply |-> FALSE, known |-> {},
              report |-> NoReport]
NoJob == [phase |-> "idle", list |-> {}]

Has(m) == row[m] \in {"live", "trash"}
WithoutFile == {m \in Media : Has(m) /\ m \notin file}
Unreferenced(m) == refs[m] \cap Counted = {}
Removing(a, m) == removal[a].of = {m}

Init ==
  /\ row = [m \in Media |-> "none"] /\ file = {}
  /\ refs = [m \in Media |-> {}] /\ late = [m \in Media |-> {}]
  /\ stored = NoReport
  /\ backup = [row |-> row, refs |-> refs, stored |-> NoReport, taken |-> FALSE]
  /\ open = TRUE /\ lock = "free"
  /\ save = [m \in Media |-> "idle"]
  /\ removal = [a \in Removers |-> NoRemoval]
  /\ cleanup = NoCleanup /\ job = NoJob /\ torn = {}
  /\ ops = 0 /\ mode = "up" /\ epoch = 1

\* Handlers run with the database open; a closed one makes them throw.
Up == mode = "up" /\ open

database == <<row, refs, stored, backup, open, late>>
bounds == <<ops, mode, epoch>>

-------------------------------------------------------------------------------
(***************************************************************************)
(* save(), as StorageService wraps it: refused while writes are blocked,   *)
(* and counted in activeWrites until it ends.                              *)
(***************************************************************************)
IsWriteBlocked_Never == FALSE
IsWriteBlocked == lock \in {"cleanup", "restore"}

activeWrites == {m \in Media : save[m] # "idle"}

BeginSave(m) ==
  /\ Up /\ row[m] = "none" /\ save[m] = "idle"
  /\ ~IsWriteBlocked
  /\ save' = [save EXCEPT ![m] = "checking"]
  /\ UNCHANGED <<database, file, lock, removal, cleanup, job, torn, bounds>>

\* Over the hard limit, or not what it claims to be.
RefuseSave(m) ==
  /\ mode = "up" /\ save[m] = "checking"
  /\ save' = [save EXCEPT ![m] = "idle"]
  /\ row' = [row EXCEPT ![m] = "gone"]
  /\ UNCHANGED <<file, refs, stored, backup, open, late, lock, removal, cleanup,
                 job, torn, bounds>>

WriteFile(m) ==
  /\ mode = "up" /\ save[m] = "checking"
  /\ save' = [save EXCEPT ![m] = "written"]
  /\ file' = file \cup {m}
  /\ UNCHANGED <<database, lock, removal, cleanup, job, torn, bounds>>

CreateRow(m) ==
  /\ Up /\ save[m] = "written"
  /\ save' = [save EXCEPT ![m] = "idle"]
  /\ row' = [row EXCEPT ![m] = "live"]
  /\ UNCHANGED <<file, refs, stored, backup, open, late, lock, removal, cleanup,
                 job, torn, bounds>>

\* The insertion fails: the file is removed again.
CreateFails(m) ==
  /\ mode = "up" /\ ~open /\ save[m] = "written"
  /\ save' = [save EXCEPT ![m] = "idle"]
  /\ row' = [row EXCEPT ![m] = "gone"]
  /\ file' = file \ {m}
  /\ UNCHANGED <<refs, stored, backup, open, late, lock, removal, cleanup, job,
                 torn, bounds>>

-------------------------------------------------------------------------------
(***************************************************************************)
(* References, the trash, and delete(): the file, then the row.            *)
(***************************************************************************)
\* Somebody has decided to delete the row and looks at it no more.
Doomed(m) == m \in job.list \/ \E a \in Removers : Removing(a, m)

\* A deletion has removed the file and not yet the row.
Between(m) == \E a \in Removers : Removing(a, m) /\ removal[a].rm

\* A message, a sticker, a moment, a task: the row exists, trashed or not.
Refer(m, k) ==
  /\ Up /\ Has(m) /\ k \notin refs[m]
  /\ refs' = [refs EXCEPT ![m] = @ \cup {k}]
  /\ late' = IF Doomed(m) THEN [late EXCEPT ![m] = @ \cup {k}] ELSE late
  /\ UNCHANGED <<row, file, stored, backup, open, lock, save, removal, cleanup,
                 job, torn, bounds>>

Release(m, k) ==
  /\ Up /\ k \in refs[m]
  /\ refs' = [refs EXCEPT ![m] = @ \ {k}]
  /\ late' = [late EXCEPT ![m] = @ \ {k}]
  /\ UNCHANGED <<row, file, stored, backup, open, lock, save, removal, cleanup,
                 job, torn, bounds>>

Trash(m) ==
  /\ Up /\ row[m] = "live" /\ Unreferenced(m)
  /\ row' = [row EXCEPT ![m] = "trash"]
  /\ UNCHANGED <<file, refs, stored, backup, open, late, lock, save, removal,
                 cleanup, job, torn, bounds>>

Restore(m) ==
  /\ Up /\ row[m] = "trash"
  /\ row' = [row EXCEPT ![m] = "live"]
  /\ UNCHANGED <<file, refs, stored, backup, open, late, lock, save, removal,
                 cleanup, job, torn, bounds>>

Remove(a, m) == removal' = [removal EXCEPT ![a] = [of |-> {m}, rm |-> FALSE]]

MayDelete(m) == Unreferenced(m)

\* DELETE /api/admin/media/:id/permanent, and the batch action.
DeletePermanently(m) ==
  /\ Up /\ Has(m) /\ MayDelete(m)
  /\ removal["admin"] = NoRemoval
  /\ Remove("admin", m)
  /\ UNCHANGED <<database, file, lock, save, cleanup, job, torn, bounds>>

RemoveFile(a, m) ==
  /\ mode = "up" /\ Removing(a, m) /\ ~removal[a].rm
  /\ removal' = [removal EXCEPT ![a].rm = TRUE]
  /\ file' = file \ {m}
  /\ UNCHANGED <<database, lock, save, cleanup, job, torn, bounds>>

\* ON DELETE SET NULL takes the references along.
RemoveRow(a, m) ==
  /\ Up /\ Removing(a, m) /\ removal[a].rm /\ Has(m)
  /\ row' = [row EXCEPT ![m] = "gone"]
  /\ refs' = [refs EXCEPT ![m] = {}] /\ late' = [late EXCEPT ![m] = {}]
  /\ torn' = torn \ {m}
  /\ removal' = [removal EXCEPT ![a] = NoRemoval]
  /\ UNCHANGED <<file, stored, backup, open, lock, save, cleanup, job, bounds>>

\* The row is gone already, or the database is closed: delete() throws, and
\* takes the cleanup or the job that called it along.
RemovalThrows(a, m) ==
  /\ mode = "up" /\ Removing(a, m) /\ removal[a].rm
  /\ ~open \/ ~Has(m)
  /\ removal' = [removal EXCEPT ![a] = NoRemoval]
  /\ torn' = IF Has(m) THEN torn \cup {m} ELSE torn
  /\ cleanup' = IF a = "cleanup" THEN NoCleanup ELSE cleanup
  /\ lock' = IF a = "cleanup" THEN "free" ELSE lock
  /\ job' = IF a = "collect" \/ (a = "cleanup" /\ cleanup.internal) THEN NoJob ELSE job
  /\ UNCHANGED <<database, file, save, bounds>>

-------------------------------------------------------------------------------
(***************************************************************************)
(* The maintenance job: collectOrphans(), then the internal cleanup.       *)
(***************************************************************************)
BeginMaintenance ==
  /\ Up /\ job.phase = "idle"
  /\ \E list \in SUBSET {m \in Uploads : row[m] = "live" /\ Unreferenced(m)} :
       job' = [phase |-> "collecting", list |-> list]
  /\ UNCHANGED <<database, file, lock, save, removal, cleanup, torn, bounds>>

\* The rows of the list are not read again.
CollectOrphan(m) ==
  /\ mode = "up" /\ m \in job.list /\ removal["collect"] = NoRemoval
  /\ Remove("collect", m)
  /\ job' = [job EXCEPT !.list = @ \ {m}]
  /\ UNCHANGED <<database, file, lock, save, cleanup, torn, bounds>>

Collected ==
  /\ mode = "up" /\ job = [phase |-> "collecting", list |-> {}]
  /\ removal["collect"] = NoRemoval
  /\ job' = [job EXCEPT !.phase = "cleaning"]
  /\ UNCHANGED <<database, file, lock, save, removal, cleanup, torn, bounds>>

-------------------------------------------------------------------------------
(***************************************************************************)
(* cleanup(): only when no write is under way, and under the lock.         *)
(***************************************************************************)
MayClean_LockOnly == lock = "free"
MayClean == activeWrites = {} /\ lock = "free"

\* What report() reads before it walks the directory.
FirstLook == [NoReport EXCEPT
  !.trash = {m \in Media : row[m] = "trash"},
  !.missing = WithoutFile]

Begin(internal, apply) ==
  /\ lock' = "cleanup"
  /\ cleanup' = [phase |-> "reporting", internal |-> internal, apply |-> apply,
                 known |-> {m \in file : Has(m)}, report |-> FirstLook]

BeginPreview ==
  /\ Up /\ MayClean /\ ops < MaxOps
  /\ Begin(FALSE, FALSE) /\ ops' = ops + 1
  /\ UNCHANGED <<database, file, save, removal, job, torn, mode, epoch>>

BeginInternal ==
  /\ Up /\ job.phase = "cleaning" /\ MayClean
  /\ Begin(TRUE, TRUE)
  /\ UNCHANGED <<database, file, save, removal, job, torn, bounds>>

\* The report the admin has seen, while it is fresh.
BeginConfirmed ==
  /\ Up /\ MayClean /\ ops < MaxOps /\ stored # NoReport
  /\ lock' = "cleanup" /\ ops' = ops + 1
  /\ cleanup' = [NoCleanup EXCEPT !.phase = "applying", !.apply = TRUE,
                                  !.report = stored]
  /\ UNCHANGED <<database, file, save, removal, job, torn, mode, epoch>>

\* MAINTENANCE_BUSY, or a write under way: the job fails and runs another day.
InternalRefused ==
  /\ Up /\ job.phase = "cleaning" /\ cleanup = NoCleanup /\ ~MayClean
  /\ job' = NoJob
  /\ UNCHANGED <<database, file, lock, save, removal, cleanup, torn, bounds>>

Orphans_Trashed == {m \in file : row[m] = "trash"}
\* Files on disk that no row named at the first look.
Orphans == file \ cleanup.known

\* The directory has been walked.
Reported ==
  /\ mode = "up" /\ cleanup.phase = "reporting"
  /\ LET report == [cleanup.report EXCEPT !.orphans = Orphans]
     IN IF cleanup.apply
          THEN /\ cleanup' = [cleanup EXCEPT !.phase = "applying", !.report = report]
               /\ UNCHANGED <<stored, lock>>
          ELSE /\ stored' = report
               /\ cleanup' = NoCleanup /\ lock' = "free"
  /\ UNCHANGED <<row, file, refs, backup, open, late, save, removal, job, torn, bounds>>

Applying == Up /\ cleanup.phase = "applying" /\ removal["cleanup"] = NoRemoval

StillTrash_AsReported(m) == Has(m)
StillTrash(m) == row[m] = "trash" /\ Unreferenced(m)

CleanTrash(m) ==
  /\ Applying /\ m \in cleanup.report.trash
  /\ cleanup' = [cleanup EXCEPT !.report.trash = @ \ {m}]
  /\ IF StillTrash(m) THEN Remove("cleanup", m) ELSE UNCHANGED removal
  /\ UNCHANGED <<database, file, lock, save, job, torn, bounds>>

\* Only the size and the time of the file are compared once more.
CleanOrphan(m) ==
  /\ Applying /\ cleanup.report.trash = {} /\ m \in cleanup.report.orphans
  /\ cleanup' = [cleanup EXCEPT !.report.orphans = @ \ {m}]
  /\ file' = file \ {m}
  /\ UNCHANGED <<database, lock, save, removal, job, torn, bounds>>

CleanMissing(m) ==
  /\ Applying /\ cleanup.report.trash = {} /\ cleanup.report.orphans = {}
  /\ m \in cleanup.report.missing
  /\ cleanup' = [cleanup EXCEPT !.report.missing = @ \ {m}]
  /\ IF Has(m) /\ m \notin file /\ Unreferenced(m)
       THEN /\ row' = [row EXCEPT ![m] = "gone"] /\ torn' = torn \ {m}
            /\ refs' = [refs EXCEPT ![m] = {}] /\ late' = [late EXCEPT ![m] = {}]
       ELSE UNCHANGED <<row, torn, refs, late>>
  /\ UNCHANGED <<file, stored, backup, open, lock, save, removal, job, bounds>>

Unlock_Kept == lock
Unlock == "free"

Cleaned ==
  /\ Applying /\ cleanup.report = NoReport
  /\ lock' = Unlock /\ cleanup' = NoCleanup
  /\ job' = IF cleanup.internal THEN NoJob ELSE job
  /\ UNCHANGED <<database, file, save, removal, torn, bounds>>

-------------------------------------------------------------------------------
(***************************************************************************)
(* BackupService under the same lock.  A backup lets everybody go on; a    *)
(* restore blocks new writes but does not wait for those under way.        *)
(***************************************************************************)
BeginBackup ==
  /\ Up /\ lock = "free" /\ ops < MaxOps
  /\ lock' = "backup" /\ ops' = ops + 1
  /\ UNCHANGED <<database, file, save, removal, cleanup, job, torn, mode, epoch>>

\* db.backup() holds the database as it is when it ends.
BackupDone ==
  /\ Up /\ lock = "backup"
  /\ lock' = "free"
  /\ backup' = [row |-> row, refs |-> refs, stored |-> stored, taken |-> TRUE]
  /\ UNCHANGED <<row, refs, stored, open, late, file, save, removal, cleanup, job,
                 torn, bounds>>

BeginRestore ==
  /\ Up /\ lock = "free" /\ ops < MaxOps /\ backup.taken
  /\ lock' = "restore" /\ ops' = ops + 1
  /\ UNCHANGED <<database, file, save, removal, cleanup, job, torn, mode, epoch>>

\* The backup is verified: the database is closed and copied over.
CloseForRestore ==
  /\ Up /\ lock = "restore"
  /\ open' = FALSE
  /\ UNCHANGED <<row, refs, stored, backup, late, file, lock, save, removal,
                 cleanup, job, torn, bounds>>

\* The backup does not pass verify().
RefuseRestore ==
  /\ Up /\ lock = "restore"
  /\ lock' = "free"
  /\ UNCHANGED <<database, file, save, removal, cleanup, job, torn, bounds>>

\* Ids handed out since the backup are not handed out again.
RestoredRow(m) ==
  IF backup.row[m] = "none" /\ row[m] # "none" THEN "gone" ELSE backup.row[m]

ReopenAfterRestore ==
  /\ mode = "up" /\ lock = "restore" /\ ~open
  /\ open' = TRUE /\ lock' = "free"
  /\ row' = [m \in Media |-> RestoredRow(m)]
  /\ refs' = backup.refs /\ stored' = backup.stored
  /\ late' = [m \in Media |-> IF Doomed(m) THEN backup.refs[m] ELSE {}]
  /\ UNCHANGED <<backup, file, save, removal, cleanup, job, bounds>>
  /\ torn' = WithoutFile'

\* The old database could not be copied aside: the finally block opens it again.
\* A copy that leaves half a database behind is left out.
ReopenAsItWas ==
  /\ mode = "up" /\ lock = "restore" /\ ~open
  /\ open' = TRUE /\ lock' = "free"
  /\ UNCHANGED <<row, refs, stored, backup, late, file, save, removal, cleanup,
                 job, torn, bounds>>

-------------------------------------------------------------------------------
\* A death while a restore has the database closed leaves the old one or the copy.
Crash ==
  /\ mode = "up" /\ epoch < MaxEpoch
  /\ mode' = "down" /\ lock' = "free" /\ open' = TRUE
  /\ late' = [m \in Media |-> {}]
  /\ save' = [m \in Media |-> "idle"]
  /\ removal' = [a \in Removers |-> NoRemoval]
  /\ cleanup' = NoCleanup /\ job' = NoJob
  /\ UNCHANGED <<file, backup, ops, epoch>>
  /\ \E copied \in BOOLEAN :
       /\ copied => ~open
       /\ row' = [m \in Media |-> IF save[m] # "idle" THEN "gone"
                                 ELSE IF copied THEN RestoredRow(m) ELSE row[m]]
       /\ refs' = IF copied THEN backup.refs ELSE refs
       /\ stored' = IF copied THEN backup.stored ELSE stored
       /\ torn' = IF copied THEN WithoutFile' ELSE torn \cup {m \in Media : Between(m)}

Boot ==
  /\ mode = "down"
  /\ mode' = "up" /\ epoch' = epoch + 1
  /\ UNCHANGED <<database, file, lock, save, removal, cleanup, job, torn, ops>>

Writers(m) == WriteFile(m) \/ CreateRow(m) \/ CreateFails(m)

Removals(a, m) == RemoveFile(a, m) \/ RemoveRow(a, m) \/ RemovalThrows(a, m)

Maintenance ==
  \/ BeginMaintenance \/ Collected \/ BeginInternal \/ InternalRefused
  \/ \E m \in Media : CollectOrphan(m)

Cleaning ==
  \/ Reported \/ Cleaned
  \/ \E m \in Media : CleanTrash(m) \/ CleanOrphan(m) \/ CleanMissing(m)

Locked ==
  \/ BackupDone \/ RefuseRestore \/ CloseForRestore
  \/ ReopenAfterRestore \/ ReopenAsItWas

Next ==
  \/ \E m \in Media :
       \/ BeginSave(m) \/ RefuseSave(m) \/ Writers(m)
       \/ Trash(m) \/ Restore(m) \/ DeletePermanently(m)
       \/ \E k \in Kinds : Refer(m, k) \/ Release(m, k)
       \/ \E a \in Removers : Removals(a, m)
  \/ Maintenance \/ Cleaning \/ Locked
  \/ BeginPreview \/ BeginConfirmed \/ BeginBackup \/ BeginRestore
  \/ Crash \/ Boot

Spec == Init /\ [][Next]_vars

\* Disk and database answer; the maintenance job recurs; a supervisor restarts.
Fairness ==
  /\ \A m \in Media : /\ WF_vars(Writers(m))
                      /\ \A a \in Removers : WF_vars(Removals(a, m))
  /\ WF_vars(Maintenance) /\ WF_vars(Cleaning) /\ WF_vars(Locked) /\ WF_vars(Boot)

FairSpec == Spec /\ Fairness

-------------------------------------------------------------------------------
(***************************************************************************)
(* Properties                                                              *)
(***************************************************************************)
Reports == [trash : SUBSET Media, orphans : SUBSET Media, missing : SUBSET Media]

TypeOK ==
  /\ row \in [Media -> Rows] /\ file \subseteq Media
  /\ refs \in [Media -> SUBSET Kinds] /\ late \in [Media -> SUBSET Kinds]
  /\ stored \in Reports /\ open \in BOOLEAN
  /\ backup \in [row : [Media -> Rows], refs : [Media -> SUBSET Kinds],
                 stored : Reports, taken : BOOLEAN]
  /\ lock \in {"free", "cleanup", "backup", "restore"}
  /\ save \in [Media -> {"idle", "checking", "written"}]
  /\ removal \in [Removers -> [of : SUBSET Media, rm : BOOLEAN]]
  /\ cleanup \in [phase : {"idle", "reporting", "applying"}, internal : BOOLEAN,
                  apply : BOOLEAN, known : SUBSET Media, report : Reports]
  /\ job \in [phase : {"idle", "collecting", "cleaning"}, list : SUBSET Media]
  /\ torn \subseteq Media /\ ops \in 0 .. MaxOps
  /\ mode \in {"up", "down"} /\ epoch \in 1 .. MaxEpoch

\* No cleanup takes a file for an orphan that a save has written and not yet
\* entered: the counter of writes and the lock exclude each other both ways.
WrittenHasFile == \A m \in Media : save[m] = "written" => m \in file

\* A row has its file, unless a deletion is between the two or was cut short
\* there, or the row came back from a backup.
RowHasFile ==
  \A m \in Media : Has(m) => m \in file \/ m \in torn \/ Between(m)

\* What the database knows, or is about to know, is on the disk.
FilesAreThere == TypeOK /\ WrittenHasFile /\ RowHasFile

\* Nothing that counts as a reference is lost, except one that was taken of a
\* row somebody had already decided to delete.
ReferencesSurvive ==
  [][\A m \in Media :
       open /\ Has(m) /\ row'[m] = "gone" =>
         refs[m] \cap Counted \subseteq late[m]]_vars

\* Why both hold, as an inductive invariant.  An id is written before it has a
\* row, and has had one ever after, restored or not.
IdsAreFresh ==
  \A m \in Media :
    /\ save[m] # "idle" => row[m] = "none"
    /\ m \in file /\ row[m] = "none" => save[m] = "written"
    /\ backup.row[m] # "none" => row[m] # "none"

\* The lock of a cleanup is held exactly while it runs, and no save runs with it.
LockIsHeld ==
  /\ lock = "cleanup" <=> cleanup # NoCleanup
  /\ cleanup.phase = "idle" <=> cleanup = NoCleanup
  /\ lock = "cleanup" => activeWrites = {}
  /\ removal["cleanup"] # NoRemoval => cleanup.phase = "applying"

\* What a report takes for an orphan had a row once and has none, in the
\* database that holds the report.
OrphansAreGone ==
  /\ \A m \in stored.orphans \cup cleanup.report.orphans : row[m] = "gone"
  /\ \A m \in backup.stored.orphans : backup.row[m] = "gone"
  /\ cleanup.phase = "reporting" => \A m \in file \ cleanup.known : row[m] = "gone"

DoomedAreUnreferenced ==
  \A m \in Media :
    Doomed(m) => row[m] # "none" /\ refs[m] \cap Counted \subseteq late[m]

DeathsAreLeft == mode = "down" => epoch < MaxEpoch

StorageInvariant ==
  /\ FilesAreThere /\ IdsAreFresh /\ LockIsHeld /\ OrphansAreGone
  /\ DoomedAreUnreferenced /\ DeathsAreLeft

\* The lock is given back, whatever happened under it.
LockIsReturned == lock # "free" ~> lock = "free"

\* A file without a row does not stay for ever.
OrphansAreRemoved ==
  \A m \in Media : m \in file /\ row[m] = "gone" ~> m \notin file \/ row[m] # "gone"

\* Cleaning up ends and, sooner or later, is done.
CleanupComesThrough == LockIsReturned /\ OrphansAreRemoved
===============================================================================
