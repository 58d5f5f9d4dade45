----------------------------- MODULE StorageProofs -----------------------------
(***************************************************************************)
(* For any media, references, cleanups, backups, restores and crashes: the *)
(* database keeps its files, and nothing that is referred to is cleaned up *)
(* unless the reference came after the decision.                           *)
(*                                                                         *)
(* StorageInvariant is inductive.  Each action keeps the parts it disturbs *)
(* for reasons of its own and the others because it leaves alone what they *)
(* look at (the lemmas named ...Stays).  Removals and cleanups are records *)
(* that many actions update; what an update does to them is said once.     *)
(***************************************************************************)
EXTENDS Storage, TLAPS

LEMMA Constants ==
  /\ Uploads \subseteq Media /\ Counted \subseteq Kinds
  /\ MaxOps \in Nat /\ MaxEpoch \in Nat \ {0}
  BY StorageConstants

-------------------------------------------------------------------------------
(*****************************************************************************)
(* Steps that leave alone what a part of the invariant looks at.             *)
(*****************************************************************************)
LEMMA WrittenHasFileStays ==
  ASSUME WrittenHasFile, UNCHANGED <<save, file>> PROVE WrittenHasFile'
  BY DEF WrittenHasFile

LEMMA BetweenStays ==
  ASSUME UNCHANGED removal PROVE \A m : Between(m)' <=> Between(m)
  BY DEF Between, Removing

LEMMA RowHasFileStays ==
  ASSUME RowHasFile, UNCHANGED <<row, file, torn, removal>> PROVE RowHasFile'
  BY BetweenStays DEF RowHasFile, Has

LEMMA IdsAreFreshStays ==
  ASSUME IdsAreFresh, UNCHANGED <<save, row, file, backup>> PROVE IdsAreFresh'
  BY DEF IdsAreFresh

LEMMA LockIsHeldStays ==
  ASSUME LockIsHeld, UNCHANGED <<lock, cleanup, save, removal>> PROVE LockIsHeld'
  BY DEF LockIsHeld, activeWrites

LEMMA OrphansAreGoneStays ==
  ASSUME OrphansAreGone, UNCHANGED <<stored, cleanup, row, backup, file>>
  PROVE  OrphansAreGone'
  BY DEF OrphansAreGone

LEMMA DoomedAreUnreferencedStays ==
  ASSUME DoomedAreUnreferenced, UNCHANGED <<job, removal, row, refs, late>>
  PROVE  DoomedAreUnreferenced'
  BY DEF DoomedAreUnreferenced, Doomed, Removing

LEMMA DeathsAreLeftStays ==
  ASSUME DeathsAreLeft, UNCHANGED <<mode, epoch>> PROVE DeathsAreLeft'
  BY DEF DeathsAreLeft

-------------------------------------------------------------------------------
(*****************************************************************************)
(* A removal begins, removes the file, and ends.                             *)
(*****************************************************************************)
LEMMA RemovalBegins ==
  ASSUME TypeOK, NEW a \in Removers, NEW m \in Media, removal[a] = NoRemoval, Remove(a, m)
  PROVE  /\ removal' \in [Removers -> [of : SUBSET Media, rm : BOOLEAN]]
         /\ \A b \in Removers \ {a} : removal'[b] = removal[b]
         /\ \A b \in Removers, k \in Media : Removing(b, k)' => Removing(b, k) \/ k = m
         /\ \A k \in Media : Between(k) => Between(k)'
  <1>1. removal' = [removal EXCEPT ![a] = [of |-> {m}, rm |-> FALSE]]
    BY DEF Remove
  <1>2. /\ removal' \in [Removers -> [of : SUBSET Media, rm : BOOLEAN]]
        /\ removal'[a] = [of |-> {m}, rm |-> FALSE]
        /\ \A b \in Removers \ {a} : removal'[b] = removal[b]
    BY <1>1 DEF TypeOK
  <1>3. \A b \in Removers, k \in Media : Removing(b, k)' => Removing(b, k) \/ k = m
    BY <1>2 DEF Removing
  <1>4. ~removal[a].rm
    BY DEF NoRemoval
  <1>5. \A k \in Media : Between(k) => Between(k)'
    BY <1>2, <1>4 DEF Between, Removing
  <1>. QED  BY <1>2, <1>3, <1>5

LEMMA RemovalGoesOn ==
  ASSUME TypeOK, NEW a \in Removers, NEW m \in Media, RemoveFile(a, m)
  PROVE  /\ removal' \in [Removers -> [of : SUBSET Media, rm : BOOLEAN]]
         /\ \A b \in Removers : (removal'[b] = NoRemoval) <=> (removal[b] = NoRemoval)
         /\ \A b \in Removers, k \in Media : Removing(b, k)' <=> Removing(b, k)
         /\ Between(m)' /\ \A k \in Media : Between(k) => Between(k)'
  <1>1. /\ removal' = [removal EXCEPT ![a].rm = TRUE]
        /\ Removing(a, m)
    BY DEF RemoveFile
  <1>2. /\ removal' \in [Removers -> [of : SUBSET Media, rm : BOOLEAN]]
        /\ removal'[a].rm /\ removal'[a].of = removal[a].of
        /\ \A b \in Removers \ {a} : removal'[b] = removal[b]
    BY <1>1 DEF TypeOK
  <1>3. \A b \in Removers, k \in Media : Removing(b, k)' <=> Removing(b, k)
    BY <1>2 DEF Removing
  <1>4. removal[a] # NoRemoval /\ removal'[a] # NoRemoval
    BY <1>1, <1>2 DEF Removing, NoRemoval
  <1>. QED  BY <1>1, <1>2, <1>3, <1>4 DEF Between

LEMMA RemovalEnds ==
  ASSUME TypeOK, NEW a \in Removers, NEW m \in Media, Removing(a, m),
         removal' = [removal EXCEPT ![a] = NoRemoval]
  PROVE  /\ removal' \in [Removers -> [of : SUBSET Media, rm : BOOLEAN]]
         /\ removal'[a] = NoRemoval /\ \A b \in Removers \ {a} : removal'[b] = removal[b]
         /\ \A b \in Removers, k \in Media : Removing(b, k)' => Removing(b, k)
         /\ \A k \in Media : k # m /\ Between(k) => Between(k)'
  <1>1. /\ removal' \in [Removers -> [of : SUBSET Media, rm : BOOLEAN]]
        /\ removal'[a] = NoRemoval /\ \A b \in Removers \ {a} : removal'[b] = removal[b]
    BY DEF TypeOK, NoRemoval
  <1>2. \A b \in Removers, k \in Media : Removing(b, k)' => Removing(b, k)
    BY <1>1 DEF Removing, NoRemoval
  <1>3. \A k \in Media : k # m /\ Between(k) => Between(k)'
    BY <1>1 DEF Between, Removing
  <1>. QED  BY <1>1, <1>2, <1>3

-------------------------------------------------------------------------------
(*****************************************************************************)
(* What a cleanup holds, when it begins and while it goes through its report.*)
(*****************************************************************************)
Cleanups ==
  [phase : {"idle", "reporting", "applying"}, internal : BOOLEAN, apply : BOOLEAN,
   known : SUBSET Media, report : Reports]

LEMMA NothingToDo ==
  /\ NoCleanup \in Cleanups /\ NoCleanup.phase = "idle"
  /\ NoReport \in Reports /\ NoReport.orphans = {} /\ NoCleanup.report = NoReport
  BY DEF NoCleanup, NoReport, Cleanups, Reports

LEMMA CleanupBegins ==
  ASSUME TypeOK, NEW internal \in BOOLEAN, NEW apply \in BOOLEAN, Begin(internal, apply)
  PROVE  /\ cleanup' \in Cleanups /\ cleanup'.phase = "reporting"
         /\ cleanup'.known = {m \in file : Has(m)}
         /\ cleanup'.report.orphans = {} /\ lock' = "cleanup"
  <1>1. FirstLook \in Reports /\ FirstLook.orphans = {}
    BY DEF FirstLook, WithoutFile, NoReport, Reports
  <1>2. {m \in file : Has(m)} \in SUBSET Media
    BY DEF TypeOK
  <1>. HIDE DEF FirstLook
  <1>. QED  BY <1>1, <1>2 DEF Begin, Cleanups

LEMMA ReportShrinks ==
  ASSUME TypeOK, NEW m,
         \/ cleanup' = [cleanup EXCEPT !.report.trash = @ \ {m}]
         \/ cleanup' = [cleanup EXCEPT !.report.orphans = @ \ {m}]
         \/ cleanup' = [cleanup EXCEPT !.report.missing = @ \ {m}]
  PROVE  /\ cleanup' \in Cleanups /\ cleanup'.phase = cleanup.phase
         /\ cleanup'.report.orphans \subseteq cleanup.report.orphans
  BY DEF TypeOK, Cleanups, Reports

-------------------------------------------------------------------------------
(*****************************************************************************)
(* save(), references and the trash.                                         *)
(*****************************************************************************)
LEMMA BeginSaveKeeps ==
  ASSUME StorageInvariant, NEW m \in Media, BeginSave(m)
  PROVE  StorageInvariant'
  <1>0. /\ TypeOK /\ WrittenHasFile /\ RowHasFile /\ IdsAreFresh /\ LockIsHeld
        /\ OrphansAreGone /\ DoomedAreUnreferenced /\ DeathsAreLeft
    BY DEF StorageInvariant, FilesAreThere
  <1>1. TypeOK'
    BY <1>0, Constants DEF TypeOK, BeginSave, database, bounds
  <1>2. WrittenHasFile'
    BY <1>0 DEF WrittenHasFile, BeginSave
  <1>3. IdsAreFresh'
    BY <1>0 DEF IdsAreFresh, BeginSave, database
  <1>4. LockIsHeld'
    BY <1>0 DEF LockIsHeld, BeginSave, IsWriteBlocked
  <1>5. RowHasFile' /\ OrphansAreGone' /\ DoomedAreUnreferenced' /\ DeathsAreLeft'
    BY <1>0, RowHasFileStays, OrphansAreGoneStays, DoomedAreUnreferencedStays,
       DeathsAreLeftStays
    DEF BeginSave, database, bounds
  <1>. QED  BY <1>1, <1>2, <1>3, <1>4, <1>5 DEF StorageInvariant, FilesAreThere

LEMMA RefuseSaveKeeps ==
  ASSUME StorageInvariant, NEW m \in Media, RefuseSave(m)
  PROVE  StorageInvariant'
  <1>0. /\ TypeOK /\ WrittenHasFile /\ RowHasFile /\ IdsAreFresh /\ LockIsHeld
        /\ OrphansAreGone /\ DoomedAreUnreferenced /\ DeathsAreLeft
    BY DEF StorageInvariant, FilesAreThere
  <1>1. TypeOK'
    BY <1>0, Constants DEF TypeOK, RefuseSave, bounds, Rows
  <1>2. WrittenHasFile'
    BY <1>0 DEF WrittenHasFile, RefuseSave
  <1>3. RowHasFile'
    BY <1>0, BetweenStays DEF RowHasFile, Has, RefuseSave
  <1>4. IdsAreFresh'
    BY <1>0 DEF TypeOK, IdsAreFresh, RefuseSave
  <1>5. LockIsHeld'
    BY <1>0 DEF LockIsHeld, activeWrites, RefuseSave
  <1>6. OrphansAreGone'
    BY <1>0 DEF OrphansAreGone, RefuseSave
  <1>7. DoomedAreUnreferenced'
    BY <1>0 DEF DoomedAreUnreferenced, Doomed, Removing, RefuseSave
  <1>8. DeathsAreLeft'
    BY <1>0, DeathsAreLeftStays DEF RefuseSave, bounds
  <1>. QED
    BY <1>1, <1>2, <1>3, <1>4, <1>5, <1>6, <1>7, <1>8
    DEF StorageInvariant, FilesAreThere

LEMMA WriteFileKeeps ==
  ASSUME StorageInvariant, NEW m \in Media, WriteFile(m)
  PROVE  StorageInvariant'
  <1>0. /\ TypeOK /\ WrittenHasFile /\ RowHasFile /\ IdsAreFresh /\ LockIsHeld
        /\ OrphansAreGone /\ DoomedAreUnreferenced /\ DeathsAreLeft
    BY DEF StorageInvariant, FilesAreThere
  <1>1. TypeOK'
    BY <1>0, Constants DEF TypeOK, WriteFile, database, bounds
  <1>2. WrittenHasFile'
    BY <1>0 DEF WrittenHasFile, WriteFile
  <1>3. RowHasFile'
    BY <1>0, BetweenStays DEF RowHasFile, Has, WriteFile, database
  <1>4. IdsAreFresh'
    BY <1>0 DEF TypeOK, IdsAreFresh, WriteFile, database
  <1>5. LockIsHeld'
    BY <1>0 DEF LockIsHeld, activeWrites, WriteFile
  <1>6. OrphansAreGone'
    BY <1>0 DEF LockIsHeld, OrphansAreGone, activeWrites, WriteFile, database
  <1>7. DoomedAreUnreferenced' /\ DeathsAreLeft'
    BY <1>0, DoomedAreUnreferencedStays, DeathsAreLeftStays
    DEF WriteFile, database, bounds
  <1>. QED
    BY <1>1, <1>2, <1>3, <1>4, <1>5, <1>6, <1>7 DEF StorageInvariant, FilesAreThere

LEMMA CreateRowKeeps ==
  ASSUME StorageInvariant, NEW m \in Media, CreateRow(m)
  PROVE  StorageInvariant'
  <1>0. /\ TypeOK /\ WrittenHasFile /\ RowHasFile /\ IdsAreFresh /\ LockIsHeld
        /\ OrphansAreGone /\ DoomedAreUnreferenced /\ DeathsAreLeft
    BY DEF StorageInvariant, FilesAreThere
  <1>1. TypeOK'
    BY <1>0, Constants DEF TypeOK, CreateRow, bounds, Rows
  <1>2. WrittenHasFile'
    BY <1>0 DEF WrittenHasFile, CreateRow
  <1>3. RowHasFile'
    BY <1>0, BetweenStays DEF RowHasFile, WrittenHasFile, Has, CreateRow
  <1>4. IdsAreFresh'
    BY <1>0 DEF TypeOK, IdsAreFresh, CreateRow
  <1>5. LockIsHeld'
    BY <1>0 DEF LockIsHeld, activeWrites, CreateRow
  <1>6. OrphansAreGone'
    BY <1>0 DEF IdsAreFresh, OrphansAreGone, CreateRow
  <1>7. DoomedAreUnreferenced'
    BY <1>0 DEF DoomedAreUnreferenced, Doomed, Removing, CreateRow
  <1>8. DeathsAreLeft'
    BY <1>0, DeathsAreLeftStays DEF CreateRow, bounds
  <1>. QED
    BY <1>1, <1>2, <1>3, <1>4, <1>5, <1>6, <1>7, <1>8
    DEF StorageInvariant, FilesAreThere

LEMMA CreateFailsKeeps ==
  ASSUME StorageInvariant, NEW m \in Media, CreateFails(m)
  PROVE  StorageInvariant'
  <1>0. /\ TypeOK /\ WrittenHasFile /\ RowHasFile /\ IdsAreFresh /\ LockIsHeld
        /\ OrphansAreGone /\ DoomedAreUnreferenced /\ DeathsAreLeft
    BY DEF StorageInvariant, FilesAreThere
  <1>1. TypeOK'
    BY <1>0, Constants DEF TypeOK, CreateFails, bounds, Rows
  <1>2. WrittenHasFile'
    BY <1>0 DEF TypeOK, WrittenHasFile, CreateFails
  <1>3. RowHasFile'
    BY <1>0, BetweenStays DEF TypeOK, RowHasFile, Has, CreateFails
  <1>4. IdsAreFresh'
    BY <1>0 DEF TypeOK, IdsAreFresh, CreateFails
  <1>5. LockIsHeld'
    BY <1>0 DEF LockIsHeld, activeWrites, CreateFails
  <1>6. OrphansAreGone'
    BY <1>0 DEF OrphansAreGone, CreateFails
  <1>7. DoomedAreUnreferenced'
    BY <1>0 DEF DoomedAreUnreferenced, Doomed, Removing, CreateFails
  <1>8. DeathsAreLeft'
    BY <1>0, DeathsAreLeftStays DEF CreateFails, bounds
  <1>. QED
    BY <1>1, <1>2, <1>3, <1>4, <1>5, <1>6, <1>7, <1>8
    DEF StorageInvariant, FilesAreThere

LEMMA ReferKeeps ==
  ASSUME StorageInvariant, NEW m \in Media, NEW k \in Kinds, Refer(m, k)
  PROVE  StorageInvariant'
  <1>0. /\ TypeOK /\ WrittenHasFile /\ RowHasFile /\ IdsAreFresh /\ LockIsHeld
        /\ OrphansAreGone /\ DoomedAreUnreferenced /\ DeathsAreLeft
    BY DEF StorageInvariant, FilesAreThere
  <1>1. TypeOK'
    BY <1>0, Constants DEF TypeOK, Refer, bounds
  <1>2. DoomedAreUnreferenced'
    BY <1>0 DEF TypeOK, DoomedAreUnreferenced, Doomed, Removing, Refer
  <1>3. /\ WrittenHasFile' /\ RowHasFile' /\ IdsAreFresh' /\ LockIsHeld'
        /\ OrphansAreGone' /\ DeathsAreLeft'
    BY <1>0, WrittenHasFileStays, RowHasFileStays, IdsAreFreshStays, LockIsHeldStays,
       OrphansAreGoneStays, DeathsAreLeftStays
    DEF Refer, bounds
  <1>. QED  BY <1>1, <1>2, <1>3 DEF StorageInvariant, FilesAreThere

LEMMA ReleaseKeeps ==
  ASSUME StorageInvariant, NEW m \in Media, NEW k \in Kinds, Release(m, k)
  PROVE  StorageInvariant'
  <1>0. /\ TypeOK /\ WrittenHasFile /\ RowHasFile /\ IdsAreFresh /\ LockIsHeld
        /\ OrphansAreGone /\ DoomedAreUnreferenced /\ DeathsAreLeft
    BY DEF StorageInvariant, FilesAreThere
  <1>1. TypeOK'
    BY <1>0, Constants DEF TypeOK, Release, bounds
  <1>2. DoomedAreUnreferenced'
    BY <1>0 DEF TypeOK, DoomedAreUnreferenced, Doomed, Removing, Release
  <1>3. /\ WrittenHasFile' /\ RowHasFile' /\ IdsAreFresh' /\ LockIsHeld'
        /\ OrphansAreGone' /\ DeathsAreLeft'
    BY <1>0, WrittenHasFileStays, RowHasFileStays, IdsAreFreshStays, LockIsHeldStays,
       OrphansAreGoneStays, DeathsAreLeftStays
    DEF Release, bounds
  <1>. QED  BY <1>1, <1>2, <1>3 DEF StorageInvariant, FilesAreThere

LEMMA TrashKeeps ==
  ASSUME StorageInvariant, NEW m \in Media, Trash(m)
  PROVE  StorageInvariant'
  <1>0. /\ TypeOK /\ WrittenHasFile /\ RowHasFile /\ IdsAreFresh /\ LockIsHeld
        /\ OrphansAreGone /\ DoomedAreUnreferenced /\ DeathsAreLeft
    BY DEF StorageInvariant, FilesAreThere
  <1>1. TypeOK'
    BY <1>0, Constants DEF TypeOK, Trash, bounds, Rows
  <1>2. RowHasFile'
    BY <1>0, BetweenStays DEF RowHasFile, Has, Trash
  <1>3. IdsAreFresh'
    BY <1>0 DEF IdsAreFresh, Trash
  <1>4. OrphansAreGone'
    BY <1>0 DEF OrphansAreGone, Trash
  <1>5. DoomedAreUnreferenced'
    BY <1>0 DEF DoomedAreUnreferenced, Doomed, Removing, Trash
  <1>6. WrittenHasFile' /\ LockIsHeld' /\ DeathsAreLeft'
    BY <1>0, WrittenHasFileStays, LockIsHeldStays, DeathsAreLeftStays DEF Trash, bounds
  <1>. QED  BY <1>1, <1>2, <1>3, <1>4, <1>5, <1>6 DEF StorageInvariant, FilesAreThere

LEMMA RestoreKeeps ==
  ASSUME StorageInvariant, NEW m \in Media, Restore(m)
  PROVE  StorageInvariant'
  <1>0. /\ TypeOK /\ WrittenHasFile /\ RowHasFile /\ IdsAreFresh /\ LockIsHeld
        /\ OrphansAreGone /\ DoomedAreUnreferenced /\ DeathsAreLeft
    BY DEF StorageInvariant, FilesAreThere
  <1>1. TypeOK'
    BY <1>0, Constants DEF TypeOK, Restore, bounds, Rows
  <1>2. RowHasFile'
    BY <1>0, BetweenStays DEF RowHasFile, Has, Restore
  <1>3. IdsAreFresh'
    BY <1>0 DEF IdsAreFresh, Restore
  <1>4. OrphansAreGone'
    BY <1>0 DEF OrphansAreGone, Restore
  <1>5. DoomedAreUnreferenced'
    BY <1>0 DEF DoomedAreUnreferenced, Doomed, Removing, Restore
  <1>6. WrittenHasFile' /\ LockIsHeld' /\ DeathsAreLeft'
    BY <1>0, WrittenHasFileStays, LockIsHeldStays, DeathsAreLeftStays
    DEF Restore, bounds
  <1>. QED  BY <1>1, <1>2, <1>3, <1>4, <1>5, <1>6 DEF StorageInvariant, FilesAreThere

-------------------------------------------------------------------------------
(*****************************************************************************)
(* delete(): the file, then the row.                                         *)
(*****************************************************************************)
LEMMA DeletePermanentlyKeeps ==
  ASSUME StorageInvariant, NEW m \in Media, DeletePermanently(m)
  PROVE  StorageInvariant'
  <1>0. /\ TypeOK /\ WrittenHasFile /\ RowHasFile /\ IdsAreFresh /\ LockIsHeld
        /\ OrphansAreGone /\ DoomedAreUnreferenced /\ DeathsAreLeft
    BY DEF StorageInvariant, FilesAreThere
  <1>a. /\ removal' \in [Removers -> [of : SUBSET Media, rm : BOOLEAN]]
        /\ \A b \in Removers \ {"admin"} : removal'[b] = removal[b]
        /\ \A b \in Removers, k \in Media : Removing(b, k)' => Removing(b, k) \/ k = m
        /\ \A k \in Media : Between(k) => Between(k)'
    BY <1>0, RemovalBegins DEF DeletePermanently, Removers
  <1>1. TypeOK'
    BY <1>0, <1>a DEF TypeOK, DeletePermanently, database, bounds
  <1>2. RowHasFile'
    BY <1>0, <1>a DEF RowHasFile, Has, DeletePermanently, database
  <1>3. LockIsHeld'
    <2>1. removal'["cleanup"] = removal["cleanup"]
      BY <1>a DEF Removers
    <2>. QED  BY <1>0, <2>1 DEF LockIsHeld, activeWrites, DeletePermanently
  <1>4. DoomedAreUnreferenced'
    BY <1>0, <1>a
    DEF DoomedAreUnreferenced, Doomed, DeletePermanently, MayDelete, Unreferenced, Has,
        database
  <1>5. WrittenHasFile' /\ IdsAreFresh' /\ OrphansAreGone' /\ DeathsAreLeft'
    BY <1>0, WrittenHasFileStays, IdsAreFreshStays, OrphansAreGoneStays,
       DeathsAreLeftStays
    DEF DeletePermanently, database, bounds
  <1>. QED  BY <1>1, <1>2, <1>3, <1>4, <1>5 DEF StorageInvariant, FilesAreThere

LEMMA RemoveFileKeeps ==
  ASSUME StorageInvariant, NEW a \in Removers, NEW m \in Media, RemoveFile(a, m)
  PROVE  StorageInvariant'
  <1>0. /\ TypeOK /\ WrittenHasFile /\ RowHasFile /\ IdsAreFresh /\ LockIsHeld
        /\ OrphansAreGone /\ DoomedAreUnreferenced /\ DeathsAreLeft
    BY DEF StorageInvariant, FilesAreThere
  <1>a. /\ removal' \in [Removers -> [of : SUBSET Media, rm : BOOLEAN]]
        /\ \A b \in Removers : (removal'[b] = NoRemoval) <=> (removal[b] = NoRemoval)
        /\ \A b \in Removers, k \in Media : Removing(b, k)' <=> Removing(b, k)
        /\ Between(m)' /\ \A k \in Media : Between(k) => Between(k)'
    BY <1>0, RemovalGoesOn
  <1>b. row[m] # "none" /\ save[m] = "idle"
    BY <1>0 DEF RemoveFile, DoomedAreUnreferenced, Doomed, IdsAreFresh
  <1>1. TypeOK'
    BY <1>0, <1>a DEF TypeOK, RemoveFile, database, bounds
  <1>2. WrittenHasFile'
    BY <1>0, <1>b DEF WrittenHasFile, RemoveFile
  <1>3. RowHasFile'
    BY <1>0, <1>a DEF RowHasFile, Has, RemoveFile, database
  <1>4. IdsAreFresh'
    BY <1>0 DEF IdsAreFresh, RemoveFile, database
  <1>5. LockIsHeld'
    <2>1. removal'["cleanup"] # NoRemoval => removal["cleanup"] # NoRemoval
      BY <1>a DEF Removers
    <2>. QED  BY <1>0, <2>1 DEF LockIsHeld, activeWrites, RemoveFile
  <1>6. OrphansAreGone'
    BY <1>0 DEF OrphansAreGone, RemoveFile, database
  <1>7. DoomedAreUnreferenced'
    BY <1>0, <1>a DEF DoomedAreUnreferenced, Doomed, RemoveFile, database
  <1>8. DeathsAreLeft'
    BY <1>0, DeathsAreLeftStays DEF RemoveFile, bounds
  <1>. QED
    BY <1>1, <1>2, <1>3, <1>4, <1>5, <1>6, <1>7, <1>8
    DEF StorageInvariant, FilesAreThere

LEMMA RemoveRowKeeps ==
  ASSUME StorageInvariant, NEW a \in Removers, NEW m \in Media, RemoveRow(a, m)
  PROVE  StorageInvariant'
  <1>0. /\ TypeOK /\ WrittenHasFile /\ RowHasFile /\ IdsAreFresh /\ LockIsHeld
        /\ OrphansAreGone /\ DoomedAreUnreferenced /\ DeathsAreLeft
    BY DEF StorageInvariant, FilesAreThere
  <1>a. /\ removal' \in [Removers -> [of : SUBSET Media, rm : BOOLEAN]]
        /\ removal'[a] = NoRemoval /\ \A b \in Removers \ {a} : removal'[b] = removal[b]
        /\ \A b \in Removers, k \in Media : Removing(b, k)' => Removing(b, k)
        /\ \A k \in Media : k # m /\ Between(k) => Between(k)'
    BY <1>0, RemovalEnds DEF RemoveRow
  <1>b. row'[m] = "gone" /\ \A k \in Media : k # m => row'[k] = row[k]
    BY <1>0 DEF RemoveRow, TypeOK
  <1>1. TypeOK'
    BY <1>0, Constants DEF TypeOK, RemoveRow, bounds, NoRemoval, Rows
  <1>2. RowHasFile'
    BY <1>0, <1>a, <1>b DEF RowHasFile, Has, RemoveRow
  <1>3. IdsAreFresh'
    BY <1>0, <1>b DEF IdsAreFresh, Has, RemoveRow
  <1>4. LockIsHeld'
    BY <1>0 DEF LockIsHeld, activeWrites, RemoveRow
  <1>5. OrphansAreGone'
    BY <1>0 DEF OrphansAreGone, RemoveRow
  <1>6. DoomedAreUnreferenced'
    BY <1>0 DEF TypeOK, DoomedAreUnreferenced, Doomed, Removing, NoRemoval, RemoveRow
  <1>7. WrittenHasFile' /\ DeathsAreLeft'
    BY <1>0, WrittenHasFileStays, DeathsAreLeftStays DEF RemoveRow, bounds
  <1>. QED
    BY <1>1, <1>2, <1>3, <1>4, <1>5, <1>6, <1>7 DEF StorageInvariant, FilesAreThere

LEMMA RemovalThrowsKeeps ==
  ASSUME StorageInvariant, NEW a \in Removers, NEW m \in Media, RemovalThrows(a, m)
  PROVE  StorageInvariant'
  <1>0. /\ TypeOK /\ WrittenHasFile /\ RowHasFile /\ IdsAreFresh /\ LockIsHeld
        /\ OrphansAreGone /\ DoomedAreUnreferenced /\ DeathsAreLeft
    BY DEF StorageInvariant, FilesAreThere
  <1>a. /\ removal' \in [Removers -> [of : SUBSET Media, rm : BOOLEAN]]
        /\ removal'[a] = NoRemoval /\ \A b \in Removers \ {a} : removal'[b] = removal[b]
        /\ \A b \in Removers, k \in Media : Removing(b, k)' => Removing(b, k)
        /\ \A k \in Media : k # m /\ Between(k) => Between(k)'
    BY <1>0, RemovalEnds DEF RemovalThrows
  <1>1. TypeOK'
    BY <1>0, Constants
    DEF TypeOK, RemovalThrows, database, bounds, NoCleanup, NoJob, NoRemoval, NoReport,
        Reports
  <1>2. RowHasFile'
    BY <1>0, <1>a DEF RowHasFile, Has, RemovalThrows, database
  <1>3. LockIsHeld'
    BY <1>0 DEF TypeOK, LockIsHeld, activeWrites, NoCleanup, RemovalThrows
  <1>4. OrphansAreGone'
    BY <1>0 DEF OrphansAreGone, NoCleanup, NoReport, RemovalThrows, database
  <1>5. DoomedAreUnreferenced'
    BY <1>0
    DEF DoomedAreUnreferenced, Doomed, Removing, NoRemoval, NoJob, RemovalThrows,
        database
  <1>6. WrittenHasFile' /\ IdsAreFresh' /\ DeathsAreLeft'
    BY <1>0, WrittenHasFileStays, IdsAreFreshStays, DeathsAreLeftStays
    DEF RemovalThrows, database, bounds
  <1>. QED  BY <1>1, <1>2, <1>3, <1>4, <1>5, <1>6 DEF StorageInvariant, FilesAreThere

-------------------------------------------------------------------------------
(*****************************************************************************)
(* The maintenance job.                                                      *)
(*****************************************************************************)
LEMMA BeginMaintenanceKeeps ==
  ASSUME StorageInvariant, BeginMaintenance
  PROVE  StorageInvariant'
  <1>0. /\ TypeOK /\ WrittenHasFile /\ RowHasFile /\ IdsAreFresh /\ LockIsHeld
        /\ OrphansAreGone /\ DoomedAreUnreferenced /\ DeathsAreLeft
    BY DEF StorageInvariant, FilesAreThere
  <1>1. TypeOK'
    BY <1>0, Constants DEF TypeOK, BeginMaintenance, database, bounds
  <1>2. DoomedAreUnreferenced'
    BY <1>0
    DEF DoomedAreUnreferenced, Doomed, Removing, BeginMaintenance, Unreferenced,
        database
  <1>3. /\ WrittenHasFile' /\ RowHasFile' /\ IdsAreFresh' /\ LockIsHeld'
        /\ OrphansAreGone' /\ DeathsAreLeft'
    BY <1>0, WrittenHasFileStays, RowHasFileStays, IdsAreFreshStays, LockIsHeldStays,
       OrphansAreGoneStays, DeathsAreLeftStays
    DEF BeginMaintenance, database, bounds
  <1>. QED  BY <1>1, <1>2, <1>3 DEF StorageInvariant, FilesAreThere

LEMMA CollectOrphanKeeps ==
  ASSUME StorageInvariant, NEW m \in Media, CollectOrphan(m)
  PROVE  StorageInvariant'
  <1>0. /\ TypeOK /\ WrittenHasFile /\ RowHasFile /\ IdsAreFresh /\ LockIsHeld
        /\ OrphansAreGone /\ DoomedAreUnreferenced /\ DeathsAreLeft
    BY DEF StorageInvariant, FilesAreThere
  <1>a. /\ removal' \in [Removers -> [of : SUBSET Media, rm : BOOLEAN]]
        /\ \A b \in Removers \ {"collect"} : removal'[b] = removal[b]
        /\ \A b \in Removers, k \in Media : Removing(b, k)' => Removing(b, k) \/ k = m
        /\ \A k \in Media : Between(k) => Between(k)'
    BY <1>0, RemovalBegins DEF CollectOrphan, Removers
  <1>1. TypeOK'
    BY <1>0, <1>a DEF TypeOK, CollectOrphan, database, bounds
  <1>2. RowHasFile'
    BY <1>0, <1>a DEF RowHasFile, Has, CollectOrphan, database
  <1>3. LockIsHeld'
    <2>1. removal'["cleanup"] = removal["cleanup"]
      BY <1>a DEF Removers
    <2>. QED  BY <1>0, <2>1 DEF LockIsHeld, activeWrites, CollectOrphan
  <1>4. DoomedAreUnreferenced'
    BY <1>0, <1>a DEF DoomedAreUnreferenced, Doomed, CollectOrphan, database
  <1>5. WrittenHasFile' /\ IdsAreFresh' /\ OrphansAreGone' /\ DeathsAreLeft'
    BY <1>0, WrittenHasFileStays, IdsAreFreshStays, OrphansAreGoneStays,
       DeathsAreLeftStays
    DEF CollectOrphan, database, bounds
  <1>. QED  BY <1>1, <1>2, <1>3, <1>4, <1>5 DEF StorageInvariant, FilesAreThere

LEMMA CollectedKeeps ==
  ASSUME StorageInvariant, Collected
  PROVE  StorageInvariant'
  <1>0. /\ TypeOK /\ WrittenHasFile /\ RowHasFile /\ IdsAreFresh /\ LockIsHeld
        /\ OrphansAreGone /\ DoomedAreUnreferenced /\ DeathsAreLeft
    BY DEF StorageInvariant, FilesAreThere
  <1>1. TypeOK'
    BY <1>0, Constants DEF TypeOK, Collected, database, bounds
  <1>2. DoomedAreUnreferenced'
    BY <1>0 DEF DoomedAreUnreferenced, Doomed, Removing, Collected, database
  <1>3. /\ WrittenHasFile' /\ RowHasFile' /\ IdsAreFresh' /\ LockIsHeld'
        /\ OrphansAreGone' /\ DeathsAreLeft'
    BY <1>0, WrittenHasFileStays, RowHasFileStays, IdsAreFreshStays, LockIsHeldStays,
       OrphansAreGoneStays, DeathsAreLeftStays
    DEF Collected, database, bounds
  <1>. QED  BY <1>1, <1>2, <1>3 DEF StorageInvariant, FilesAreThere

-------------------------------------------------------------------------------
(*****************************************************************************)
(* cleanup().                                                                *)
(*****************************************************************************)
LEMMA BeginPreviewKeeps ==
  ASSUME StorageInvariant, BeginPreview
  PROVE  StorageInvariant'
  <1>0. /\ TypeOK /\ WrittenHasFile /\ RowHasFile /\ IdsAreFresh /\ LockIsHeld
        /\ OrphansAreGone /\ DoomedAreUnreferenced /\ DeathsAreLeft
    BY DEF StorageInvariant, FilesAreThere
  <1>a. /\ cleanup' \in Cleanups /\ cleanup'.phase = "reporting"
        /\ cleanup'.known = {m \in file : Has(m)}
        /\ cleanup'.report.orphans = {} /\ lock' = "cleanup"
    BY <1>0, CleanupBegins DEF BeginPreview
  <1>b. cleanup' # NoCleanup /\ activeWrites = {}
    BY <1>a, NothingToDo DEF BeginPreview, MayClean
  <1>1. TypeOK'
    BY <1>0, <1>a, Constants DEF TypeOK, Cleanups, BeginPreview, database
  <1>2. LockIsHeld'
    BY <1>0, <1>a, <1>b DEF LockIsHeld, activeWrites, MayClean, BeginPreview
  <1>3. OrphansAreGone'
    BY <1>0, <1>a, <1>b
    DEF OrphansAreGone, IdsAreFresh, activeWrites, Has, Rows, TypeOK, BeginPreview,
        database
  <1>4. /\ WrittenHasFile' /\ RowHasFile' /\ IdsAreFresh' /\ DoomedAreUnreferenced'
        /\ DeathsAreLeft'
    BY <1>0, WrittenHasFileStays, RowHasFileStays, IdsAreFreshStays,
       DoomedAreUnreferencedStays, DeathsAreLeftStays
    DEF BeginPreview, database
  <1>. QED  BY <1>1, <1>2, <1>3, <1>4 DEF StorageInvariant, FilesAreThere

LEMMA BeginInternalKeeps ==
  ASSUME StorageInvariant, BeginInternal
  PROVE  StorageInvariant'
  <1>0. /\ TypeOK /\ WrittenHasFile /\ RowHasFile /\ IdsAreFresh /\ LockIsHeld
        /\ OrphansAreGone /\ DoomedAreUnreferenced /\ DeathsAreLeft
    BY DEF StorageInvariant, FilesAreThere
  <1>a. /\ cleanup' \in Cleanups /\ cleanup'.phase = "reporting"
        /\ cleanup'.known = {m \in file : Has(m)}
        /\ cleanup'.report.orphans = {} /\ lock' = "cleanup"
    BY <1>0, CleanupBegins DEF BeginInternal
  <1>b. cleanup' # NoCleanup /\ activeWrites = {}
    BY <1>a, NothingToDo DEF BeginInternal, MayClean
  <1>1. TypeOK'
    BY <1>0, <1>a, Constants DEF TypeOK, Cleanups, BeginInternal, database, bounds
  <1>2. LockIsHeld'
    BY <1>0, <1>a, <1>b DEF LockIsHeld, activeWrites, MayClean, BeginInternal
  <1>3. OrphansAreGone'
    BY <1>0, <1>a, <1>b
    DEF OrphansAreGone, IdsAreFresh, activeWrites, Has, Rows, TypeOK, BeginInternal,
        database
  <1>4. /\ WrittenHasFile' /\ RowHasFile' /\ IdsAreFresh' /\ DoomedAreUnreferenced'
        /\ DeathsAreLeft'
    BY <1>0, WrittenHasFileStays, RowHasFileStays, IdsAreFreshStays,
       DoomedAreUnreferencedStays, DeathsAreLeftStays
    DEF BeginInternal, database, bounds
  <1>. QED  BY <1>1, <1>2, <1>3, <1>4 DEF StorageInvariant, FilesAreThere

LEMMA BeginConfirmedKeeps ==
  ASSUME StorageInvariant, BeginConfirmed
  PROVE  StorageInvariant'
  <1>0. /\ TypeOK /\ WrittenHasFile /\ RowHasFile /\ IdsAreFresh /\ LockIsHeld
        /\ OrphansAreGone /\ DoomedAreUnreferenced /\ DeathsAreLeft
    BY DEF StorageInvariant, FilesAreThere
  <1>a. /\ cleanup' \in Cleanups /\ cleanup'.phase = "applying" /\ cleanup'.report = stored
        /\ cleanup' # NoCleanup
    BY <1>0, NothingToDo DEF BeginConfirmed, TypeOK, Cleanups
  <1>1. TypeOK'
    BY <1>0, <1>a, Constants DEF TypeOK, Cleanups, BeginConfirmed, database
  <1>2. LockIsHeld'
    BY <1>0, <1>a DEF LockIsHeld, activeWrites, BeginConfirmed, MayClean
  <1>3. OrphansAreGone'
    BY <1>0, <1>a DEF OrphansAreGone, BeginConfirmed, database
  <1>4. /\ WrittenHasFile' /\ RowHasFile' /\ IdsAreFresh' /\ DoomedAreUnreferenced'
        /\ DeathsAreLeft'
    BY <1>0, WrittenHasFileStays, RowHasFileStays, IdsAreFreshStays,
       DoomedAreUnreferencedStays, DeathsAreLeftStays
    DEF BeginConfirmed, database
  <1>. QED  BY <1>1, <1>2, <1>3, <1>4 DEF StorageInvariant, FilesAreThere

LEMMA InternalRefusedKeeps ==
  ASSUME StorageInvariant, InternalRefused
  PROVE  StorageInvariant'
  <1>0. /\ TypeOK /\ WrittenHasFile /\ RowHasFile /\ IdsAreFresh /\ LockIsHeld
        /\ OrphansAreGone /\ DoomedAreUnreferenced /\ DeathsAreLeft
    BY DEF StorageInvariant, FilesAreThere
  <1>1. TypeOK'
    BY <1>0, Constants DEF TypeOK, InternalRefused, database, bounds, NoJob
  <1>2. DoomedAreUnreferenced'
    BY <1>0
    DEF DoomedAreUnreferenced, Doomed, Removing, NoJob, InternalRefused, database
  <1>3. /\ WrittenHasFile' /\ RowHasFile' /\ IdsAreFresh' /\ LockIsHeld'
        /\ OrphansAreGone' /\ DeathsAreLeft'
    BY <1>0, WrittenHasFileStays, RowHasFileStays, IdsAreFreshStays, LockIsHeldStays,
       OrphansAreGoneStays, DeathsAreLeftStays
    DEF InternalRefused, database, bounds
  <1>. QED  BY <1>1, <1>2, <1>3 DEF StorageInvariant, FilesAreThere

LEMMA ReportedKeeps ==
  ASSUME StorageInvariant, Reported
  PROVE  StorageInvariant'
  <1>0. /\ TypeOK /\ WrittenHasFile /\ RowHasFile /\ IdsAreFresh /\ LockIsHeld
        /\ OrphansAreGone /\ DoomedAreUnreferenced /\ DeathsAreLeft
    BY DEF StorageInvariant, FilesAreThere
  <1>. DEFINE report == [cleanup.report EXCEPT !.orphans = Orphans]
  <1>a. /\ report \in Reports /\ report.orphans = Orphans
        /\ \A m \in Orphans : row[m] = "gone"
    BY <1>0 DEF TypeOK, Reports, Orphans, OrphansAreGone, Reported
  <1>b. \/ /\ cleanup' = [cleanup EXCEPT !.phase = "applying", !.report = report]
           /\ UNCHANGED <<stored, lock>>
        \/ stored' = report /\ cleanup' = NoCleanup /\ lock' = "free"
    BY DEF Reported
  <1>c. cleanup # NoCleanup /\ lock = "cleanup"
    BY <1>0, NothingToDo DEF Reported, LockIsHeld
  <1>. HIDE DEF report
  <1>d. \/ /\ cleanup' \in Cleanups /\ cleanup' # NoCleanup
           /\ cleanup'.phase = "applying" /\ cleanup'.report = report
           /\ UNCHANGED <<stored, lock>>
        \/ stored' = report /\ cleanup' = NoCleanup /\ lock' = "free"
    BY <1>0, <1>a, <1>b, NothingToDo DEF TypeOK, Cleanups
  <1>1. TypeOK'
    BY <1>0, <1>a, <1>d, NothingToDo DEF TypeOK, Cleanups, Reported, bounds
  <1>2. LockIsHeld'
    <2>1. removal["cleanup"] # NoRemoval => cleanup'.phase = "applying"
      BY <1>0, <1>c DEF Reported, LockIsHeld
    <2>. QED  BY <1>0, <1>c, <1>d, NothingToDo DEF LockIsHeld, activeWrites, Reported
  <1>3. OrphansAreGone'
    BY <1>0, <1>a, <1>d, NothingToDo DEF OrphansAreGone, Reported
  <1>4. /\ WrittenHasFile' /\ RowHasFile' /\ IdsAreFresh' /\ DoomedAreUnreferenced'
        /\ DeathsAreLeft'
    BY <1>0, WrittenHasFileStays, RowHasFileStays, IdsAreFreshStays,
       DoomedAreUnreferencedStays, DeathsAreLeftStays
    DEF Reported, bounds
  <1>. QED  BY <1>1, <1>2, <1>3, <1>4 DEF StorageInvariant, FilesAreThere

LEMMA CleanTrashKeeps ==
  ASSUME StorageInvariant, NEW m \in Media, CleanTrash(m)
  PROVE  StorageInvariant'
  <1>0. /\ TypeOK /\ WrittenHasFile /\ RowHasFile /\ IdsAreFresh /\ LockIsHeld
        /\ OrphansAreGone /\ DoomedAreUnreferenced /\ DeathsAreLeft
    BY DEF StorageInvariant, FilesAreThere
  <1>a. /\ cleanup' \in Cleanups /\ cleanup'.phase = cleanup.phase
        /\ cleanup'.report.orphans \subseteq cleanup.report.orphans
    BY <1>0, ReportShrinks DEF CleanTrash
  <1>b. /\ removal' \in [Removers -> [of : SUBSET Media, rm : BOOLEAN]]
        /\ \A b \in Removers, k \in Media :
             Removing(b, k)' => Removing(b, k) \/ (k = m /\ StillTrash(m))
        /\ \A k \in Media : Between(k) => Between(k)'
    <2>1. CASE StillTrash(m)
      BY <1>0, <2>1, RemovalBegins DEF CleanTrash, Applying, Removers
    <2>2. CASE ~StillTrash(m)
      <3>1. UNCHANGED removal
        BY <2>2 DEF CleanTrash
      <3>. QED  BY <1>0, <3>1, BetweenStays DEF TypeOK, Removing
    <2>. QED  BY <2>1, <2>2
  <1>c. cleanup # NoCleanup /\ cleanup' # NoCleanup
    BY <1>a, NothingToDo DEF CleanTrash, Applying
  <1>1. TypeOK'
    BY <1>0, <1>a, <1>b DEF TypeOK, Cleanups, CleanTrash, database, bounds
  <1>2. RowHasFile'
    BY <1>0, <1>b DEF RowHasFile, Has, CleanTrash, database
  <1>3. LockIsHeld'
    BY <1>0, <1>a, <1>c DEF LockIsHeld, activeWrites, CleanTrash, Applying
  <1>4. OrphansAreGone'
    BY <1>0, <1>a DEF OrphansAreGone, CleanTrash, database
  <1>5. DoomedAreUnreferenced'
    BY <1>0, <1>b
    DEF DoomedAreUnreferenced, Doomed, StillTrash, Unreferenced, CleanTrash, database
  <1>6. WrittenHasFile' /\ IdsAreFresh' /\ DeathsAreLeft'
    BY <1>0, WrittenHasFileStays, IdsAreFreshStays, DeathsAreLeftStays
    DEF CleanTrash, database, bounds
  <1>. QED  BY <1>1, <1>2, <1>3, <1>4, <1>5, <1>6 DEF StorageInvariant, FilesAreThere

LEMMA CleanOrphanKeeps ==
  ASSUME StorageInvariant, NEW m \in Media, CleanOrphan(m)
  PROVE  StorageInvariant'
  <1>0. /\ TypeOK /\ WrittenHasFile /\ RowHasFile /\ IdsAreFresh /\ LockIsHeld
        /\ OrphansAreGone /\ DoomedAreUnreferenced /\ DeathsAreLeft
    BY DEF StorageInvariant, FilesAreThere
  <1>a. /\ cleanup' \in Cleanups /\ cleanup'.phase = cleanup.phase
        /\ cleanup'.report.orphans \subseteq cleanup.report.orphans
    BY <1>0, ReportShrinks DEF CleanOrphan
  <1>b. cleanup # NoCleanup /\ cleanup' # NoCleanup
    BY <1>a, NothingToDo DEF CleanOrphan, Applying
  <1>c. row[m] = "gone" /\ save[m] = "idle"
    BY <1>0 DEF CleanOrphan, OrphansAreGone, IdsAreFresh
  <1>1. TypeOK'
    BY <1>0, <1>a DEF TypeOK, Cleanups, CleanOrphan, database, bounds
  <1>2. WrittenHasFile'
    BY <1>0, <1>c DEF WrittenHasFile, CleanOrphan
  <1>3. RowHasFile'
    BY <1>0, <1>c, BetweenStays DEF RowHasFile, Has, CleanOrphan, database
  <1>4. IdsAreFresh'
    BY <1>0 DEF IdsAreFresh, CleanOrphan, database
  <1>5. LockIsHeld'
    BY <1>0, <1>a, <1>b DEF LockIsHeld, activeWrites, CleanOrphan
  <1>6. OrphansAreGone'
    BY <1>0, <1>a DEF OrphansAreGone, CleanOrphan, database
  <1>7. DoomedAreUnreferenced' /\ DeathsAreLeft'
    BY <1>0, DoomedAreUnreferencedStays, DeathsAreLeftStays
    DEF CleanOrphan, database, bounds
  <1>. QED
    BY <1>1, <1>2, <1>3, <1>4, <1>5, <1>6, <1>7 DEF StorageInvariant, FilesAreThere

LEMMA CleanMissingKeeps ==
  ASSUME StorageInvariant, NEW m \in Media, CleanMissing(m)
  PROVE  StorageInvariant'
  <1>0. /\ TypeOK /\ WrittenHasFile /\ RowHasFile /\ IdsAreFresh /\ LockIsHeld
        /\ OrphansAreGone /\ DoomedAreUnreferenced /\ DeathsAreLeft
    BY DEF StorageInvariant, FilesAreThere
  <1>a. /\ cleanup' \in Cleanups /\ cleanup'.phase = cleanup.phase
        /\ cleanup'.report.orphans \subseteq cleanup.report.orphans
    BY <1>0, ReportShrinks DEF CleanMissing
  <1>b. cleanup # NoCleanup /\ cleanup' # NoCleanup
    BY <1>a, NothingToDo DEF CleanMissing, Applying
  <1>c. \A k \in Media :
          row'[k] = row[k] \/ (row[k] \in {"live", "trash"} /\ row'[k] = "gone")
    BY <1>0 DEF CleanMissing, Has, TypeOK
  <1>1. TypeOK'
    BY <1>0, Constants DEF TypeOK, CleanMissing, bounds, Reports, Rows
  <1>2. RowHasFile'
    BY <1>0, BetweenStays DEF TypeOK, RowHasFile, Has, CleanMissing
  <1>3. IdsAreFresh'
    BY <1>0, <1>c DEF IdsAreFresh, CleanMissing
  <1>4. LockIsHeld'
    BY <1>0, <1>a, <1>b DEF LockIsHeld, activeWrites, CleanMissing
  <1>5. OrphansAreGone'
    BY <1>0, <1>a, <1>c DEF OrphansAreGone, CleanMissing, TypeOK, Reports
  <1>6. DoomedAreUnreferenced'
    BY <1>0 DEF TypeOK, DoomedAreUnreferenced, Doomed, Removing, CleanMissing
  <1>7. WrittenHasFile' /\ DeathsAreLeft'
    BY <1>0, WrittenHasFileStays, DeathsAreLeftStays DEF CleanMissing, bounds
  <1>. QED
    BY <1>1, <1>2, <1>3, <1>4, <1>5, <1>6, <1>7 DEF StorageInvariant, FilesAreThere

LEMMA CleanedKeeps ==
  ASSUME StorageInvariant, Cleaned
  PROVE  StorageInvariant'
  <1>0. /\ TypeOK /\ WrittenHasFile /\ RowHasFile /\ IdsAreFresh /\ LockIsHeld
        /\ OrphansAreGone /\ DoomedAreUnreferenced /\ DeathsAreLeft
    BY DEF StorageInvariant, FilesAreThere
  <1>1. TypeOK'
    BY <1>0, Constants DEF TypeOK, Cleaned, Unlock, database, bounds, NoCleanup, NoJob
  <1>2. LockIsHeld'
    BY <1>0 DEF LockIsHeld, NoCleanup, Cleaned, Applying, Unlock
  <1>3. OrphansAreGone'
    BY <1>0 DEF OrphansAreGone, NoCleanup, Cleaned, database
  <1>4. DoomedAreUnreferenced'
    BY <1>0 DEF DoomedAreUnreferenced, Doomed, Removing, NoJob, Cleaned, database
  <1>5. WrittenHasFile' /\ RowHasFile' /\ IdsAreFresh' /\ DeathsAreLeft'
    BY <1>0, WrittenHasFileStays, RowHasFileStays, IdsAreFreshStays, DeathsAreLeftStays
    DEF Cleaned, database, bounds
  <1>. QED  BY <1>1, <1>2, <1>3, <1>4, <1>5 DEF StorageInvariant, FilesAreThere

-------------------------------------------------------------------------------
(*****************************************************************************)
(* Backup and restore, crash and boot.                                       *)
(*****************************************************************************)
LEMMA BeginBackupKeeps ==
  ASSUME StorageInvariant, BeginBackup
  PROVE  StorageInvariant'
  <1>0. /\ TypeOK /\ WrittenHasFile /\ RowHasFile /\ IdsAreFresh /\ LockIsHeld
        /\ OrphansAreGone /\ DoomedAreUnreferenced /\ DeathsAreLeft
    BY DEF StorageInvariant, FilesAreThere
  <1>1. TypeOK'
    BY <1>0, Constants DEF TypeOK, BeginBackup, database
  <1>2. LockIsHeld'
    BY <1>0 DEF LockIsHeld, BeginBackup
  <1>3. /\ WrittenHasFile' /\ RowHasFile' /\ IdsAreFresh' /\ OrphansAreGone'
        /\ DoomedAreUnreferenced' /\ DeathsAreLeft'
    BY <1>0, WrittenHasFileStays, RowHasFileStays, IdsAreFreshStays,
       OrphansAreGoneStays, DoomedAreUnreferencedStays, DeathsAreLeftStays
    DEF BeginBackup, database
  <1>. QED  BY <1>1, <1>2, <1>3 DEF StorageInvariant, FilesAreThere

LEMMA BackupDoneKeeps ==
  ASSUME StorageInvariant, BackupDone
  PROVE  StorageInvariant'
  <1>0. /\ TypeOK /\ WrittenHasFile /\ RowHasFile /\ IdsAreFresh /\ LockIsHeld
        /\ OrphansAreGone /\ DoomedAreUnreferenced /\ DeathsAreLeft
    BY DEF StorageInvariant, FilesAreThere
  <1>1. TypeOK'
    BY <1>0, Constants DEF TypeOK, BackupDone, bounds
  <1>2. IdsAreFresh'
    BY <1>0 DEF IdsAreFresh, BackupDone
  <1>3. LockIsHeld'
    BY <1>0 DEF LockIsHeld, BackupDone
  <1>4. OrphansAreGone'
    BY <1>0 DEF OrphansAreGone, BackupDone
  <1>5. WrittenHasFile' /\ RowHasFile' /\ DoomedAreUnreferenced' /\ DeathsAreLeft'
    BY <1>0, WrittenHasFileStays, RowHasFileStays, DoomedAreUnreferencedStays,
       DeathsAreLeftStays
    DEF BackupDone, bounds
  <1>. QED  BY <1>1, <1>2, <1>3, <1>4, <1>5 DEF StorageInvariant, FilesAreThere

LEMMA BeginRestoreKeeps ==
  ASSUME StorageInvariant, BeginRestore
  PROVE  StorageInvariant'
  <1>0. /\ TypeOK /\ WrittenHasFile /\ RowHasFile /\ IdsAreFresh /\ LockIsHeld
        /\ OrphansAreGone /\ DoomedAreUnreferenced /\ DeathsAreLeft
    BY DEF StorageInvariant, FilesAreThere
  <1>1. TypeOK'
    BY <1>0, Constants DEF TypeOK, BeginRestore, database
  <1>2. LockIsHeld'
    BY <1>0 DEF LockIsHeld, BeginRestore
  <1>3. /\ WrittenHasFile' /\ RowHasFile' /\ IdsAreFresh' /\ OrphansAreGone'
        /\ DoomedAreUnreferenced' /\ DeathsAreLeft'
    BY <1>0, WrittenHasFileStays, RowHasFileStays, IdsAreFreshStays,
       OrphansAreGoneStays, DoomedAreUnreferencedStays, DeathsAreLeftStays
    DEF BeginRestore, database
  <1>. QED  BY <1>1, <1>2, <1>3 DEF StorageInvariant, FilesAreThere

LEMMA CloseForRestoreKeeps ==
  ASSUME StorageInvariant, CloseForRestore
  PROVE  StorageInvariant'
  <1>0. /\ TypeOK /\ WrittenHasFile /\ RowHasFile /\ IdsAreFresh /\ LockIsHeld
        /\ OrphansAreGone /\ DoomedAreUnreferenced /\ DeathsAreLeft
    BY DEF StorageInvariant, FilesAreThere
  <1>1. TypeOK'
    BY <1>0, Constants DEF TypeOK, CloseForRestore, bounds
  <1>2. RowHasFile'
    BY <1>0, BetweenStays DEF RowHasFile, Has, CloseForRestore
  <1>3. /\ WrittenHasFile' /\ IdsAreFresh' /\ LockIsHeld' /\ OrphansAreGone'
        /\ DoomedAreUnreferenced' /\ DeathsAreLeft'
    BY <1>0, WrittenHasFileStays, IdsAreFreshStays, LockIsHeldStays,
       OrphansAreGoneStays, DoomedAreUnreferencedStays, DeathsAreLeftStays
    DEF CloseForRestore, bounds
  <1>. QED  BY <1>1, <1>2, <1>3 DEF StorageInvariant, FilesAreThere

LEMMA ReopenAfterRestoreKeeps ==
  ASSUME StorageInvariant, ReopenAfterRestore
  PROVE  StorageInvariant'
  <1>0. /\ TypeOK /\ WrittenHasFile /\ RowHasFile /\ IdsAreFresh /\ LockIsHeld
        /\ OrphansAreGone /\ DoomedAreUnreferenced /\ DeathsAreLeft
    BY DEF StorageInvariant, FilesAreThere
  <1>1. TypeOK'
    BY <1>0, Constants DEF TypeOK, ReopenAfterRestore, RestoredRow, WithoutFile, bounds, Rows
  <1>2. RowHasFile'
    BY <1>0, BetweenStays DEF RowHasFile, Has, WithoutFile, ReopenAfterRestore
  <1>3. IdsAreFresh'
    BY <1>0 DEF IdsAreFresh, ReopenAfterRestore, RestoredRow
  <1>4. LockIsHeld'
    BY <1>0 DEF LockIsHeld, ReopenAfterRestore
  <1>5. OrphansAreGone'
    <2>1. cleanup' = NoCleanup
      BY <1>0 DEF ReopenAfterRestore, LockIsHeld
    <2>2. \A m \in backup.stored.orphans : row'[m] = "gone"
      BY <1>0 DEF ReopenAfterRestore, RestoredRow, OrphansAreGone, TypeOK, Reports
    <2>. QED  BY <1>0, <2>1, <2>2, NothingToDo DEF OrphansAreGone, ReopenAfterRestore
  <1>6. DoomedAreUnreferenced'
    BY <1>0 DEF DoomedAreUnreferenced, Doomed, Removing, ReopenAfterRestore, RestoredRow
  <1>7. WrittenHasFile' /\ DeathsAreLeft'
    BY <1>0, WrittenHasFileStays, DeathsAreLeftStays DEF ReopenAfterRestore, bounds
  <1>. QED
    BY <1>1, <1>2, <1>3, <1>4, <1>5, <1>6, <1>7 DEF StorageInvariant, FilesAreThere

LEMMA ReopenAsItWasKeeps ==
  ASSUME StorageInvariant, ReopenAsItWas
  PROVE  StorageInvariant'
  <1>0. /\ TypeOK /\ WrittenHasFile /\ RowHasFile /\ IdsAreFresh /\ LockIsHeld
        /\ OrphansAreGone /\ DoomedAreUnreferenced /\ DeathsAreLeft
    BY DEF StorageInvariant, FilesAreThere
  <1>1. TypeOK'
    BY <1>0, Constants DEF TypeOK, ReopenAsItWas, bounds
  <1>2. LockIsHeld'
    BY <1>0 DEF LockIsHeld, ReopenAsItWas
  <1>3. /\ WrittenHasFile' /\ RowHasFile' /\ IdsAreFresh' /\ OrphansAreGone'
        /\ DoomedAreUnreferenced' /\ DeathsAreLeft'
    BY <1>0, WrittenHasFileStays, RowHasFileStays, IdsAreFreshStays, OrphansAreGoneStays,
       DoomedAreUnreferencedStays, DeathsAreLeftStays
    DEF ReopenAsItWas, bounds
  <1>. QED  BY <1>1, <1>2, <1>3 DEF StorageInvariant, FilesAreThere

LEMMA RefuseRestoreKeeps ==
  ASSUME StorageInvariant, RefuseRestore
  PROVE  StorageInvariant'
  <1>0. /\ TypeOK /\ WrittenHasFile /\ RowHasFile /\ IdsAreFresh /\ LockIsHeld
        /\ OrphansAreGone /\ DoomedAreUnreferenced /\ DeathsAreLeft
    BY DEF StorageInvariant, FilesAreThere
  <1>1. TypeOK'
    BY <1>0, Constants DEF TypeOK, RefuseRestore, database, bounds
  <1>2. LockIsHeld'
    BY <1>0 DEF LockIsHeld, RefuseRestore
  <1>3. /\ WrittenHasFile' /\ RowHasFile' /\ IdsAreFresh' /\ OrphansAreGone'
        /\ DoomedAreUnreferenced' /\ DeathsAreLeft'
    BY <1>0, WrittenHasFileStays, RowHasFileStays, IdsAreFreshStays, OrphansAreGoneStays,
       DoomedAreUnreferencedStays, DeathsAreLeftStays
    DEF RefuseRestore, database, bounds
  <1>. QED  BY <1>1, <1>2, <1>3 DEF StorageInvariant, FilesAreThere

LEMMA CrashKeeps ==
  ASSUME StorageInvariant, Crash
  PROVE  StorageInvariant'
  <1>0. /\ TypeOK /\ WrittenHasFile /\ RowHasFile /\ IdsAreFresh /\ LockIsHeld
        /\ OrphansAreGone /\ DoomedAreUnreferenced /\ DeathsAreLeft
    BY DEF StorageInvariant, FilesAreThere
  <1>1. TypeOK'
    BY <1>0, Constants
    DEF TypeOK, Crash, RestoredRow, WithoutFile, NoCleanup, NoJob, NoRemoval, NoReport,
        Reports, Rows
  <1>2. WrittenHasFile'
    BY <1>0 DEF WrittenHasFile, Crash
  <1>3. RowHasFile'
    BY <1>0 DEF RowHasFile, Has, WithoutFile, Crash
  <1>4. IdsAreFresh'
    BY <1>0 DEF IdsAreFresh, RestoredRow, Crash
  <1>5. LockIsHeld'
    BY <1>0 DEF LockIsHeld, NoCleanup, Removers, Crash
  <1>6. OrphansAreGone'
    <2>1. \A m \in stored'.orphans : row'[m] = "gone"
      BY <1>0 DEF TypeOK, Reports, OrphansAreGone, RestoredRow, Crash
    <2>2. cleanup' = NoCleanup /\ backup' = backup
      BY DEF Crash
    <2>. QED  BY <1>0, <2>1, <2>2, NothingToDo DEF OrphansAreGone
  <1>7. DoomedAreUnreferenced'
    BY DEF DoomedAreUnreferenced, Doomed, Removing, NoRemoval, NoJob, Crash
  <1>8. DeathsAreLeft'
    BY <1>0 DEF DeathsAreLeft, Crash
  <1>. QED
    BY <1>1, <1>2, <1>3, <1>4, <1>5, <1>6, <1>7, <1>8
    DEF StorageInvariant, FilesAreThere

LEMMA BootKeeps ==
  ASSUME StorageInvariant, Boot
  PROVE  StorageInvariant'
  <1>0. /\ TypeOK /\ WrittenHasFile /\ RowHasFile /\ IdsAreFresh /\ LockIsHeld
        /\ OrphansAreGone /\ DoomedAreUnreferenced /\ DeathsAreLeft
    BY DEF StorageInvariant, FilesAreThere
  <1>1. TypeOK'
    BY <1>0, Constants DEF TypeOK, Boot, database, DeathsAreLeft
  <1>2. DeathsAreLeft'
    BY <1>0 DEF DeathsAreLeft, Boot
  <1>3. /\ WrittenHasFile' /\ RowHasFile' /\ IdsAreFresh' /\ LockIsHeld'
        /\ OrphansAreGone' /\ DoomedAreUnreferenced'
    BY <1>0, WrittenHasFileStays, RowHasFileStays, IdsAreFreshStays, LockIsHeldStays,
       OrphansAreGoneStays, DoomedAreUnreferencedStays
    DEF Boot, database
  <1>. QED  BY <1>1, <1>2, <1>3 DEF StorageInvariant, FilesAreThere

-------------------------------------------------------------------------------
(*****************************************************************************)
(* The results.                                                              *)
(*****************************************************************************)
LEMMA InitKeeps == Init => StorageInvariant
  <1>. SUFFICES ASSUME Init PROVE StorageInvariant
    OBVIOUS
  <1>1. TypeOK
    BY Constants, NothingToDo
    DEF Init, TypeOK, Rows, Cleanups, Removers, NoRemoval, NoJob
  <1>2. WrittenHasFile /\ RowHasFile /\ IdsAreFresh /\ DeathsAreLeft
    BY DEF Init, WrittenHasFile, RowHasFile, IdsAreFresh, DeathsAreLeft, Has
  <1>3. LockIsHeld
    BY NothingToDo DEF Init, LockIsHeld, Removers
  <1>4. OrphansAreGone
    BY NothingToDo DEF Init, OrphansAreGone
  <1>5. DoomedAreUnreferenced
    BY DEF Init, DoomedAreUnreferenced, Doomed, Removing, NoRemoval, NoJob
  <1>. QED  BY <1>1, <1>2, <1>3, <1>4, <1>5 DEF StorageInvariant, FilesAreThere

LEMMA NextKeeps == StorageInvariant /\ [Next]_vars => StorageInvariant'
  <1>. SUFFICES ASSUME StorageInvariant, [Next]_vars PROVE StorageInvariant'
    OBVIOUS
  <1>1. ASSUME NEW m \in Media,
               \/ BeginSave(m) \/ RefuseSave(m) \/ WriteFile(m) \/ CreateRow(m)
               \/ CreateFails(m)
        PROVE  StorageInvariant'
    BY <1>1, BeginSaveKeeps, RefuseSaveKeeps, WriteFileKeeps, CreateRowKeeps,
       CreateFailsKeeps
  <1>2. ASSUME NEW m \in Media, Trash(m) \/ Restore(m) \/ DeletePermanently(m)
        PROVE  StorageInvariant'
    BY <1>2, TrashKeeps, RestoreKeeps, DeletePermanentlyKeeps
  <1>3. ASSUME NEW m \in Media, NEW k \in Kinds, Refer(m, k) \/ Release(m, k)
        PROVE  StorageInvariant'
    BY <1>3, ReferKeeps, ReleaseKeeps
  <1>4. ASSUME NEW m \in Media, NEW a \in Removers, Removals(a, m)
        PROVE  StorageInvariant'
    BY <1>4, RemoveFileKeeps, RemoveRowKeeps, RemovalThrowsKeeps DEF Removals
  <1>5. CASE Maintenance
    BY <1>5, BeginMaintenanceKeeps, CollectedKeeps, BeginInternalKeeps,
       InternalRefusedKeeps, CollectOrphanKeeps DEF Maintenance
  <1>6. CASE Cleaning
    BY <1>6, ReportedKeeps, CleanedKeeps, CleanTrashKeeps, CleanOrphanKeeps,
       CleanMissingKeeps DEF Cleaning
  <1>7. CASE Locked
    BY <1>7, BackupDoneKeeps, RefuseRestoreKeeps, CloseForRestoreKeeps,
       ReopenAfterRestoreKeeps, ReopenAsItWasKeeps DEF Locked
  <1>8. CASE BeginPreview \/ BeginConfirmed \/ BeginBackup \/ BeginRestore
    BY <1>8, BeginPreviewKeeps, BeginConfirmedKeeps, BeginBackupKeeps, BeginRestoreKeeps
  <1>9. CASE Crash \/ Boot
    BY <1>9, CrashKeeps, BootKeeps
  <1>10. CASE UNCHANGED vars
    <2>1. TypeOK' /\ WrittenHasFile' /\ RowHasFile' /\ IdsAreFresh'
      BY <1>10, WrittenHasFileStays, RowHasFileStays, IdsAreFreshStays
      DEF StorageInvariant, FilesAreThere, TypeOK, vars
    <2>2. LockIsHeld' /\ OrphansAreGone' /\ DoomedAreUnreferenced' /\ DeathsAreLeft'
      BY <1>10, LockIsHeldStays, OrphansAreGoneStays, DoomedAreUnreferencedStays,
         DeathsAreLeftStays
      DEF StorageInvariant, vars
    <2>. QED  BY <2>1, <2>2 DEF StorageInvariant, FilesAreThere
  <1>. QED
    BY <1>1, <1>2, <1>3, <1>4, <1>5, <1>6, <1>7, <1>8, <1>9, <1>10 DEF Next, Writers

\* The invariant holds, for any number of media, of previews and cleanups under
\* way, of backups and restores, and wherever a crash cuts one short.
THEOREM StorageInvariantHolds == Spec => []StorageInvariant
  BY InitKeeps, NextKeeps, PTL DEF Spec

\* No cleanup removes a file that is being saved, and no row loses its file but
\* to its own deletion: MaintenanceCoordinator's lock and the counter of writes
\* (activeWrites) are enough, although reports are old when they are applied.
THEOREM FilesStayThere == Spec => []FilesAreThere
  <1>1. StorageInvariant => FilesAreThere
    BY DEF StorageInvariant
  <1>. QED  BY <1>1, StorageInvariantHolds, PTL

LEMMA RowsAreGivenUp ==
  ASSUME StorageInvariant, [Next]_vars, NEW m \in Media, open, Has(m), row'[m] = "gone"
  PROVE  refs[m] \cap Counted \subseteq late[m]
  <1>0. TypeOK /\ IdsAreFresh /\ DoomedAreUnreferenced /\ row[m] \notin {"none", "gone"}
    BY DEF StorageInvariant, FilesAreThere, Has
  <1>1. ~UNCHANGED row
    BY <1>0
  <1>2. ASSUME NEW x \in Media, NEW a \in Removers, Removals(a, x)
        PROVE  Removing(a, m)
    BY <1>0, <1>1, <1>2
    DEF Removals, RemoveFile, RemoveRow, RemovalThrows, TypeOK, database
  <1>3. ASSUME Cleaning PROVE Unreferenced(m)
    <2>1. PICK x \in Media : CleanMissing(x)
      BY <1>1, <1>3
      DEF Cleaning, Reported, Cleaned, CleanTrash, CleanOrphan, database
    <2>. QED  BY <1>0, <2>1 DEF CleanMissing, TypeOK
  <1>4. ASSUME NEW x \in Media,
               \/ BeginSave(x) \/ RefuseSave(x) \/ WriteFile(x) \/ CreateRow(x)
               \/ CreateFails(x)
        PROVE  FALSE
    BY <1>0, <1>1, <1>4
    DEF BeginSave, RefuseSave, WriteFile, CreateRow, CreateFails, IdsAreFresh, TypeOK,
        database
  <1>5. ASSUME NEW x \in Media, Trash(x) \/ Restore(x) \/ DeletePermanently(x) PROVE FALSE
    BY <1>0, <1>1, <1>5 DEF Trash, Restore, DeletePermanently, TypeOK, database
  <1>6. ASSUME NEW x \in Media, NEW k \in Kinds, Refer(x, k) \/ Release(x, k) PROVE FALSE
    BY <1>1, <1>6 DEF Refer, Release
  <1>7. ~Maintenance
    BY <1>1
    DEF Maintenance, BeginMaintenance, Collected, BeginInternal, InternalRefused,
        CollectOrphan, database
  <1>8. ~Locked
    BY <1>1
    DEF Locked, BackupDone, RefuseRestore, CloseForRestore, ReopenAfterRestore,
        ReopenAsItWas, database
  <1>9. ~(BeginPreview \/ BeginConfirmed \/ BeginBackup \/ BeginRestore \/ Boot)
    BY <1>1 DEF BeginPreview, BeginConfirmed, BeginBackup, BeginRestore, Boot, database
  <1>10. ~Crash
    BY <1>0 DEF Crash, IdsAreFresh
  <1>11. (\E a \in Removers : Removing(a, m)) \/ Unreferenced(m)
    BY <1>1, <1>2, <1>3, <1>4, <1>5, <1>6, <1>7, <1>8, <1>9, <1>10
    DEF Next, Writers, vars
  <1>. QED  BY <1>0, <1>11 DEF DoomedAreUnreferenced, Doomed, Unreferenced

\* Whoever deletes a row has seen that nothing counted refers to it, and all that
\* refers to it by then was taken after that look: nothing is lost that references()
\* showed, across the awaits of delete(), the lists of the sweeps and a restore.
THEOREM NothingReferencedIsLost == Spec => ReferencesSurvive
  <1>1. StorageInvariant /\ [Next]_vars =>
          [\A m \in Media :
             open /\ Has(m) /\ row'[m] = "gone" =>
               refs[m] \cap Counted \subseteq late[m]]_vars
    BY RowsAreGivenUp
  <1>. QED  BY <1>1, StorageInvariantHolds, PTL DEF Spec, ReferencesSurvive
===============================================================================
