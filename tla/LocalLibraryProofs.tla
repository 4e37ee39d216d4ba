-------------------------- MODULE LocalLibraryProofs --------------------------
(***************************************************************************)
(* Theorems about LocalLibrary for every number of assets, uploads,        *)
(* confirmations, deletions and crashes.                                   *)
(***************************************************************************)
EXTENDS LibraryHistory, TLAPS

\* The keys of an asset are keys, and no other asset has them.
LEMMA KeyFacts ==
  /\ \A a \in Asset : KeysOf(a) \subseteq Key /\ MainKey(a) \in KeysOf(a)
  /\ \A a \in WithThumbnail : ThumbnailKey(a) \in KeysOf(a)
  /\ \A a, b \in Asset : KeysOf(a) \cap KeysOf(b) # {} => a = b
  /\ \A a \in Asset : \A k \in KeysOf(a) :
        k = MainKey(a) \/ (a \in WithThumbnail /\ k = ThumbnailKey(a))
BY DEF KeysOf, Key, MainKey, ThumbnailKey

-----------------------------------------------------------------------------
(* Type correctness *)

LEMMA InitTyped == LocalInit => LocalTypeOK
BY LocalAssumption, RowsAssumption
DEF LocalInit, RowsInit, LocalTypeOK, RowsTypeOK, Bytes, NoBytes, LockedStep, DeletionStep

LEMMA UploadTyped ==
  ASSUME LocalTypeOK, NEW u \in Upload, UploadStep(u)
  PROVE  LocalTypeOK'
<1> USE DEF LocalTypeOK, RowsTypeOK
<1>1. MainKey(UploadOf[u]) \in Key
  BY LocalAssumption, KeyFacts
<1>2. CASE StartUpload(u) \/ AbortUpload(u)
  BY <1>2 DEF StartUpload, AbortUpload
<1>3. CASE \E c \in Content : FinishUpload(u, c)
  BY <1>1, <1>3 DEF FinishUpload, Bytes
<1> QED BY <1>2, <1>3 DEF UploadStep

\* A confirmation changes its own record, and the row when it publishes.
LEMMA ConfirmationFrame ==
  ASSUME LocalTypeOK, NEW c \in Confirmation, ConfirmationStep(c)
  PROVE  /\ UNCHANGED <<writer, files, trash, upload, deletion, crashes>>
         /\ \/ UNCHANGED row
            \/ Publish(c)
         /\ \E a \in Asset, check \in Check \cup {"idle"} : SetCheck(c, a, check)
<1> USE DEF LocalTypeOK
<1>1. confirm[c].asset \in Asset
  OBVIOUS
<1>2. ASSUME NEW a \in Asset, StartConfirmation(c, a) PROVE
         /\ UNCHANGED <<row, writer, files, trash, upload, deletion, crashes>>
         /\ SetCheck(c, a, "inspect")
  BY <1>2 DEF StartConfirmation
<1>3. ASSUME NEW check \in Check \cup {"idle"}, Passed(c, check) PROVE
         /\ UNCHANGED <<row, writer, files, trash, upload, deletion, crashes>>
         /\ SetCheck(c, confirm[c].asset, check)
  BY <1>3 DEF Passed
<1>4. CASE Inspect(c) \/ DecodeImage(c) \/ CheckThumbnail(c) \/ FailConfirmation(c)
  <2>1. \E check \in Check \cup {"idle"} : Passed(c, check)
    BY <1>4 DEF Inspect, DecodeImage, CheckThumbnail, FailConfirmation,
                AfterInspect, AfterDecode, Check
  <2> QED BY <2>1, <1>1, <1>3
<1>5. CASE Publish(c)
  BY <1>1, <1>5 DEF Publish, MarkReady
<1> QED BY <1>2, <1>4, <1>5 DEF ConfirmationStep, Check

LEMMA ConfirmationTyped ==
  ASSUME LocalTypeOK, NEW c \in Confirmation, ConfirmationStep(c)
  PROVE  LocalTypeOK'
<1> USE DEF LocalTypeOK, RowsTypeOK
<1>1. PICK a \in Asset, check \in Check \cup {"idle"} : SetCheck(c, a, check)
  BY ConfirmationFrame
<1>2. confirm' \in [Confirmation -> [asset : Asset, check : Check \cup {"idle"}]]
  BY <1>1 DEF SetCheck
<1>3. row' \in [Asset -> {"absent", "pending", "ready", "deleted"}]
  BY ConfirmationFrame DEF Publish, MarkReady
<1> QED BY <1>2, <1>3, ConfirmationFrame

\* What a deletion does to the files and to its directory.
LEMMA MovesTyped ==
  ASSUME LocalTypeOK, NEW d \in Deletion, NEW kept, MoveToTrash(d, kept) \/ Restore(d, kept)
  PROVE  files' \in [Key -> Bytes] /\ trash' \in [Deletion -> [Key -> Bytes]]
BY DEF LocalTypeOK, MoveToTrash, Restore, Bytes

LEMMA DeletionTyped ==
  ASSUME LocalTypeOK, NEW d \in Deletion, DeletionAction(d)
  PROVE  LocalTypeOK'
<1> USE DEF LocalTypeOK, RowsTypeOK, SetStep, DeletionStep, LockedStep
<1>1. ASSUME NEW targets \in SUBSET Asset, StartDeletion(d, targets) PROVE LocalTypeOK'
  BY <1>1 DEF StartDeletion, BeginDeletion
<1>2. CASE RefuseDeletion(d)
  BY <1>2, RowsAssumption DEF RefuseDeletion, Rollback
<1>3. CASE StageFiles(d)
  BY <1>3, MovesTyped DEF StageFiles
<1>4. ASSUME NEW kept \in SUBSET Key, FailStaging(d, kept) PROVE LocalTypeOK'
  BY <1>4, MovesTyped DEF FailStaging
<1>5. ASSUME NEW kept \in SUBSET Key, RestoreFiles(d, kept) PROVE LocalTypeOK'
  BY <1>5, MovesTyped DEF RestoreFiles
<1>6. CASE RollbackDeletion(d)
  BY <1>6, RowsAssumption DEF RollbackDeletion, Rollback
<1>7. CASE Commit(d)
  BY <1>7, RowsAssumption DEF Commit, CommitDeletion, DeleteRows
<1>8. CASE InterruptCommit(d)
  BY <1>8, RowsAssumption DEF InterruptCommit, CommitDeletion, DeleteRows
<1>9. CASE EmptyTrash(d)
  <2>1. NoBytes \in [Key -> Bytes]
    BY DEF NoBytes, Bytes
  <2>2. trash' \in [Deletion -> [Key -> Bytes]]
    BY <1>9, <2>1 DEF EmptyTrash
  <2>3. deletion' = [deletion EXCEPT ![d].step = "over"] /\ writer # d
    BY <1>9 DEF EmptyTrash
  <2>4. deletion' \in [Deletion -> [targets : SUBSET Asset, step : DeletionStep]]
    BY <2>3
  <2>5. \A e \in Deletion : writer' = e => deletion'[e].step \in LockedStep
    BY <1>9, <2>3 DEF EmptyTrash
  <2> QED BY <1>9, <2>2, <2>4, <2>5 DEF EmptyTrash
<1> QED BY <1>1, <1>2, <1>3, <1>4, <1>5, <1>6, <1>7, <1>8, <1>9 DEF DeletionAction

LEMMA CrashTyped == LocalTypeOK /\ Crash => LocalTypeOK'
<1> SUFFICES ASSUME LocalTypeOK, Crash PROVE LocalTypeOK'
  OBVIOUS
<1> USE DEF LocalTypeOK, RowsTypeOK, Crash
<1>1. crashes' \in 0..MaxCrashes
  BY LocalAssumption
<1>2. writer' = Unlocked /\ UNCHANGED <<row, files, trash>>
  OBVIOUS
<1>3. upload' \in [Upload -> {"idle", "open", "over"}]
  OBVIOUS
<1>4. confirm' \in [Confirmation -> [asset : Asset, check : Check \cup {"idle"}]]
  OBVIOUS
<1>5. deletion' \in [Deletion -> [targets : SUBSET Asset, step : DeletionStep]]
  BY DEF DeletionStep
<1> HIDE DEF Crash
<1> QED BY <1>1, <1>2, <1>3, <1>4, <1>5, RowsAssumption

LEMMA StepTyped == LocalTypeOK /\ [LocalNext]_localVars => LocalTypeOK'
<1> SUFFICES ASSUME LocalTypeOK, [LocalNext]_localVars PROVE LocalTypeOK'
  OBVIOUS
<1>1. ASSUME NEW a \in Asset, CreateAsset(a) PROVE LocalTypeOK'
  BY <1>1 DEF CreateAsset, InsertRow, LocalTypeOK, RowsTypeOK, requestVars
<1>2. CASE UNCHANGED localVars
  BY <1>2 DEF localVars, LocalTypeOK, RowsTypeOK, Trashed
<1> QED BY <1>1, <1>2, UploadTyped, ConfirmationTyped, DeletionTyped, CrashTyped DEF LocalNext

\* Whatever requests do and wherever they fail, every variable stays in its
\* type and a deletion that is over holds no lock.
THEOREM LocalTypeCorrect == LocalSpec => []LocalTypeOK
BY InitTyped, StepTyped, PTL DEF LocalSpec

-----------------------------------------------------------------------------
(* The parts of the invariant *)

\* Everybody but deletions leaves the deletions, their files and the lock alone.
LEMMA OthersFrame ==
  ASSUME LocalTypeOK,
         \/ \E a \in Asset : CreateAsset(a)
         \/ \E u \in Upload : UploadStep(u)
         \/ \E c \in Confirmation : ConfirmationStep(c)
  PROVE  UNCHANGED <<writer, trash, deletion>>
<1>1. ASSUME NEW a \in Asset, CreateAsset(a) PROVE UNCHANGED <<writer, trash, deletion>>
  BY <1>1 DEF CreateAsset, InsertRow, requestVars
<1>2. ASSUME NEW u \in Upload, UploadStep(u) PROVE UNCHANGED <<writer, trash, deletion>>
  BY <1>2 DEF UploadStep, StartUpload, AbortUpload, FinishUpload
<1> QED BY <1>1, <1>2, ConfirmationFrame

\* Of a row they change only the status of one that is not deleted.
LEMMA OthersRows ==
  ASSUME LocalTypeOK,
         \/ \E a \in Asset : CreateAsset(a)
         \/ \E u \in Upload : UploadStep(u)
         \/ \E c \in Confirmation : ConfirmationStep(c)
  PROVE  \A a \in Asset : /\ Present(a) => Present(a)'
                          /\ row[a] = "deleted" => row'[a] = "deleted"
<1> USE DEF LocalTypeOK, RowsTypeOK, Present
<1>1. ASSUME NEW a \in Asset, CreateAsset(a)
      PROVE  row' = [row EXCEPT ![a] = "pending"] /\ row[a] = "absent"
  BY <1>1 DEF CreateAsset, InsertRow
<1>2. ASSUME NEW u \in Upload, UploadStep(u) PROVE row' = row
  BY <1>2 DEF UploadStep, StartUpload, AbortUpload, FinishUpload
<1>3. ASSUME NEW c \in Confirmation, ConfirmationStep(c)
      PROVE  \/ row' = row
             \/ \E a \in Asset : Present(a) /\ row' = [row EXCEPT ![a] = "ready"]
  BY <1>3, ConfirmationFrame DEF Publish, MarkReady
<1> QED BY <1>1, <1>2, <1>3

\* What a deletion does to the lock and to its own step.
LEMMA DeletionLock ==
  ASSUME LocalTypeOK, LockHeld, NEW d \in Deletion, DeletionAction(d)
  PROVE  /\ \A e \in Deletion \ {d} : deletion'[e] = deletion[e]
         /\ (deletion[d].step \in LockedStep \/ writer = Unlocked) \/ UNCHANGED writer
         /\ deletion'[d].step \in LockedStep => writer' = d
         /\ writer' \in {writer, d, Unlocked}
<1> USE DEF LocalTypeOK, RowsTypeOK, SetStep, LockedStep, LockHeld
<1>1. ASSUME NEW targets \in SUBSET Asset, StartDeletion(d, targets)
      PROVE  writer = Unlocked /\ writer' = d /\ \A e \in Deletion \ {d} : deletion'[e] = deletion[e]
  BY <1>1 DEF StartDeletion, BeginDeletion
<1>2. CASE RefuseDeletion(d) \/ RollbackDeletion(d)
  BY <1>2 DEF RefuseDeletion, RollbackDeletion, Rollback
<1>3. CASE StageFiles(d)
  BY <1>3 DEF StageFiles
<1>4. ASSUME NEW kept \in SUBSET Key, FailStaging(d, kept) \/ RestoreFiles(d, kept)
      PROVE  /\ UNCHANGED writer
             /\ \A e \in Deletion \ {d} : deletion'[e] = deletion[e]
             /\ deletion'[d].step \in LockedStep => writer = d
  BY <1>4 DEF FailStaging, RestoreFiles
<1>5. CASE Commit(d) \/ InterruptCommit(d)
  BY <1>5 DEF Commit, InterruptCommit, CommitDeletion
<1>6. CASE EmptyTrash(d)
  BY <1>6 DEF EmptyTrash
<1> QED BY <1>1, <1>2, <1>3, <1>4, <1>5, <1>6 DEF DeletionAction

LEMMA LockStep == LocalTypeOK /\ LockHeld /\ [LocalNext]_localVars => LockHeld'
<1> SUFFICES ASSUME LocalTypeOK, LockHeld, [LocalNext]_localVars PROVE LockHeld'
  OBVIOUS
<1>1. ASSUME NEW d \in Deletion, DeletionAction(d) PROVE LockHeld'
  <2>1. ASSUME NEW e \in Deletion \ {d}, deletion'[e].step \in LockedStep PROVE writer' = e
    <3>1. deletion[e].step \in LockedStep /\ writer = e
      BY <1>1, <2>1, DeletionLock DEF LockHeld
    <3>2. deletion[d].step \notin LockedStep /\ writer # Unlocked
      BY <3>1, <2>1, RowsAssumption DEF LockHeld
    <3> QED BY <1>1, <3>1, <3>2, DeletionLock
  <2> QED BY <1>1, <2>1, DeletionLock DEF LockHeld
<1>2. CASE Crash
  BY <1>2 DEF Crash, LockHeld, LockedStep, LocalTypeOK
<1>3. CASE UNCHANGED localVars
  BY <1>3 DEF localVars, LockHeld
<1>4. CASE UNCHANGED <<writer, trash, deletion>>
  BY <1>4 DEF LockHeld
<1> QED BY <1>1, <1>2, <1>3, <1>4, OthersFrame DEF LocalNext

\* A deletion that commits deletes the rows it has selected; no other step of
\* a deletion writes the table.
LEMMA DeletionRows ==
  ASSUME LocalTypeOK, NEW d \in Deletion, DeletionAction(d)
  PROVE  \/ UNCHANGED row
         \/ /\ deletion[d].step = "staged"
            /\ deletion'[d].targets = deletion[d].targets
            /\ DeleteRows(deletion[d].targets)
<1> USE DEF LocalTypeOK, SetStep
<1>1. ASSUME NEW targets \in SUBSET Asset, StartDeletion(d, targets) PROVE row' = row
  BY <1>1 DEF StartDeletion, BeginDeletion
<1>2. CASE RefuseDeletion(d) \/ RollbackDeletion(d) \/ StageFiles(d) \/ EmptyTrash(d)
  BY <1>2 DEF RefuseDeletion, RollbackDeletion, Rollback, StageFiles, EmptyTrash
<1>3. ASSUME NEW kept \in SUBSET Key, FailStaging(d, kept) \/ RestoreFiles(d, kept) PROVE row' = row
  BY <1>3 DEF FailStaging, RestoreFiles
<1>4. CASE Commit(d) \/ InterruptCommit(d)
  BY <1>4 DEF Commit, InterruptCommit, CommitDeletion
<1> QED BY <1>1, <1>2, <1>3, <1>4 DEF DeletionAction

LEMMA SelectionStep ==
  LocalTypeOK /\ LockHeld /\ SelectionHolds /\ [LocalNext]_localVars => SelectionHolds'
<1> SUFFICES ASSUME LocalTypeOK, LockHeld, SelectionHolds, [LocalNext]_localVars
             PROVE  SelectionHolds'
  OBVIOUS
<1>1. ASSUME NEW d \in Deletion, DeletionAction(d), NEW e \in Deletion, NEW a \in deletion'[e].targets
      PROVE  /\ deletion'[e].step \in LockedStep => Present(a)'
             /\ deletion'[e].step \in {"interrupted", "committed"} => row'[a] = "deleted"
  <2>1. CASE e # d
    <3>1. deletion'[e] = deletion[e]
      BY <1>1, <2>1, DeletionLock
    <3>2. deletion[e].step \in LockedStep => UNCHANGED row
      BY <1>1, <2>1, <3>1, DeletionRows DEF LockHeld, LockedStep
    <3>3. row[a] = "deleted" => row'[a] = "deleted"
      BY <1>1, <3>1, DeletionRows DEF DeleteRows, LocalTypeOK
    <3> QED BY <1>1, <3>1, <3>2, <3>3 DEF SelectionHolds, Present
  <2>2. CASE e = d
    <3> USE DEF LocalTypeOK, SetStep, LockedStep, SelectionHolds, Present
    <3>1. ASSUME NEW targets \in SUBSET Asset, StartDeletion(d, targets)
          PROVE  Present(a)' /\ deletion'[e].step \notin {"interrupted", "committed"}
      BY <1>1, <2>2, <3>1 DEF StartDeletion, BeginDeletion
    <3>2. CASE RefuseDeletion(d) \/ RollbackDeletion(d) \/ StageFiles(d) \/ EmptyTrash(d)
      BY <1>1, <2>2, <3>2
      DEF RefuseDeletion, RollbackDeletion, Rollback, StageFiles, EmptyTrash
    <3>3. ASSUME NEW kept \in SUBSET Key, FailStaging(d, kept) \/ RestoreFiles(d, kept)
          PROVE  /\ deletion'[e].step \in LockedStep => Present(a)'
                 /\ deletion'[e].step \notin {"interrupted", "committed"}
      BY <1>1, <2>2, <3>3 DEF FailStaging, RestoreFiles
    <3>4. CASE Commit(d) \/ InterruptCommit(d)
      BY <1>1, <2>2, <3>4 DEF Commit, InterruptCommit, CommitDeletion, DeleteRows
    <3> QED BY <1>1, <3>1, <3>2, <3>3, <3>4 DEF DeletionAction
  <2> QED BY <2>1, <2>2
<1>2. CASE Crash
  BY <1>2 DEF Crash, SelectionHolds, LockedStep, Present, LocalTypeOK
<1>3. CASE UNCHANGED localVars
  BY <1>3 DEF localVars, SelectionHolds, Present
<1>4. CASE \/ \E a \in Asset : CreateAsset(a)
           \/ \E u \in Upload : UploadStep(u)
           \/ \E c \in Confirmation : ConfirmationStep(c)
  BY <1>4, OthersFrame, OthersRows DEF SelectionHolds, LocalTypeOK
<1>5. (\E d \in Deletion : DeletionAction(d)) => SelectionHolds'
  BY <1>1 DEF SelectionHolds
<1> QED BY <1>2, <1>3, <1>4, <1>5 DEF LocalNext

LEMMA TrashStep == LocalTypeOK /\ TrashBelongs /\ [LocalNext]_localVars => TrashBelongs'
<1> SUFFICES ASSUME LocalTypeOK, TrashBelongs, [LocalNext]_localVars PROVE TrashBelongs'
  OBVIOUS
<1>1. ASSUME NEW d \in Deletion, DeletionAction(d), NEW e \in Deletion
      PROVE  /\ Trashed(e)' \subseteq KeysOfAll(deletion'[e].targets)
             /\ deletion'[e].step \in {"idle", "selected"} => Trashed(e)' = {}
  <2> USE <1>1 DEF LocalTypeOK, SetStep, TrashBelongs, Trashed
  <2>1. ASSUME NEW targets \in SUBSET Asset, StartDeletion(d, targets)
        PROVE  trash' = trash /\ (e # d => deletion'[e] = deletion[e])
               /\ (e = d => Trashed(e) = {})
    BY <2>1 DEF StartDeletion
  <2>2. CASE RefuseDeletion(d) \/ RollbackDeletion(d) \/ Commit(d) \/ InterruptCommit(d)
    <3>1. trash' = trash
      BY <2>2 DEF RefuseDeletion, RollbackDeletion, Commit, InterruptCommit
    <3>2. deletion'[e].targets = deletion[e].targets
          /\ (deletion'[e].step = deletion[e].step \/ deletion'[e].step \in {"over", "committed", "interrupted"})
      BY <2>2 DEF RefuseDeletion, RollbackDeletion, Commit, InterruptCommit
    <3> QED BY <3>1, <3>2
  <2>3. ASSUME NEW kept \in SUBSET KeysOfAll(deletion[d].targets), MoveToTrash(d, kept),
               SetStep(d, "staged") \/ SetStep(d, "undone")
        PROVE  /\ Trashed(e)' \subseteq KeysOfAll(deletion'[e].targets)
               /\ deletion'[e].step \in {"idle", "selected"} => Trashed(e)' = {}
    BY <2>3 DEF MoveToTrash
  <2>4. ASSUME NEW kept \in SUBSET Key, RestoreFiles(d, kept)
        PROVE  /\ Trashed(e)' \subseteq KeysOfAll(deletion'[e].targets)
               /\ deletion'[e].step \in {"idle", "selected"} => Trashed(e)' = {}
    BY <2>4 DEF RestoreFiles, Restore
  <2>5. CASE EmptyTrash(d)
    <3>1. Trashed(e)' \subseteq Trashed(e)
      BY <2>5 DEF EmptyTrash, NoBytes
    <3>2. deletion'[e].targets = deletion[e].targets
          /\ (deletion'[e].step = deletion[e].step \/ deletion'[e].step = "over")
      BY <2>5 DEF EmptyTrash
    <3> QED BY <3>1, <3>2
  <2>6. CASE StageFiles(d)
    BY <2>6, <2>3 DEF StageFiles
  <2>7. ASSUME NEW kept \in SUBSET Key, FailStaging(d, kept)
        PROVE  /\ Trashed(e)' \subseteq KeysOfAll(deletion'[e].targets)
               /\ deletion'[e].step \in {"idle", "selected"} => Trashed(e)' = {}
    BY <2>7, <2>3 DEF FailStaging
  <2>8. ASSUME NEW targets \in SUBSET Asset, StartDeletion(d, targets)
        PROVE  /\ Trashed(e)' \subseteq KeysOfAll(deletion'[e].targets)
               /\ deletion'[e].step \in {"idle", "selected"} => Trashed(e)' = {}
    BY <2>1, <2>8
  <2> QED BY <2>8, <2>2, <2>6, <2>7, <2>4, <2>5 DEF DeletionAction
<1>2. CASE Crash
  BY <1>2 DEF Crash, TrashBelongs, Trashed, LocalTypeOK
<1>3. CASE UNCHANGED <<trash, deletion>>
  BY <1>3 DEF TrashBelongs, Trashed
<1>4. (\E d \in Deletion : DeletionAction(d)) => TrashBelongs'
  BY <1>1 DEF TrashBelongs
<1> QED BY <1>2, <1>3, <1>4, OthersFrame DEF LocalNext, localVars

-----------------------------------------------------------------------------
(* Bytes of rows that exist are kept. *)

LEMMA DeletionKeepsBytes ==
  ASSUME LocalTypeOK, SelectionHolds, TrashBelongs, NEW d \in Deletion, DeletionAction(d),
         NEW a \in Asset, row[a] # "deleted", NEW k \in KeysOf(a), Stored(k)
  PROVE  Stored(k)'
<1> USE DEF LocalTypeOK, Stored, Exists, Trashed
<1>1. k \in Key
  BY KeyFacts
<1>2. ASSUME UNCHANGED <<files, trash>> PROVE Stored(k)'
  BY <1>2
<1>3. ASSUME NEW kept \in SUBSET Key, MoveToTrash(d, kept), Trashed(d) = {},
             \A l \in kept : Exists(l)
      PROVE  Stored(k)'
  BY <1>1, <1>3 DEF MoveToTrash
<1>4. ASSUME NEW kept \in SUBSET Key, RestoreFiles(d, kept) PROVE Stored(k)'
  BY <1>1, <1>4 DEF RestoreFiles, Restore
<1>5. CASE EmptyTrash(d)
  <2>1. k \notin Trashed(d)
    <3>1. SUFFICES ASSUME k \in Trashed(d) PROVE FALSE
      OBVIOUS
    <3>2. PICK b \in deletion[d].targets : k \in KeysOf(b)
      BY <3>1 DEF TrashBelongs, KeysOfAll
    <3>3. a = b
      BY <3>2, KeyFacts
    <3> QED BY <1>5, <3>2, <3>3 DEF EmptyTrash, SelectionHolds
  <2>2. files' = files /\ \A e \in Deletion \ {d} : trash'[e] = trash[e]
    BY <1>5 DEF EmptyTrash
  <2> QED BY <2>1, <2>2
<1>6. deletion[d].step = "selected" => Trashed(d) = {}
  BY DEF TrashBelongs
<1>7. CASE StageFiles(d)
  <2>1. {l \in KeysOfAll(deletion[d].targets) : Exists(l)} \subseteq Key
    BY KeyFacts DEF KeysOfAll
  <2> QED BY <1>3, <1>6, <1>7, <2>1 DEF StageFiles
<1>8. ASSUME NEW kept \in SUBSET Key, FailStaging(d, kept) PROVE Stored(k)'
  BY <1>3, <1>6, <1>8 DEF FailStaging
<1>9. ASSUME NEW targets \in SUBSET Asset, StartDeletion(d, targets) PROVE Stored(k)'
  BY <1>2, <1>9 DEF StartDeletion
<1>10. CASE RefuseDeletion(d) \/ RollbackDeletion(d) \/ Commit(d) \/ InterruptCommit(d)
  BY <1>2, <1>10 DEF RefuseDeletion, RollbackDeletion, Commit, InterruptCommit
<1> QED BY <1>4, <1>5, <1>7, <1>8, <1>9, <1>10 DEF DeletionAction

LEMMA KeepsBytes ==
  ASSUME LocalTypeOK, SelectionHolds, TrashBelongs, [LocalNext]_localVars,
         NEW a \in Asset, row[a] # "deleted", NEW k \in KeysOf(a), Stored(k)
  PROVE  Stored(k)'
<1> USE DEF Stored, Exists, Trashed
<1>1. CASE UNCHANGED <<files, trash>>
  BY <1>1
<1>2. ASSUME NEW u \in Upload, UploadStep(u) PROVE Stored(k)'
  <2>1. CASE StartUpload(u) \/ AbortUpload(u)
    BY <1>1, <2>1 DEF StartUpload, AbortUpload
  <2>2. ASSUME NEW c \in Content, FinishUpload(u, c) PROVE Stored(k)'
    BY <2>2, LocalAssumption, KeyFacts DEF FinishUpload, LocalTypeOK
  <2> QED BY <1>2, <2>1, <2>2 DEF UploadStep
<1>3. ASSUME NEW b \in Asset, CreateAsset(b) PROVE Stored(k)'
  BY <1>1, <1>3 DEF CreateAsset
<1>4. ASSUME NEW c \in Confirmation, ConfirmationStep(c) PROVE Stored(k)'
  BY <1>1, <1>4, ConfirmationFrame
<1>5. CASE Crash \/ UNCHANGED localVars
  BY <1>1, <1>5 DEF Crash, localVars
<1> QED BY <1>2, <1>3, <1>4, <1>5, DeletionKeepsBytes DEF LocalNext

\* A deleted row does not come back, and a row becomes ready only when a
\* confirmation that has passed all checks publishes it.
LEMMA RowsStep ==
  ASSUME LocalTypeOK, [LocalNext]_localVars, NEW a \in Asset
  PROVE  /\ row[a] = "deleted" => row'[a] = "deleted"
         /\ row'[a] = "ready" /\ row[a] # "ready" =>
               \E c \in Confirmation : /\ confirm[c].check = "update"
                                       /\ confirm[c].asset = a
                                       /\ row[a] # "deleted"
<1> USE DEF LocalTypeOK, RowsTypeOK
<1>1. CASE UNCHANGED row
  BY <1>1
<1>2. ASSUME NEW b \in Asset, CreateAsset(b)
      PROVE  row' = [row EXCEPT ![b] = "pending"] /\ row[b] = "absent"
  BY <1>2 DEF CreateAsset, InsertRow
<1>3. ASSUME NEW u \in Upload, UploadStep(u) PROVE row' = row
  BY <1>3 DEF UploadStep, StartUpload, AbortUpload, FinishUpload
<1>4. ASSUME NEW c \in Confirmation, Publish(c)
      PROVE  /\ row' = [row EXCEPT ![confirm[c].asset] = "ready"]
             /\ Present(confirm[c].asset) /\ confirm[c].check = "update"
  BY <1>4 DEF Publish, MarkReady
<1>5. ASSUME NEW c \in Confirmation, ConfirmationStep(c) PROVE UNCHANGED row \/ Publish(c)
  BY <1>5, ConfirmationFrame
<1>6. ASSUME NEW d \in Deletion, DeletionAction(d)
      PROVE  UNCHANGED row \/ \E targets : DeleteRows(targets)
  BY <1>6, DeletionRows
<1>7. CASE Crash \/ UNCHANGED localVars
  BY <1>1, <1>7 DEF Crash, localVars
<1>8. CASE \E b \in Asset : CreateAsset(b)
  BY <1>2, <1>8
<1>9. CASE \E c \in Confirmation : Publish(c)
  BY <1>4, <1>9 DEF Present
<1>10. CASE \E targets : DeleteRows(targets)
  BY <1>10 DEF DeleteRows
<1> QED BY <1>1, <1>3, <1>5, <1>6, <1>7, <1>8, <1>9, <1>10 DEF LocalNext

LEMMA ReadyStep ==
  ASSUME LibraryInvariant, [LocalNext]_localVars
  PROVE  ReadyIsStored'
<1> USE DEF LibraryInvariant
<1> SUFFICES ASSUME NEW a \in Asset, row'[a] = "ready", NEW k \in KeysOf(a) PROVE Stored(k)'
  BY DEF ReadyIsStored, StoredAssets
<1>1. row[a] # "deleted"
  BY RowsStep
<1>2. CASE row[a] = "ready"
  BY <1>1, <1>2, KeepsBytes DEF ReadyIsStored, StoredAssets
<1>3. CASE row[a] # "ready"
  <2>1. PICK c \in Confirmation : confirm[c].check = "update" /\ confirm[c].asset = a
    BY <1>3, RowsStep
  <2>2. Stored(k)
    BY <1>1, <2>1, KeyFacts DEF ChecksHold
  <2> QED BY <1>1, <2>2, KeepsBytes
<1> QED BY <1>2, <1>3

\* A confirmation proceeds to a later check only with what it has seen stored.
LEMMA ConfirmationSees ==
  ASSUME LocalTypeOK, NEW c \in Confirmation, ConfirmationStep(c)
  PROVE  LET a == confirm'[c].asset IN
         /\ confirm'[c].check \in {"decode", "thumbnail", "update"} =>
              /\ confirm[c].asset = a
              /\ confirm[c].check \in {"decode", "thumbnail", "update"} \/ Stored(MainKey(a))
         /\ confirm'[c].check = "update" /\ a \in WithThumbnail => Stored(ThumbnailKey(a))
<1> USE DEF LocalTypeOK, SetCheck, Passed, AfterInspect, AfterDecode, Stored, Exists
<1>1. ASSUME NEW a \in Asset, StartConfirmation(c, a) PROVE confirm'[c].check = "inspect"
  BY <1>1 DEF StartConfirmation
<1>2. CASE Inspect(c)
  <2>1. files[MainKey(confirm[c].asset)] # None
    BY <1>2, LocalAssumption DEF Inspect
  <2>2. confirm'[c].asset = confirm[c].asset
    BY <1>2 DEF Inspect
  <2>3. confirm'[c].check = "update" => confirm'[c].asset \notin WithThumbnail
    BY <1>2 DEF Inspect
  <2> QED BY <2>1, <2>2, <2>3
<1>3. CASE DecodeImage(c)
  BY <1>3 DEF DecodeImage
<1>4. CASE CheckThumbnail(c)
  BY <1>4 DEF CheckThumbnail
<1>5. CASE Publish(c) \/ FailConfirmation(c)
  BY <1>5 DEF Publish, FailConfirmation
<1> QED BY <1>1, <1>2, <1>3, <1>4, <1>5 DEF ConfirmationStep

LEMMA OthersConfirm ==
  ASSUME LocalTypeOK, [LocalNext]_localVars, NEW c \in Confirmation, ~ConfirmationStep(c)
  PROVE  confirm'[c] = confirm[c] \/ confirm'[c].check = "idle"
<1> USE DEF LocalTypeOK
<1>1. ASSUME NEW e \in Confirmation, ConfirmationStep(e), e # c PROVE confirm'[c] = confirm[c]
  BY <1>1, ConfirmationFrame DEF SetCheck
<1>2. ASSUME NEW d \in Deletion, DeletionAction(d) PROVE confirm' = confirm
  BY <1>2 DEF DeletionAction, StartDeletion, RefuseDeletion, StageFiles, FailStaging,
              RestoreFiles, RollbackDeletion, Commit, InterruptCommit, EmptyTrash
<1>3. ASSUME NEW u \in Upload, UploadStep(u) PROVE confirm' = confirm
  BY <1>3 DEF UploadStep, StartUpload, AbortUpload, FinishUpload
<1>4. ASSUME NEW a \in Asset, CreateAsset(a) PROVE confirm' = confirm
  BY <1>4 DEF CreateAsset, requestVars
<1>5. CASE Crash
  BY <1>5 DEF Crash
<1>6. CASE UNCHANGED localVars
  BY <1>6 DEF localVars
<1> QED BY <1>1, <1>2, <1>3, <1>4, <1>5, <1>6 DEF LocalNext

LEMMA ChecksStep ==
  ASSUME LibraryInvariant, [LocalNext]_localVars
  PROVE  ChecksHold'
<1> USE DEF LibraryInvariant
<1> SUFFICES ASSUME NEW c \in Confirmation, NEW a \in Asset, a = confirm'[c].asset,
                    row'[a] # "deleted"
             PROVE  /\ confirm'[c].check \in {"decode", "thumbnail", "update"} => Stored(MainKey(a))'
                    /\ confirm'[c].check = "update" /\ a \in WithThumbnail => Stored(ThumbnailKey(a))'
  BY StepTyped DEF ChecksHold, MainKey, ThumbnailKey, LocalTypeOK
<1>1. row[a] # "deleted"
  BY RowsStep
<1>2. confirm'[c].check \in {"decode", "thumbnail", "update"} => Stored(MainKey(a))
  BY <1>1, ConfirmationSees, OthersConfirm DEF ChecksHold
<1>3. confirm'[c].check = "update" /\ a \in WithThumbnail => Stored(ThumbnailKey(a))
  BY <1>1, ConfirmationSees, OthersConfirm DEF ChecksHold
<1> QED BY <1>1, <1>2, <1>3, KeepsBytes, KeyFacts

LEMMA InvariantInit == LocalInit => LibraryInvariant
<1> SUFFICES ASSUME LocalInit PROVE LibraryInvariant
  OBVIOUS
<1>1. LocalTypeOK
  BY InitTyped
<1>2. LockHeld /\ SelectionHolds /\ TrashBelongs
  BY DEF LocalInit, LockHeld, SelectionHolds, TrashBelongs, Trashed, LockedStep, NoBytes, KeysOfAll
<1>3. ChecksHold
  BY DEF LocalInit, ChecksHold
<1>4. ReadyIsStored
  BY DEF LocalInit, RowsInit, ReadyIsStored
<1> QED BY <1>1, <1>2, <1>3, <1>4 DEF LibraryInvariant

LEMMA InvariantStep == LibraryInvariant /\ [LocalNext]_localVars => LibraryInvariant'
BY StepTyped, LockStep, SelectionStep, TrashStep, ChecksStep, ReadyStep DEF LibraryInvariant

\* The rows that deletions have selected stay, checks that were passed stay
\* true, and the bytes of a ready asset exist at their keys or in the
\* directory of a deletion.
THEOREM LibraryInvariantHolds == LocalSpec => []LibraryInvariant
BY InvariantInit, InvariantStep, PTL DEF LocalSpec

-----------------------------------------------------------------------------
(* Refinement *)

LEMMA StoredUnchanged == UNCHANGED <<files, trash>> => UNCHANGED StoredAssets
BY DEF StoredAssets, Stored, Exists, Trashed

LEMMA LifecycleInit == LocalInit => AsAsset!Init
BY DEF LocalInit, RowsInit, AsAsset!Init, StoredAssets

LEMMA LifecycleStep ==
  ASSUME LibraryInvariant, LibraryInvariant', [LocalNext]_localVars
  PROVE  [AsAsset!Next]_AsAsset!vars
<1> USE DEF LibraryInvariant, LocalTypeOK, RowsTypeOK
<1>1. CASE UNCHANGED row
  <2>1. AsAsset!Ready \subseteq StoredAssets'
    BY <1>1 DEF AsAsset!Ready, ReadyIsStored
  <2>2. StoredAssets' \subseteq Asset
    BY DEF StoredAssets
  <2> QED BY <1>1, <2>1, <2>2 DEF AsAsset!Next, AsAsset!MoveBytes
<1>2. ASSUME NEW a \in Asset, CreateAsset(a) PROVE AsAsset!Next
  <2>1. UNCHANGED StoredAssets
    BY <1>2, StoredUnchanged DEF CreateAsset
  <2>2. AsAsset!Reserve(a)
    BY <1>2, <2>1 DEF CreateAsset, InsertRow, AsAsset!Reserve
  <2> QED BY <2>2 DEF AsAsset!Next
<1>3. ASSUME NEW c \in Confirmation, Publish(c) PROVE AsAsset!Next
  <2> DEFINE a == confirm[c].asset
  <2>1. UNCHANGED StoredAssets
    BY <1>3, StoredUnchanged DEF Publish
  <2>2. a \in Asset /\ Present(a) /\ row' = [row EXCEPT ![a] = "ready"]
    BY <1>3 DEF Publish, MarkReady
  <2>3. confirm[c].check = "update" /\ row[a] # "deleted"
    BY <1>3, <2>2 DEF Publish, Present
  <2>4. a \in StoredAssets
    BY <2>2, <2>3, KeyFacts DEF ChecksHold, StoredAssets
  <2>5. AsAsset!Confirm(a)
    BY <2>1, <2>2, <2>4 DEF AsAsset!Confirm, Present
  <2> QED BY <2>2, <2>5 DEF AsAsset!Next
<1>4. ASSUME NEW d \in Deletion, Commit(d) \/ InterruptCommit(d) PROVE AsAsset!Next
  <2> DEFINE removed == deletion[d].targets
  <2>1. UNCHANGED StoredAssets
    BY <1>4, StoredUnchanged DEF Commit, InterruptCommit
  <2>2. removed \in SUBSET Asset /\ \A a \in removed : Present(a)
    BY <1>4 DEF Commit, InterruptCommit, SelectionHolds, LockedStep
  <2>3. row' = [a \in Asset |-> IF a \in removed THEN "deleted" ELSE row[a]]
    BY <1>4 DEF Commit, InterruptCommit, CommitDeletion, DeleteRows
  <2>4. AsAsset!Remove(removed)
    BY <2>1, <2>2, <2>3 DEF AsAsset!Remove, Present
  <2> QED BY <2>2, <2>4 DEF AsAsset!Next
<1>5. ASSUME NEW c \in Confirmation, ConfirmationStep(c) PROVE UNCHANGED row \/ Publish(c)
  BY <1>5, ConfirmationFrame
<1>6. ASSUME NEW d \in Deletion, DeletionAction(d)
      PROVE  UNCHANGED row \/ Commit(d) \/ InterruptCommit(d)
  BY <1>6 DEF DeletionAction, StartDeletion, BeginDeletion, RefuseDeletion, RollbackDeletion,
              Rollback, StageFiles, FailStaging, RestoreFiles, EmptyTrash
<1>7. ASSUME NEW u \in Upload, UploadStep(u) PROVE UNCHANGED row
  BY <1>7 DEF UploadStep, StartUpload, AbortUpload, FinishUpload
<1>8. CASE Crash \/ UNCHANGED localVars
  BY <1>1, <1>8 DEF Crash, localVars
<1> QED BY <1>1, <1>2, <1>3, <1>4, <1>5, <1>6, <1>7, <1>8 DEF LocalNext

\* Over the file system the library behaves as AssetLifecycle says, however
\* many uploads, confirmations, deletions, failures and crashes there are.
THEOREM LocalImplementsLifecycle == LocalSpec => LocalLifecycle
<1>1. LibraryInvariant /\ LibraryInvariant' /\ [LocalNext]_localVars => [AsAsset!Next]_AsAsset!vars
  BY LifecycleStep
<1>2. LocalSpec => []LibraryInvariant
  BY LibraryInvariantHolds
<1> QED BY <1>1, <1>2, LifecycleInit, PTL DEF LocalSpec, LocalLifecycle, AsAsset!Spec
-----------------------------------------------------------------------------
(* Files of deleted assets *)

LEMMA RestoredFiles ==
  ASSUME LibraryInvariant, NEW d \in Deletion, NEW kept \in SUBSET Key, RestoreFiles(d, kept),
         NEW a \in Asset, NEW k \in KeysOf(a), row[a] = "deleted", Reappears(k)
  PROVE  deletion[d].step = "interrupted" /\ a \in deletion[d].targets
<1> USE DEF LibraryInvariant, LocalTypeOK
<1>1. k \in Trashed(d)
  BY KeyFacts DEF RestoreFiles, Restore, Reappears, Exists
<1>2. PICK b \in deletion[d].targets : k \in KeysOf(b)
  BY <1>1 DEF TrashBelongs, KeysOfAll
<1>3. a = b
  BY <1>2, KeyFacts
<1>4. deletion[d].step # "staged"
  BY <1>2, <1>3 DEF SelectionHolds, LockedStep, Present
<1> QED BY <1>2, <1>3, <1>4 DEF RestoreFiles

LEMMA ReappearingFiles ==
  ASSUME LibraryInvariant, [LocalNext]_localVars,
         NEW a \in Asset, NEW k \in KeysOf(a), row[a] = "deleted", Reappears(k)
  PROVE  \/ \E u \in Upload : upload[u] = "open" /\ UploadOf[u] = a
         \/ \E d \in Deletion : deletion[d].step = "interrupted" /\ a \in deletion[d].targets
<1> USE DEF LibraryInvariant, LocalTypeOK
<1>1. files' # files /\ k \in Key
  BY KeyFacts DEF Reappears, Exists
<1>2. ASSUME NEW u \in Upload, UploadStep(u) PROVE upload[u] = "open" /\ UploadOf[u] = a
  <2>1. PICK c \in Content : FinishUpload(u, c)
    BY <1>1, <1>2 DEF UploadStep, StartUpload, AbortUpload
  <2>2. k = MainKey(UploadOf[u])
    BY <1>1, <2>1 DEF FinishUpload, Reappears, Exists
  <2> QED BY <2>1, <2>2, KeyFacts, LocalAssumption DEF FinishUpload
<1>3. ASSUME NEW d \in Deletion, DeletionAction(d)
      PROVE  deletion[d].step = "interrupted" /\ a \in deletion[d].targets
  <2>1. ASSUME NEW kept, MoveToTrash(d, kept) PROVE FALSE
    BY <1>1, <2>1 DEF MoveToTrash, Reappears, Exists
  <2>2. PICK kept \in SUBSET Key : RestoreFiles(d, kept)
    BY <1>1, <1>3, <2>1
    DEF DeletionAction, StartDeletion, RefuseDeletion, StageFiles, FailStaging, RollbackDeletion,
        Commit, InterruptCommit, EmptyTrash
  <2> QED BY <2>2, RestoredFiles
<1>4. ASSUME NEW b \in Asset, CreateAsset(b) PROVE FALSE
  BY <1>1, <1>4 DEF CreateAsset
<1>5. ASSUME NEW c \in Confirmation, ConfirmationStep(c) PROVE FALSE
  BY <1>1, <1>5, ConfirmationFrame
<1>6. ~Crash /\ ~UNCHANGED localVars
  BY <1>1 DEF Crash, localVars
<1> QED BY <1>2, <1>3, <1>4, <1>5, <1>6 DEF LocalNext

\* After a deletion its files come back only through an upload that was under
\* way or through the deletion whose commit was interrupted: the lock keeps
\* the restoring of another deletion away (LibraryService.delete_many).
THEOREM DeletedFilesNeverReturn == LocalSpec => DeletedFilesStayAway
<1>1. LibraryInvariant /\ [LocalNext]_localVars =>
        [\A a \in Asset : \A k \in KeysOf(a) :
           row[a] = "deleted" /\ Reappears(k)
             => \/ \E u \in Upload : upload[u] = "open" /\ UploadOf[u] = a
                \/ \E d \in Deletion :
                     deletion[d].step = "interrupted" /\ a \in deletion[d].targets]_localVars
  BY ReappearingFiles
<1> QED BY <1>1, LibraryInvariantHolds, PTL DEF LocalSpec, DeletedFilesStayAway

-----------------------------------------------------------------------------
(* Bytes of confirmed assets *)

\* The bytes at the key of an asset are in valid; where there are none, so
\* are those that a deletion may put back.
Intact(a, valid) ==
  LET k == MainKey(a) IN
  /\ Exists(k) => files[k] \in valid
  /\ ~Exists(k) => \A d \in Deletion : deletion[d].step = "staged" =>
                      trash[d][k] \in valid \cup {None}

PassedChecks ==
  /\ \A c \in Confirmation \ outdated :
       LET a == confirm[c].asset IN
       Looked(c) /\ row[a] # "deleted" =>
         /\ Intact(a, Signed)
         /\ confirm[c].check # "decode" => Intact(a, ValidFor(a))
  /\ \A a \in Asset \ replaced : row[a] = "ready" => Intact(a, ValidFor(a))

BytesInv == LibraryInvariant /\ PassedChecks

LEMMA BytesInit == HistoryInit => BytesInv
<1> SUFFICES ASSUME HistoryInit PROVE BytesInv
  OBVIOUS
<1>1. \A c \in Confirmation : ~Looked(c)
  BY DEF HistoryInit, LocalInit, Looked
<1>2. \A a \in Asset : row[a] # "ready"
  BY DEF HistoryInit, LocalInit, RowsInit
<1> QED BY <1>1, <1>2, InvariantInit DEF HistoryInit, BytesInv, PassedChecks

\* While a deletion holds the lock no other has its files staged.
LEMMA OneStaged ==
  ASSUME LibraryInvariant, NEW d \in Deletion, NEW e \in Deletion,
         deletion[d].step \in LockedStep, deletion[e].step = "staged"
  PROVE  d = e
BY DEF LibraryInvariant, LockHeld, LockedStep

LEMMA DeletionKeepsIntact ==
  ASSUME LibraryInvariant, NEW d \in Deletion, DeletionAction(d), NEW a \in Asset,
         row[a] # "deleted", NEW valid, Intact(a, valid), ~Overwritten(a)
  PROVE  Intact(a, valid)'
<1> DEFINE k == MainKey(a)
<1> USE DEF LibraryInvariant, LocalTypeOK, SetStep, Intact, Exists
<1>1. k \in Key /\ MainKey(a) = k
  BY KeyFacts
<1> HIDE DEF k
<1>2. CASE UNCHANGED <<files, trash>> /\ deletion'[d].step # "staged"
  BY <1>1, <1>2, DeletionLock
<1>3. CASE StageFiles(d)
  <2> DEFINE keys == {l \in KeysOfAll(deletion[d].targets) : Exists(l)}
  <2>1. deletion[d].step = "selected" /\ MoveToTrash(d, keys)
    BY <1>3 DEF StageFiles
  <2>2. \A e \in Deletion : deletion'[e].step = "staged" => e = d
    BY <1>3, <2>1, OneStaged, DeletionLock DEF LockedStep
  <2>3. files'[k] = IF k \in keys THEN None ELSE files[k]
    BY <1>1, <2>1 DEF MoveToTrash
  <2>4. trash'[d][k] = IF k \in keys THEN files[k] ELSE None
    BY <1>1, <2>1 DEF MoveToTrash
  <2>5. k \in keys => files[k] # None
    OBVIOUS
  <2> HIDE DEF keys
  <2>6. (files[k] # None => files[k] \in valid)
    BY <1>1
  <2> QED BY <1>1, <2>2, <2>3, <2>4, <2>5, <2>6
<1>4. ASSUME NEW kept \in SUBSET Key, FailStaging(d, kept) PROVE Intact(a, valid)'
  <2>1. deletion[d].step = "selected" /\ deletion'[d].step = "undone" /\ MoveToTrash(d, kept)
    BY <1>4 DEF FailStaging
  <2>2. \A e \in Deletion : deletion'[e].step # "staged"
    BY <1>4, <2>1, OneStaged, DeletionLock DEF LockedStep
  <2>3. files'[k] \in {files[k], None}
    BY <1>1, <2>1 DEF MoveToTrash
  <2> QED BY <1>1, <2>2, <2>3
<1>5. ASSUME NEW kept \in SUBSET Key, RestoreFiles(d, kept) PROVE Intact(a, valid)'
  <2>1. Restore(d, kept) /\ deletion'[d].step # "staged"
    BY <1>5 DEF RestoreFiles
  <2>2. files'[k] = IF k \in Trashed(d) \ kept THEN trash[d][k] ELSE files[k]
    BY <1>1, <2>1 DEF Restore
  <2>3. \A e \in Deletion \ {d} : trash'[e] = trash[e] /\ deletion'[e] = deletion[e]
    BY <2>1, <1>5, DeletionLock DEF Restore
  <2>4. CASE files'[k] = files[k]
    BY <1>1, <2>1, <2>3, <2>4
  <2>5. CASE files'[k] # files[k]
    <3>1. k \in Trashed(d) /\ files'[k] = trash[d][k] /\ trash[d][k] # None
      BY <2>2, <2>5 DEF Trashed
    <3>2. files[k] = None
      BY <1>1, <2>5, <3>1 DEF Overwritten
    <3>3. PICK b \in deletion[d].targets : k \in KeysOf(b)
      BY <3>1 DEF TrashBelongs, KeysOfAll
    <3>4. b = a
      BY <1>1, <3>3, KeyFacts
    <3>5. deletion[d].step = "staged"
      BY <1>5, <3>3, <3>4 DEF RestoreFiles, SelectionHolds
    <3> QED BY <1>1, <3>1, <3>2, <3>5
  <2> QED BY <2>4, <2>5
<1>6. CASE EmptyTrash(d)
  <2>1. files' = files /\ deletion'[d].step # "staged"
    BY <1>6 DEF EmptyTrash
  <2>2. \A e \in Deletion \ {d} : trash'[e] = trash[e] /\ deletion'[e] = deletion[e]
    BY <1>6 DEF EmptyTrash
  <2> QED BY <1>1, <2>1, <2>2
<1>7. ASSUME NEW targets \in SUBSET Asset, StartDeletion(d, targets)
      PROVE  UNCHANGED <<files, trash>> /\ deletion'[d].step # "staged"
  BY <1>7 DEF StartDeletion
<1>8. CASE RefuseDeletion(d) \/ RollbackDeletion(d) \/ Commit(d) \/ InterruptCommit(d)
  <2>1. UNCHANGED <<files, trash>> /\ deletion'[d].step # "staged"
    BY <1>8 DEF RefuseDeletion, RollbackDeletion, Commit, InterruptCommit
  <2> QED BY <1>2, <2>1
<1> QED BY <1>2, <1>3, <1>4, <1>5, <1>6, <1>7, <1>8 DEF DeletionAction

LEMMA KeepsIntact ==
  ASSUME LibraryInvariant, LocalNext, NEW a \in Asset,
         row[a] # "deleted", NEW valid, Intact(a, valid), ~Overwritten(a)
  PROVE  Intact(a, valid)'
<1> USE DEF LibraryInvariant, LocalTypeOK, Intact, Exists
<1>1. CASE UNCHANGED <<files, trash, deletion>>
  BY <1>1 DEF MainKey
<1>2. ASSUME NEW u \in Upload, NEW c \in Content, FinishUpload(u, c) PROVE Intact(a, valid)'
  <2>1. files'[MainKey(a)] = files[MainKey(a)]
    <3>1. MainKey(a) \in Key
      BY KeyFacts
    <3>2. CASE UploadOf[u] = a
      <4>1. upload'[u] # upload[u] /\ files'[MainKey(a)] # None
        BY <1>2, <3>1, <3>2, LocalAssumption DEF FinishUpload
      <4> QED BY <3>2, <4>1 DEF Overwritten
    <3>3. CASE UploadOf[u] # a
      BY <1>2, <3>1, <3>3 DEF FinishUpload, MainKey
    <3> QED BY <3>2, <3>3
  <2>2. UNCHANGED <<trash, deletion>>
    BY <1>2 DEF FinishUpload
  <2>3. MainKey(a)' = MainKey(a)
    BY DEF MainKey
  <2> QED BY <2>1, <2>2, <2>3
<1>3. ASSUME NEW u \in Upload, StartUpload(u) \/ AbortUpload(u)
      PROVE  UNCHANGED <<files, trash, deletion>>
  BY <1>3 DEF StartUpload, AbortUpload
<1>4. ASSUME NEW b \in Asset, CreateAsset(b) PROVE UNCHANGED <<files, trash, deletion>>
  BY <1>4 DEF CreateAsset, requestVars
<1>5. ASSUME NEW c \in Confirmation, ConfirmationStep(c) PROVE UNCHANGED <<files, trash, deletion>>
  BY <1>5, ConfirmationFrame
<1>6. CASE Crash
  <2>1. UNCHANGED <<files, trash>> /\ \A d \in Deletion : deletion'[d].step # "staged"
    BY <1>6 DEF Crash
  <2> QED BY <2>1 DEF MainKey
<1> QED BY <1>1, <1>2, <1>3, <1>4, <1>5, <1>6, DeletionKeepsIntact DEF LocalNext, UploadStep

\* A check that succeeds has found bytes, and deletions put nothing over them.
LEMMA FoundIntact ==
  ASSUME LocalTypeOK, NEW a \in Asset, NEW valid \in SUBSET Content, files[MainKey(a)] \in valid
  PROVE  Intact(a, valid)
BY LocalAssumption DEF Intact, Exists

\* A confirmation that goes on to a later check has seen what that requires.
LEMMA ConfirmationFinds ==
  ASSUME BytesInv, NEW c \in Confirmation \ outdated, ConfirmationStep(c), Looked(c)',
         NEW a, a = confirm'[c].asset, row[a] # "deleted"
  PROVE  /\ Intact(a, Signed)
         /\ confirm'[c].check # "decode" => Intact(a, ValidFor(a))
<1> USE DEF BytesInv, LibraryInvariant, LocalTypeOK, SetCheck, Passed, AfterInspect, AfterDecode
<1>1. ~\E b \in Asset : StartConfirmation(c, b)
  BY DEF StartConfirmation, Looked
<1>2. CASE Inspect(c)
  <2>1. a = confirm[c].asset /\ a \in Asset /\ files[MainKey(a)] \in Signed
    BY <1>2 DEF Inspect
  <2>2. Intact(a, Signed)
    BY <2>1, FoundIntact, LocalAssumption
  <2>3. confirm'[c].check # "decode" => ValidFor(a) = Signed
    BY <1>2, <2>1 DEF Inspect, ValidFor
  <2> QED BY <2>2, <2>3
<1>3. CASE DecodeImage(c)
  <2>1. a = confirm[c].asset /\ a \in Asset /\ files[MainKey(a)] \in Decodable
    BY <1>3 DEF DecodeImage
  <2>2. Intact(a, Signed)
    BY <1>3, <2>1 DEF DecodeImage, PassedChecks, Looked
  <2>3. files[MainKey(a)] \in Signed \cap Decodable
    BY <2>1, <2>2, LocalAssumption DEF Intact, Exists
  <2>4. Intact(a, ValidFor(a))
    BY <2>1, <2>3, FoundIntact, LocalAssumption DEF ValidFor
  <2> QED BY <2>2, <2>4
<1>4. CASE CheckThumbnail(c)
  <2>1. a = confirm[c].asset /\ confirm[c].check = "thumbnail"
    BY <1>4 DEF CheckThumbnail
  <2> QED BY <2>1 DEF PassedChecks, Looked
<1>5. ~Publish(c) /\ ~FailConfirmation(c)
  BY DEF Publish, FailConfirmation, Looked
<1> QED BY <1>1, <1>2, <1>3, <1>4, <1>5 DEF ConfirmationStep

\* A row becomes ready only when a confirmation publishes it.
LEMMA ReadyByPublish ==
  ASSUME LocalTypeOK, LocalNext, NEW a \in Asset, row'[a] = "ready", row[a] # "ready"
  PROVE  \E c \in Confirmation : Publish(c) /\ confirm[c].asset = a /\ row[a] # "deleted"
<1> USE DEF LocalTypeOK, RowsTypeOK
<1>1. ASSUME NEW b \in Asset, CreateAsset(b) PROVE FALSE
  BY <1>1 DEF CreateAsset, InsertRow
<1>2. ASSUME NEW u \in Upload, UploadStep(u) PROVE FALSE
  BY <1>2 DEF UploadStep, StartUpload, AbortUpload, FinishUpload
<1>3. ASSUME NEW d \in Deletion, DeletionAction(d) PROVE FALSE
  BY <1>3, DeletionRows DEF DeleteRows
<1>4. ~Crash
  BY DEF Crash
<1>5. PICK c \in Confirmation : ConfirmationStep(c)
  BY <1>1, <1>2, <1>3, <1>4 DEF LocalNext
<1>6. Publish(c)
  BY <1>5, ConfirmationFrame
<1>7. row' = [row EXCEPT ![confirm[c].asset] = "ready"] /\ Present(confirm[c].asset)
  BY <1>6 DEF Publish, MarkReady
<1> QED BY <1>6, <1>7 DEF Present

LEMMA PassedStep ==
  ASSUME BytesInv, HistoryNext
  PROVE  PassedChecks'
<1> USE DEF BytesInv, LibraryInvariant
<1>1. LocalNext /\ [LocalNext]_localVars
  BY DEF HistoryNext
<1>2. ASSUME NEW c \in Confirmation, ConfirmationStep(c), NEW a \in Asset PROVE ~Overwritten(a)
  BY <1>2, ConfirmationFrame DEF Overwritten
<1>3. ASSUME NEW c \in Confirmation, c \notin outdated', NEW a \in Asset, a = confirm'[c].asset,
             Looked(c)', row'[a] # "deleted"
      PROVE  /\ Intact(a, Signed)'
             /\ confirm'[c].check # "decode" => Intact(a, ValidFor(a))'
  <2>1. row[a] # "deleted"
    BY <1>1, <1>3, RowsStep
  <2>2. confirm[c].asset = a
    BY <1>1, <1>3, ConfirmationSees, OthersConfirm DEF Looked
  <2>3. Looked(c) => c \notin outdated /\ ~Overwritten(a)
    BY <1>3, <2>2 DEF HistoryNext, Outdates
  <2>4. ~Overwritten(a) /\ Intact(a, Signed)
        /\ (confirm'[c].check # "decode" => Intact(a, ValidFor(a)))
    <3>1. CASE Looked(c) /\ ConfirmationStep(c)
      BY <1>3, <2>1, <2>3, <3>1, ConfirmationFinds
    <3>2. CASE Looked(c) /\ ~ConfirmationStep(c)
      <4>1. confirm'[c] = confirm[c]
        BY <1>1, <1>3, <3>2, OthersConfirm DEF Looked
      <4> QED BY <2>1, <2>2, <2>3, <3>2, <4>1 DEF PassedChecks
    <3>3. CASE ~Looked(c)
      <4>1. ConfirmationStep(c)
        BY <1>1, <1>3, <3>3, OthersConfirm DEF Looked
      <4>2. Inspect(c)
        BY <1>3, <3>3, <4>1
        DEF ConfirmationStep, StartConfirmation, DecodeImage, CheckThumbnail, Publish,
            FailConfirmation, Passed, SetCheck, Looked, LocalTypeOK
      <4>3. files[MainKey(a)] \in Signed
        BY <2>2, <4>2 DEF Inspect
      <4>4. confirm'[c].check # "decode" => ValidFor(a) = Signed
        BY <2>2, <4>2 DEF Inspect, Passed, SetCheck, AfterInspect, ValidFor, LocalTypeOK
      <4> QED BY <1>2, <4>1, <4>3, <4>4, FoundIntact, LocalAssumption
    <3> QED BY <3>1, <3>2, <3>3
  <2>5. ASSUME NEW valid, Intact(a, valid) PROVE Intact(a, valid)'
    BY <1>1, <2>1, <2>4, <2>5, KeepsIntact
  <2>6. ValidFor(a)' = ValidFor(a)
    BY DEF ValidFor
  <2> QED BY <2>4, <2>5, <2>6
<1>4. ASSUME NEW a \in Asset, a \notin replaced', row'[a] = "ready"
      PROVE  Intact(a, ValidFor(a))'
  <2>1. ~Replaces(a)
    BY <1>4 DEF HistoryNext
  <2>2. row[a] # "deleted" /\ Intact(a, ValidFor(a)) /\ ~Overwritten(a)
    <3>1. CASE row[a] = "ready"
      BY <2>1, <3>1 DEF Replaces, PassedChecks
    <3>2. CASE row[a] # "ready"
      <4>1. PICK c \in Confirmation : Publish(c) /\ confirm[c].asset = a /\ row[a] # "deleted"
        BY <1>1, <1>4, <3>2, ReadyByPublish
      <4>2. confirm[c].check = "update" /\ confirm'[c].check = "idle"
        BY <4>1 DEF Publish, SetCheck, LocalTypeOK
      <4>3. c \notin outdated
        BY <2>1, <3>2, <4>1, <4>2 DEF Replaces, Looked
      <4> QED BY <1>2, <4>1, <4>2, <4>3 DEF PassedChecks, Looked, ConfirmationStep
    <3> QED BY <3>1, <3>2
  <2>3. ValidFor(a)' = ValidFor(a)
    BY DEF ValidFor
  <2> QED BY <1>1, <2>2, <2>3, KeepsIntact
<1>5. \A c \in Confirmation : confirm'[c].asset \in Asset
  BY <1>1, StepTyped DEF LocalTypeOK
<1> QED BY <1>3, <1>4, <1>5 DEF PassedChecks

\* Whatever is uploaded, how often and when, the bytes of a ready asset have
\* passed the checks of its format unless they were overwritten after the
\* inspection: failing deletions, crashes, overlapping confirmations and
\* earlier uploads do not break that (LibraryService.complete,
\* upload_local_library_content, stage_delete).
THEOREM PublishedBytesStayValid == HistorySpec => []PublishedBytesAreValid
<1>1. BytesInv /\ [HistoryNext]_historyVars => BytesInv'
  <2>1. ASSUME BytesInv, HistoryNext PROVE BytesInv'
    <3>1. [LocalNext]_localVars
      BY <2>1 DEF HistoryNext
    <3> QED BY <2>1, <3>1, InvariantStep, PassedStep DEF BytesInv
  <2>2. ASSUME BytesInv, UNCHANGED historyVars PROVE BytesInv'
    <3>1. UNCHANGED <<localVars, outdated, replaced>>
      BY <2>2 DEF historyVars
    <3>2. LibraryInvariant'
      BY <2>2, <3>1, InvariantStep DEF BytesInv
    <3>3. PassedChecks'
      BY <2>2, <3>1
      DEF BytesInv, PassedChecks, localVars, Looked, Intact, Exists, ValidFor, MainKey
    <3> QED BY <3>2, <3>3 DEF BytesInv
  <2> QED BY <2>1, <2>2
<1>2. BytesInv => PublishedBytesAreValid
  BY DEF BytesInv, PassedChecks, Intact, PublishedBytesAreValid
<1> QED BY <1>1, <1>2, BytesInit, PTL DEF HistorySpec
===============================================================================
