---------------------------- MODULE LocalLibrary ----------------------------
(***************************************************************************)
(* Upload, confirmation and deletion of library assets over the file       *)
(* system (services/library.py with dev/library_routes.py and              *)
(* dev/library_storage.py).                                                *)
(*                                                                         *)
(* All requests run in one event loop, so what the code does between two   *)
(* awaits is one step: the renames of a deletion are one, the publication  *)
(* of an upload is one, and each check of a confirmation, which runs in a  *)
(* worker thread, is one.                                                  *)
(***************************************************************************)
EXTENDS LibraryRows, Naturals

CONSTANTS
  Content,       \* what a client may PUT: bytes of the declared size
  Signed,        \* those with the header of their format
  Decodable,     \* those that decode as an image
  Upload,        \* PUT requests, each made once
  UploadOf,      \* UploadOf[u]: the asset that upload u addresses
  Confirmation,  \* concurrent POST /complete requests
  MaxCrashes     \* bound on restarts of the backend

None == "none"                \* no object

ASSUME LocalAssumption == /\ None \notin Content
                          /\ Signed \subseteq Content /\ Decodable \subseteq Content
                          /\ UploadOf \in [Upload -> Asset]
                          /\ MaxCrashes \in Nat

VARIABLES
  files,     \* files[k]: the bytes at key k of the library directory
  trash,     \* trash[d][k]: the bytes in the .delete- directory of deletion d
  upload,    \* upload[u]: "idle", "open" or "over"
  confirm,   \* confirm[c]: the asset that c confirms and its next check
  deletion,  \* deletion[d]: its assets and how far it has come
  crashes

localVars == <<row, writer, files, trash, upload, confirm, deletion, crashes>>
requestVars == <<upload, confirm, deletion>>

-----------------------------------------------------------------------------

MainKey(a) == <<a, "main">>
ThumbnailKey(a) == <<a, "thumbnail">>
Key == Asset \X {"main", "thumbnail"}
KeysOf(a) == {MainKey(a)} \cup (IF a \in WithThumbnail THEN {ThumbnailKey(a)} ELSE {})
KeysOfAll(targets) == UNION {KeysOf(a) : a \in targets}

Bytes == Content \cup {None}
NoBytes == [k \in Key |-> None]
Exists(k) == files[k] # None
Trashed(d) == {k \in Key : trash[d][k] # None}

Check == {"inspect", "decode", "thumbnail", "update"}
DeletionStep == {"idle", "selected", "staged", "undone", "interrupted", "committed", "over"}

LockedStep == {"selected", "staged", "undone"}

\* Types, and the lock is released when its deletion ends.
LocalTypeOK ==
  /\ RowsTypeOK
  /\ files \in [Key -> Bytes]
  /\ trash \in [Deletion -> [Key -> Bytes]]
  /\ upload \in [Upload -> {"idle", "open", "over"}]
  /\ confirm \in [Confirmation -> [asset : Asset, check : Check \cup {"idle"}]]
  /\ deletion \in [Deletion -> [targets : SUBSET Asset, step : DeletionStep]]
  /\ crashes \in 0..MaxCrashes
  /\ \A d \in Deletion : writer = d => deletion[d].step \in LockedStep

\* The thumbnail objects are put into the library by others, or not at all.
LocalInit ==
  /\ RowsInit
  /\ \E present \in SUBSET WithThumbnail, c \in Content :
        files = [k \in Key |-> IF \E a \in present : k = ThumbnailKey(a) THEN c ELSE None]
  /\ trash = [d \in Deletion |-> NoBytes]
  /\ upload = [u \in Upload |-> "idle"]
  /\ confirm \in [Confirmation -> [asset : Asset, check : {"idle"}]]
  /\ deletion = [d \in Deletion |-> [targets |-> {}, step |-> "idle"]]
  /\ crashes = 0

-----------------------------------------------------------------------------
(* Creation and upload. *)

CreateAsset(a) == InsertRow(a) /\ UNCHANGED <<files, trash, requestVars, crashes>>

\* The status is read before the body is received and not again.
StartUpload(u) ==
  /\ upload[u] = "idle"
  /\ row[UploadOf[u]] = "pending"
  /\ upload' = [upload EXCEPT ![u] = "open"]
  /\ UNCHANGED <<row, writer, files, trash, confirm, deletion, crashes>>

\* temporary.replace(path): the complete body, or nothing.
FinishUpload(u, c) ==
  /\ upload[u] = "open"
  /\ upload' = [upload EXCEPT ![u] = "over"]
  /\ files' = [files EXCEPT ![MainKey(UploadOf[u])] = c]
  /\ UNCHANGED <<row, writer, trash, confirm, deletion, crashes>>

\* A body of another size, or a connection that breaks.
AbortUpload(u) ==
  /\ upload[u] = "open"
  /\ upload' = [upload EXCEPT ![u] = "over"]
  /\ UNCHANGED <<row, writer, files, trash, confirm, deletion, crashes>>

-----------------------------------------------------------------------------
(* LibraryService.complete: checks of the files, one worker thread each,   *)
(* between the read of the row and its update.                             *)

SetCheck(c, a, check) == confirm' = [confirm EXCEPT ![c] = [asset |-> a, check |-> check]]

AfterDecode(a) == IF a \in WithThumbnail THEN "thumbnail" ELSE "update"
AfterInspect(a) == IF a \in Image THEN "decode" ELSE AfterDecode(a)

Passed(c, next) == /\ SetCheck(c, confirm[c].asset, next)
                   /\ UNCHANGED <<row, writer, files, trash, upload, deletion, crashes>>

StartConfirmation(c, a) ==
  /\ confirm[c].check = "idle"
  /\ row[a] = "pending"
  /\ SetCheck(c, a, "inspect")
  /\ UNCHANGED <<row, writer, files, trash, upload, deletion, crashes>>

Inspect_AnyHeader(c) ==
  /\ confirm[c].check = "inspect"
  /\ Exists(MainKey(confirm[c].asset))
  /\ Passed(c, AfterInspect(confirm[c].asset))

\* finalize_upload of the base class
Inspect(c) ==
  /\ confirm[c].check = "inspect"
  /\ files[MainKey(confirm[c].asset)] \in Signed
  /\ Passed(c, AfterInspect(confirm[c].asset))

DecodeImage(c) ==
  /\ confirm[c].check = "decode"
  /\ files[MainKey(confirm[c].asset)] \in Decodable
  /\ Passed(c, AfterDecode(confirm[c].asset))

CheckThumbnail(c) ==
  /\ confirm[c].check = "thumbnail"
  /\ Exists(ThumbnailKey(confirm[c].asset))
  /\ Passed(c, "update")

Publish(c) ==
  /\ confirm[c].check = "update"
  /\ MarkReady(confirm[c].asset)
  /\ SetCheck(c, confirm[c].asset, "idle")
  /\ UNCHANGED <<files, trash, upload, deletion, crashes>>

\* A failed check, a locked database, or a row that is no longer there.
FailConfirmation(c) ==
  /\ confirm[c].check # "idle"
  /\ Passed(c, "idle")

-----------------------------------------------------------------------------
(* LibraryService.delete_many around stage_delete.                         *)

SetStep(d, step) == deletion' = [deletion EXCEPT ![d].step = step]

StartDeletion(d, targets) ==
  /\ deletion[d].step = "idle"
  /\ targets # {}
  /\ BeginDeletion(d, targets)
  /\ deletion' = [deletion EXCEPT ![d] = [targets |-> targets, step |-> "selected"]]
  /\ UNCHANGED <<files, trash, upload, confirm, crashes>>

\* An asset is the image of a queued job (see GenerationJobs!DeleteImage).
RefuseDeletion(d) ==
  /\ deletion[d].step = "selected"
  /\ Rollback
  /\ SetStep(d, "over")
  /\ UNCHANGED <<files, trash, upload, confirm, crashes>>

\* Move the files at these keys into the directory of d.
MoveToTrash(d, keys) ==
  /\ trash' = [trash EXCEPT ![d] = [k \in Key |-> IF k \in keys THEN files[k] ELSE None]]
  /\ files' = [k \in Key |-> IF k \in keys THEN None ELSE files[k]]

StageFiles(d) ==
  /\ deletion[d].step = "selected"
  /\ MoveToTrash(d, {k \in KeysOfAll(deletion[d].targets) : Exists(k)})
  /\ SetStep(d, "staged")
  /\ UNCHANGED <<row, writer, upload, confirm, crashes>>

\* A rename fails; the files moved before it are moved back, unless that
\* fails as well and keeps some of them in the directory.
FailStaging(d, kept) ==
  /\ deletion[d].step = "selected"
  /\ kept \subseteq {k \in KeysOfAll(deletion[d].targets) : Exists(k)}
  /\ MoveToTrash(d, kept)
  /\ SetStep(d, "undone")
  /\ UNCHANGED <<row, writer, upload, confirm, crashes>>

\* The bytes in the directory go back to their keys, except those kept.
Restore_Clears(d, kept) ==
  /\ files' = [k \in Key |-> IF k \in Trashed(d) \ kept THEN trash[d][k] ELSE files[k]]
  /\ trash' = [trash EXCEPT ![d] = NoBytes]

Restore(d, kept) ==
  /\ files' = [k \in Key |-> IF k \in Trashed(d) \ kept THEN trash[d][k] ELSE files[k]]
  /\ trash' = [trash EXCEPT ![d] = [k \in Key |-> IF k \in kept THEN @[k] ELSE None]]

\* An exception in a statement or in the commit: surviving children, a lock,
\* a cancelled request.  stage_delete restores before the session rolls back.
RestoreFiles(d, kept) ==
  /\ deletion[d].step \in {"staged", "interrupted"}
  /\ kept \subseteq Trashed(d)
  /\ Restore(d, kept)
  /\ SetStep(d, IF deletion[d].step = "staged" THEN "undone" ELSE "over")
  /\ UNCHANGED <<row, writer, upload, confirm, crashes>>

RollbackDeletion(d) ==
  /\ deletion[d].step = "undone"
  /\ Rollback
  /\ SetStep(d, "over")
  /\ UNCHANGED <<files, trash, upload, confirm, crashes>>

Commit(d) ==
  /\ deletion[d].step = "staged"
  /\ CommitDeletion(deletion[d].targets)
  /\ SetStep(d, "committed")
  /\ UNCHANGED <<files, trash, upload, confirm, crashes>>

\* The database thread commits, but the request that awaits it is cancelled.
InterruptCommit(d) ==
  /\ deletion[d].step = "staged"
  /\ CommitDeletion(deletion[d].targets)
  /\ SetStep(d, "interrupted")
  /\ UNCHANGED <<files, trash, upload, confirm, crashes>>

\* rmtree removes the directory, or fails and is logged.
EmptyTrash(d) ==
  /\ deletion[d].step = "committed"
  /\ trash' \in {trash, [trash EXCEPT ![d] = NoBytes]}
  /\ SetStep(d, "over")
  /\ UNCHANGED <<row, writer, files, upload, confirm, crashes>>

-----------------------------------------------------------------------------

\* The process stops: SQLite rolls back, nothing looks at old directories.
\* A stop between two renames leaves what FailStaging or RestoreFiles leaves.
Crash ==
  /\ crashes < MaxCrashes
  /\ crashes' = crashes + 1
  /\ writer' = Unlocked
  /\ upload' = [u \in Upload |-> IF upload[u] = "open" THEN "over" ELSE upload[u]]
  /\ confirm' = [c \in Confirmation |-> [confirm[c] EXCEPT !.check = "idle"]]
  /\ deletion' = [d \in Deletion |->
       IF deletion[d].step = "idle" THEN deletion[d] ELSE [deletion[d] EXCEPT !.step = "over"]]
  /\ UNCHANGED <<row, files, trash>>

UploadStep(u) == StartUpload(u) \/ AbortUpload(u) \/ \E c \in Content : FinishUpload(u, c)

ConfirmationStep(c) ==
  \/ \E a \in Asset : StartConfirmation(c, a)
  \/ Inspect(c) \/ DecodeImage(c) \/ CheckThumbnail(c) \/ Publish(c) \/ FailConfirmation(c)

DeletionAction(d) ==
  \/ \E targets \in SUBSET Asset : StartDeletion(d, targets)
  \/ RefuseDeletion(d) \/ StageFiles(d)
  \/ \E kept \in SUBSET Key : FailStaging(d, kept) \/ RestoreFiles(d, kept)
  \/ RollbackDeletion(d) \/ Commit(d) \/ InterruptCommit(d) \/ EmptyTrash(d)

LocalNext == \/ \E a \in Asset : CreateAsset(a)
             \/ \E u \in Upload : UploadStep(u)
             \/ \E c \in Confirmation : ConfirmationStep(c)
             \/ \E d \in Deletion : DeletionAction(d)
             \/ Crash

LocalSpec == LocalInit /\ [][LocalNext]_localVars

-----------------------------------------------------------------------------
(* Why a ready asset keeps its bytes: the inductive invariant of the proofs. *)

\* The bytes of a key are at the key or in the directory of some deletion.
Stored(k) == Exists(k) \/ \E d \in Deletion : k \in Trashed(d)
StoredAssets == {a \in Asset : \A k \in KeysOf(a) : Stored(k)}

LockHeld == \A d \in Deletion : deletion[d].step \in LockedStep => writer = d

\* The rows that a deletion has selected are there until it commits.
SelectionHolds ==
  \A d \in Deletion : \A a \in deletion[d].targets :
     /\ deletion[d].step \in LockedStep => Present(a)
     /\ deletion[d].step \in {"interrupted", "committed"} => row[a] = "deleted"

TrashBelongs ==
  \A d \in Deletion :
     /\ Trashed(d) \subseteq KeysOfAll(deletion[d].targets)
     /\ deletion[d].step \in {"idle", "selected"} => Trashed(d) = {}

\* What a confirmation has seen stays somewhere while the row exists.
ChecksHold ==
  \A c \in Confirmation :
     LET a == confirm[c].asset IN
     row[a] # "deleted" =>
       /\ confirm[c].check \in {"decode", "thumbnail", "update"} => Stored(MainKey(a))
       /\ confirm[c].check = "update" /\ a \in WithThumbnail => Stored(ThumbnailKey(a))

ReadyIsStored == \A a \in Asset : row[a] = "ready" => a \in StoredAssets

LibraryInvariant == /\ LocalTypeOK /\ LockHeld /\ SelectionHolds
                    /\ TrashBelongs /\ ChecksHold /\ ReadyIsStored

-----------------------------------------------------------------------------
(* Properties. *)

AsAsset == INSTANCE AssetLifecycle WITH status <- row, stored <- StoredAssets

\* delete_many, complete and their failures implement the abstract library:
\* in particular a ready asset has all its bytes at their keys or, after a
\* deletion that could neither finish nor restore, in a directory kept for
\* recovery, and a confirmation never brings a deleted row back.
LocalLifecycle == AsAsset!Spec

\* The lock of BEGIN IMMEDIATE keeps deletions apart: once an asset is
\* deleted its files come back only through an upload under way at that time
\* or through the very deletion whose commit was interrupted.
Reappears(k) == ~Exists(k) /\ files'[k] # None
DeletedFilesStayAway ==
  [][\A a \in Asset : \A k \in KeysOf(a) :
        row[a] = "deleted" /\ Reappears(k)
          => \/ \E u \in Upload : upload[u] = "open" /\ UploadOf[u] = a
             \/ \E d \in Deletion :
                  deletion[d].step = "interrupted" /\ a \in deletion[d].targets]_localVars

\* "Upload has already been completed": the bytes of a confirmed asset are
\* not replaced.
PublishedBytesAreFinal ==
  [][\A a \in Asset : row[a] = "ready" /\ row'[a] = "ready" /\ Exists(MainKey(a))
        => files'[MainKey(a)] \in {files[MainKey(a)], None}]_localVars
=============================================================================
