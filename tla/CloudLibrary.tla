---------------------------- MODULE CloudLibrary ----------------------------
(***************************************************************************)
(* Upload, confirmation and deletion of library assets over S3             *)
(* (services/library.py with aws/library_storage.py).                      *)
(*                                                                         *)
(* The bucket is outside of the process: browsers PUT to a signed URL      *)
(* under _uploads/ whenever they like while the URL is valid, and every    *)
(* call of the SDK is a step of its own, made in a worker thread.  Objects *)
(* are compared by their ETag, which is their content.                     *)
(***************************************************************************)
EXTENDS LibraryRows, Naturals

CONSTANTS
  Content,       \* what a client may PUT
  Signed,        \* the objects of the declared size with the header of their format
  Decodable,     \* those that decode as an image
  Confirmation,  \* concurrent POST /complete requests
  MaxCrashes     \* bound on restarts of the backend

None == "none"                \* no object

ASSUME CloudAssumption == /\ None \notin Content
                          /\ Signed \subseteq Content /\ Decodable \subseteq Content
                          /\ MaxCrashes \in Nat

VARIABLES
  bucket,    \* bucket[o]: the content of object o
  backup,    \* backup[d][o]: the copy of o under _delete/<operation of d>/
  confirm,   \* confirm[c]: asset, next call, ETag inspected
  deletion,  \* deletion[d]: assets, next call, objects to look at, source to remove
  crashes

vars == <<row, writer, bucket, backup, confirm, deletion, crashes>>

-----------------------------------------------------------------------------

\* _uploads/<id>.<format>, <id>.<format>, and the thumbnail_key
Pending(a) == <<a, "pending">>
Final(a) == <<a, "final">>
Thumbnail(a) == <<a, "thumbnail">>
Object == Asset \X {"pending", "final", "thumbnail"}

\* What delete_many hands to stage_delete, each key with and without _uploads/.
ObjectsOf(a) == {Final(a), Pending(a)} \cup (IF a \in WithThumbnail THEN {Thumbnail(a)} ELSE {})
ObjectsOfAll(targets) == UNION {ObjectsOf(a) : a \in targets}

Bytes == Content \cup {None}
NoBackup == [o \in Object |-> None]
Exists(o) == bucket[o] # None
BackedUp(d) == {o \in Object : backup[d][o] # None}

Call == {"idle", "inspect", "copy", "discard", "decode", "thumbnail", "update"}
DeletionStep == {"idle", "selected", "staging", "removing", "restoring", "undone",
                 "interrupted", "committed", "over"}

LockedStep == {"selected", "staging", "removing", "restoring", "undone"}

\* Types, and the lock is released when its deletion ends.
CloudTypeOK ==
  /\ RowsTypeOK
  /\ bucket \in [Object -> Bytes]
  /\ backup \in [Deletion -> [Object -> Bytes]]
  /\ confirm \in [Confirmation -> [asset : Asset \cup {None}, call : Call, etag : Bytes]]
  /\ deletion \in [Deletion -> [targets : SUBSET Asset, step : DeletionStep,
                                todo : SUBSET Object, current : SUBSET Object]]
  /\ crashes \in 0..MaxCrashes
  /\ \A d \in Deletion : writer = d => deletion[d].step \in LockedStep

IdleConfirmation == [asset |-> None, call |-> "idle", etag |-> None]
IdleDeletion == [targets |-> {}, step |-> "idle", todo |-> {}, current |-> {}]

CloudInit ==
  /\ RowsInit
  /\ \E present \in SUBSET WithThumbnail, c \in Content :
        bucket = [o \in Object |-> IF \E a \in present : o = Thumbnail(a) THEN c ELSE None]
  /\ backup = [d \in Deletion |-> NoBackup]
  /\ confirm = [c \in Confirmation |-> IdleConfirmation]
  /\ deletion = [d \in Deletion |-> IdleDeletion]
  /\ crashes = 0

Create(a) == InsertRow(a) /\ UNCHANGED <<bucket, backup, confirm, deletion, crashes>>

\* A browser uses the URL that POST /library/uploads returned, once or more.
Put(a, c) ==
  /\ row[a] # "absent"
  /\ bucket' = [bucket EXCEPT ![Pending(a)] = c]
  /\ UNCHANGED <<row, writer, backup, confirm, deletion, crashes>>

-----------------------------------------------------------------------------
(* LibraryService.complete around finalize_upload.                         *)

At(c, call) == confirm[c].call = call
AssetOf(c) == confirm[c].asset

AfterDecode(a) == IF a \in WithThumbnail THEN "thumbnail" ELSE "update"
AfterFinalize(a) == IF a \in Image THEN "decode" ELSE AfterDecode(a)

Proceed(c, call) == confirm' = [confirm EXCEPT ![c].call = call]

StartConfirmation_Again(c, a) ==
  /\ At(c, "idle")
  /\ Present(a)
  /\ confirm' = [confirm EXCEPT ![c] = [asset |-> a, call |-> "inspect", etag |-> None]]
  /\ UNCHANGED <<row, writer, bucket, backup, deletion, crashes>>

StartConfirmation(c, a) ==
  /\ At(c, "idle")
  /\ row[a] = "pending"
  /\ confirm' = [confirm EXCEPT ![c] = [asset |-> a, call |-> "inspect", etag |-> None]]
  /\ UNCHANGED <<row, writer, bucket, backup, deletion, crashes>>

\* HeadObject and a ranged GetObject that insists on the same ETag.
InspectPending(c) ==
  LET found == bucket[Pending(AssetOf(c))] IN
  /\ At(c, "inspect")
  /\ found \in Signed
  /\ confirm' = [confirm EXCEPT ![c].call = "copy", ![c].etag = found]
  /\ UNCHANGED <<row, writer, bucket, backup, deletion, crashes>>

\* No pending object: an earlier attempt may have copied it and failed later.
InspectFinal(c) ==
  /\ At(c, "inspect")
  /\ ~Exists(Pending(AssetOf(c)))
  /\ bucket[Final(AssetOf(c))] \in Signed
  /\ Proceed(c, AfterFinalize(AssetOf(c)))
  /\ UNCHANGED <<row, writer, bucket, backup, deletion, crashes>>

CopyUpload_AnyETag(c) ==
  /\ At(c, "copy")
  /\ Exists(Pending(AssetOf(c)))
  /\ bucket' = [bucket EXCEPT ![Final(AssetOf(c))] = bucket[Pending(AssetOf(c))]]
  /\ Proceed(c, "discard")
  /\ UNCHANGED <<row, writer, backup, deletion, crashes>>

\* CopyObject with CopySourceIfMatch.
CopyUpload(c) ==
  /\ At(c, "copy")
  /\ bucket[Pending(AssetOf(c))] = confirm[c].etag
  /\ bucket' = [bucket EXCEPT ![Final(AssetOf(c))] = confirm[c].etag]
  /\ Proceed(c, "discard")
  /\ UNCHANGED <<row, writer, backup, deletion, crashes>>

DiscardUpload(c) ==
  /\ At(c, "discard")
  /\ bucket' = [bucket EXCEPT ![Pending(AssetOf(c))] = None]
  /\ Proceed(c, AfterFinalize(AssetOf(c)))
  /\ UNCHANGED <<row, writer, backup, deletion, crashes>>

DecodeImage(c) ==
  /\ At(c, "decode")
  /\ bucket[Final(AssetOf(c))] \in Decodable
  /\ Proceed(c, AfterDecode(AssetOf(c)))
  /\ UNCHANGED <<row, writer, bucket, backup, deletion, crashes>>

CheckThumbnail(c) ==
  /\ At(c, "thumbnail")
  /\ Exists(Thumbnail(AssetOf(c)))
  /\ Proceed(c, "update")
  /\ UNCHANGED <<row, writer, bucket, backup, deletion, crashes>>

Publish(c) ==
  /\ At(c, "update")
  /\ MarkReady(AssetOf(c))
  /\ confirm' = [confirm EXCEPT ![c] = IdleConfirmation]
  /\ UNCHANGED <<bucket, backup, deletion, crashes>>

\* A failed check or call, a locked database, or a row that is gone.
FailConfirmation(c) ==
  /\ ~At(c, "idle")
  /\ confirm' = [confirm EXCEPT ![c] = IdleConfirmation]
  /\ UNCHANGED <<row, writer, bucket, backup, deletion, crashes>>

-----------------------------------------------------------------------------
(* LibraryService.delete_many around stage_delete.                         *)

InStep(d, step) == deletion[d].step = step
SetStep(d, step) == deletion' = [deletion EXCEPT ![d].step = step]

StartDeletion(d, targets) ==
  /\ InStep(d, "idle")
  /\ targets # {}
  /\ BeginDeletion(d, targets)
  /\ deletion' = [deletion EXCEPT ![d] = [targets |-> targets, step |-> "selected",
                                          todo |-> ObjectsOfAll(targets), current |-> {}]]
  /\ UNCHANGED <<bucket, backup, confirm, crashes>>

\* An asset is the image of a queued job (see GenerationJobs!DeleteImage).
RefuseDeletion(d) ==
  /\ InStep(d, "selected")
  /\ Rollback
  /\ SetStep(d, "over")
  /\ UNCHANGED <<bucket, backup, confirm, crashes>>

BeginStaging(d) ==
  /\ InStep(d, "selected")
  /\ SetStep(d, "staging")
  /\ UNCHANGED <<row, writer, bucket, backup, confirm, crashes>>

\* The next object: the keys in some order, of each the final object first.
Upcoming(d, o) == /\ InStep(d, "staging")
                     /\ o \in deletion[d].todo
                     /\ \A a \in Asset : o = Pending(a) => Final(a) \notin deletion[d].todo

SkipMissing(d, o) ==
  /\ Upcoming(d, o)
  /\ ~Exists(o)
  /\ deletion' = [deletion EXCEPT ![d].todo = @ \ {o}]
  /\ UNCHANGED <<row, writer, bucket, backup, confirm, crashes>>

\* HeadObject, then CopyObject if the ETag is still the same.
CopyToBackup(d, o) ==
  /\ Upcoming(d, o)
  /\ Exists(o)
  /\ backup' = [backup EXCEPT ![d][o] = bucket[o]]
  /\ deletion' = [deletion EXCEPT ![d].todo = @ \ {o}, ![d].current = {o}, ![d].step = "removing"]
  /\ UNCHANGED <<row, writer, bucket, confirm, crashes>>

RemoveSource(d) ==
  /\ InStep(d, "removing")
  /\ bucket' = [o \in Object |-> IF o \in deletion[d].current THEN None ELSE bucket[o]]
  /\ deletion' = [deletion EXCEPT ![d].current = {}, ![d].step = "staging"]
  /\ UNCHANGED <<row, writer, backup, confirm, crashes>>

\* A call fails while staging, or a statement or the commit after it.
FailDeletion(d) ==
  /\ deletion[d].step \in {"staging", "removing"}
  /\ deletion' = [deletion EXCEPT ![d].step = "restoring", ![d].todo = BackedUp(d),
                                  ![d].current = {}]
  /\ UNCHANGED <<row, writer, bucket, backup, confirm, crashes>>

Staged(d) == InStep(d, "staging") /\ deletion[d].todo = {}

Commit(d) ==
  /\ Staged(d)
  /\ CommitDeletion(deletion[d].targets)
  /\ SetStep(d, "committed")
  /\ UNCHANGED <<bucket, backup, confirm, crashes>>

\* The database thread commits, but the request that awaits it is cancelled.
InterruptCommit(d) ==
  /\ Staged(d)
  /\ CommitDeletion(deletion[d].targets)
  /\ deletion' = [deletion EXCEPT ![d].step = "interrupted", ![d].todo = BackedUp(d)]
  /\ UNCHANGED <<bucket, backup, confirm, crashes>>

RestoreObject(d, o) ==
  /\ deletion[d].step \in {"restoring", "interrupted"}
  /\ o \in deletion[d].todo
  /\ bucket' = [bucket EXCEPT ![o] = backup[d][o]]
  /\ deletion' = [deletion EXCEPT ![d].todo = @ \ {o}]
  /\ UNCHANGED <<row, writer, backup, confirm, crashes>>

AfterRestore(d) == IF InStep(d, "restoring") THEN "undone" ELSE "over"

\* A copy fails: the backups stay for an operator.
FailRestore(d) ==
  /\ deletion[d].step \in {"restoring", "interrupted"}
  /\ deletion[d].todo # {}
  /\ deletion' = [deletion EXCEPT ![d].step = AfterRestore(d), ![d].todo = {}]
  /\ UNCHANGED <<row, writer, bucket, backup, confirm, crashes>>

\* The backups are deleted, or some of them when a call fails.
RemoveBackups(d) ==
  \E left \in SUBSET BackedUp(d) :
     backup' = [backup EXCEPT ![d] = [o \in Object |-> IF o \in left THEN @[o] ELSE None]]

FinishRestore_Early(d) ==
  /\ deletion[d].step \in {"restoring", "interrupted"}
  /\ RemoveBackups(d)
  /\ deletion' = [deletion EXCEPT ![d].step = AfterRestore(d), ![d].todo = {}]
  /\ UNCHANGED <<row, writer, bucket, confirm, crashes>>

FinishRestore(d) ==
  /\ deletion[d].step \in {"restoring", "interrupted"}
  /\ deletion[d].todo = {}
  /\ RemoveBackups(d)
  /\ SetStep(d, AfterRestore(d))
  /\ UNCHANGED <<row, writer, bucket, confirm, crashes>>

RollbackDeletion(d) ==
  /\ InStep(d, "undone")
  /\ Rollback
  /\ SetStep(d, "over")
  /\ UNCHANGED <<bucket, backup, confirm, crashes>>

FinishDeletion(d) ==
  /\ InStep(d, "committed")
  /\ RemoveBackups(d)
  /\ SetStep(d, "over")
  /\ UNCHANGED <<row, writer, bucket, confirm, crashes>>

-----------------------------------------------------------------------------

\* The process stops: SQLite rolls back, nothing looks at old backups.
Crash ==
  /\ crashes < MaxCrashes
  /\ crashes' = crashes + 1
  /\ writer' = Unlocked
  /\ confirm' = [c \in Confirmation |-> IdleConfirmation]
  /\ deletion' = [d \in Deletion |->
       IF InStep(d, "idle") THEN deletion[d] ELSE [IdleDeletion EXCEPT !.step = "over"]]
  /\ UNCHANGED <<row, bucket, backup>>

ConfirmationStep(c) ==
  \/ \E a \in Asset : StartConfirmation(c, a)
  \/ InspectPending(c) \/ InspectFinal(c) \/ CopyUpload(c) \/ DiscardUpload(c)
  \/ DecodeImage(c) \/ CheckThumbnail(c) \/ Publish(c) \/ FailConfirmation(c)

DeletionAction(d) ==
  \/ \E targets \in SUBSET Asset : StartDeletion(d, targets)
  \/ RefuseDeletion(d) \/ BeginStaging(d)
  \/ \E o \in Object : SkipMissing(d, o) \/ CopyToBackup(d, o) \/ RestoreObject(d, o)
  \/ RemoveSource(d) \/ FailDeletion(d) \/ Commit(d) \/ InterruptCommit(d)
  \/ FailRestore(d) \/ FinishRestore(d) \/ RollbackDeletion(d) \/ FinishDeletion(d)

Next == \/ \E a \in Asset : Create(a) \/ \E c \in Content : Put(a, c)
        \/ \E c \in Confirmation : ConfirmationStep(c)
        \/ \E d \in Deletion : DeletionAction(d)
        \/ Crash

Spec == CloudInit /\ [][Next]_vars

\* The confirmations of an asset come one after the other, as one browser sends them.
OneAtATime ==
  \A c, e \in Confirmation :
     c # e /\ ~At(c, "idle") /\ ~At(e, "idle") => AssetOf(c) # AssetOf(e)

SerialSpec == CloudInit /\ [][Next /\ OneAtATime']_vars

-----------------------------------------------------------------------------
(* Properties. *)

\* An object is at its key or among the backups of some deletion.
Stored(o) == Exists(o) \/ \E d \in Deletion : o \in BackedUp(d)
StoredAssets == {a \in Asset : \A o \in ObjectsOf(a) \ {Pending(a)} : Stored(o)}

Lifecycle == INSTANCE AssetLifecycle WITH status <- row, stored <- StoredAssets

\* The same abstract library as over the file system, although every copy and
\* removal is a call of its own that may fail or be the last: the object of a
\* ready asset is in place or under _delete/ "for manual recovery".
ImplementsLifecycle == Lifecycle!Spec

\* CopySourceIfMatch: whatever browsers PUT meanwhile, a confirmed object
\* has the size and the header that were inspected.
PublishedObjectsAreSigned ==
  \A a \in Asset : row[a] = "ready" /\ Exists(Final(a)) => bucket[Final(a)] \in Signed

ObjectsStayFinal ==
  \A a \in Asset : row[a] = "ready" /\ row'[a] = "ready" /\ Exists(Final(a))
        => bucket'[Final(a)] \in {bucket[Final(a)], None}

\* "An old upload URL cannot overwrite the confirmed file."
PublishedObjectsAreFinal == [][ObjectsStayFinal]_vars

\* Images are "fully decoded before publication".
PublishedImagesDecode ==
  \A a \in Image : row[a] = "ready" /\ Exists(Final(a)) => bucket[Final(a)] \in Decodable
=============================================================================
