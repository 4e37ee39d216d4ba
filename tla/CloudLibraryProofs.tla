-------------------------- MODULE CloudLibraryProofs --------------------------
(***************************************************************************)
(* Theorems about CloudLibrary for every number of assets, confirmations,  *)
(* deletions and crashes, and for browsers that PUT as often as they like. *)
(***************************************************************************)
EXTENDS CloudLibrary, TLAPS

(* A confirmation under way has an asset, and what it copies is inspected. *)
CallsFit ==
  \A c \in Confirmation :
     /\ confirm[c].call # "idle" => confirm[c].asset \in Asset
     /\ confirm[c].call = "copy" => confirm[c].etag \in Signed

LockHeld == \A d \in Deletion : deletion[d].step \in LockedStep => writer = d

\* The rows that a deletion has selected are there until it commits.
SelectionHolds ==
  \A d \in Deletion : \A a \in deletion[d].targets :
     /\ deletion[d].step \in LockedStep => Present(a)
     /\ deletion[d].step \in {"committed", "interrupted"} => row[a] = "deleted"

\* Backups are of the selected assets until the deletion ends.
BackupsBelong ==
  \A d \in Deletion :
     /\ deletion[d].step # "over" => BackedUp(d) \subseteq ObjectsOfAll(deletion[d].targets)
     /\ deletion[d].step \in {"idle", "selected"} => BackedUp(d) = {}
     /\ deletion[d].step \in {"selected", "staging", "removing"} =>
          deletion[d].todo \subseteq ObjectsOfAll(deletion[d].targets)

\* What is removed has its backup, what is restored is back at its key.
StagingFits ==
  \A d \in Deletion :
     /\ deletion[d].step = "removing" => deletion[d].current \subseteq BackedUp(d)
     /\ deletion[d].step \in {"restoring", "interrupted"} => deletion[d].todo \subseteq BackedUp(d)
     /\ deletion[d].step = "restoring" =>
          \A a \in Asset : \A o \in (BackedUp(d) \ deletion[d].todo) \cap {Final(a), Thumbnail(a)} :
             Exists(o)

\* The objects that a ready asset needs.
Needed(a) == ObjectsOf(a) \ {Pending(a)}

\* What a confirmation has seen stays somewhere while the row exists.
ChecksHold ==
  \A c \in Confirmation : confirm[c].call # "idle" =>
     LET a == confirm[c].asset IN
     row[a] # "deleted" =>
       /\ confirm[c].call \in {"discard", "decode", "thumbnail", "update"} => Stored(Final(a))
       /\ confirm[c].call = "update" /\ a \in WithThumbnail => Stored(Thumbnail(a))

ReadyIsStored == \A a \in Asset : row[a] = "ready" => a \in StoredAssets

\* Whatever is or was at a final key has been inspected.
FinalsAreSigned ==
  \A a \in Asset : /\ bucket[Final(a)] \in Signed \cup {None}
                   /\ \A d \in Deletion : backup[d][Final(a)] \in Signed \cup {None}

CloudInvariant == /\ CloudTypeOK /\ CallsFit /\ LockHeld /\ SelectionHolds
                  /\ BackupsBelong /\ StagingFits /\ ChecksHold /\ ReadyIsStored

-----------------------------------------------------------------------------

\* The objects of an asset are objects, and no other asset has them.
LEMMA ObjectFacts ==
  /\ \A a \in Asset : /\ Final(a) \in Object /\ Pending(a) \in Object /\ Thumbnail(a) \in Object
                      /\ Final(a) # Pending(a) /\ Thumbnail(a) # Pending(a)
                      /\ ObjectsOf(a) \subseteq Object
                      /\ Needed(a) = {Final(a)} \cup
                                     (IF a \in WithThumbnail THEN {Thumbnail(a)} ELSE {})
  /\ \A a, b \in Asset : /\ Final(a) # Pending(b) /\ Thumbnail(a) # Pending(b)
                         /\ Final(a) = Final(b) => a = b
  /\ \A a, b \in Asset : ObjectsOf(a) \cap ObjectsOf(b) # {} => a = b
BY DEF ObjectsOf, Needed, Object, Final, Pending, Thumbnail

LEMMA InitTyped == CloudInit => CloudTypeOK
BY CloudAssumption, RowsAssumption
DEF CloudInit, RowsInit, CloudTypeOK, RowsTypeOK, Bytes, NoBackup, LockedStep, DeletionStep,
    IdleConfirmation, IdleDeletion, Call

(* A confirmation changes its own record, the bucket, and the row when it  *)
(* publishes.                                                              *)
LEMMA ConfirmationFrame ==
  ASSUME CloudTypeOK, CallsFit, NEW c \in Confirmation, ConfirmationStep(c)
  PROVE  /\ UNCHANGED <<writer, backup, deletion, crashes>>
         /\ UNCHANGED row \/ Publish(c)
         /\ \E r \in [asset : Asset \cup {None}, call : Call, etag : Bytes] :
              /\ confirm' = [confirm EXCEPT ![c] = r]
              /\ r.call # "idle" => r.asset \in Asset
              /\ r.call = "copy" => r.etag \in Signed
<1> USE DEF CloudTypeOK, CallsFit
<1> DEFINE Records == [asset : Asset \cup {None}, call : Call, etag : Bytes]
           Good(r) == /\ r \in Records
                      /\ r.call # "idle" => r.asset \in Asset
                      /\ r.call = "copy" => r.etag \in Signed
           Frame == UNCHANGED <<writer, backup, deletion, crashes>>
<1>1. ASSUME NEW a \in Asset, StartConfirmation(c, a)
      PROVE  Frame /\ UNCHANGED row /\ \E r : Good(r) /\ confirm' = [confirm EXCEPT ![c] = r]
  <2>1. Good([asset |-> a, call |-> "inspect", etag |-> None])
    BY DEF Call, Bytes
  <2>2. /\ confirm' = [confirm EXCEPT ![c] = [asset |-> a, call |-> "inspect", etag |-> None]]
        /\ Frame /\ UNCHANGED row
    BY <1>1 DEF StartConfirmation
  <2> HIDE DEF Good, Frame
  <2> QED BY <2>1, <2>2
<1>2. CASE InspectPending(c)
  <2>0. confirm[c].call = "inspect" /\ confirm[c] \in Records /\ confirm[c].asset \in Asset
        /\ bucket[Pending(AssetOf(c))] \in Signed
    BY <1>2 DEF InspectPending, At
  <2>1. Good([confirm[c] EXCEPT !.call = "copy", !.etag = bucket[Pending(AssetOf(c))]])
    BY <2>0, CloudAssumption DEF Call, Bytes
  <2>2. confirm' = [confirm EXCEPT ![c] = [confirm[c] EXCEPT !.call = "copy",
                                             !.etag = bucket[Pending(AssetOf(c))]]]
    BY <1>2 DEF InspectPending
  <2> QED BY <1>2, <2>1, <2>2 DEF InspectPending
<1>3. ASSUME NEW next \in Call \ {"copy"}, Proceed(c, next), confirm[c].call # "idle"
      PROVE  \E r : Good(r) /\ confirm' = [confirm EXCEPT ![c] = r]
  <2>1. Good([confirm[c] EXCEPT !.call = next])
    BY <1>3
  <2>2. confirm' = [confirm EXCEPT ![c] = [confirm[c] EXCEPT !.call = next]]
    BY <1>3 DEF Proceed
  <2> QED BY <2>1, <2>2
<1>4. CASE InspectFinal(c) \/ CopyUpload(c) \/ DiscardUpload(c) \/ DecodeImage(c) \/ CheckThumbnail(c)
  <2>1. confirm[c].call # "idle" /\ Frame /\ UNCHANGED row
    BY <1>4 DEF InspectFinal, CopyUpload, DiscardUpload, DecodeImage, CheckThumbnail, At
  <2>2. \E next \in Call \ {"copy"} : Proceed(c, next)
    BY <1>4 DEF InspectFinal, CopyUpload, DiscardUpload, DecodeImage, CheckThumbnail,
                AfterFinalize, AfterDecode, Call
  <2> QED BY <1>3, <2>1, <2>2
<1>5. CASE Publish(c) \/ FailConfirmation(c)
  <2>1. Good(IdleConfirmation)
    BY DEF IdleConfirmation, Call, Bytes
  <2> QED BY <1>5, <2>1 DEF Publish, MarkReady, FailConfirmation
<1> QED BY <1>1, <1>2, <1>4, <1>5 DEF ConfirmationStep

\* What a confirmation does to the bucket.
LEMMA ConfirmationBucket ==
  ASSUME CloudTypeOK, CallsFit, NEW c \in Confirmation, ConfirmationStep(c)
  PROVE  \/ UNCHANGED bucket
         \/ /\ confirm[c].call = "copy" /\ confirm[c].asset \in Asset /\ confirm[c].etag \in Signed
            /\ bucket' = [bucket EXCEPT ![Final(confirm[c].asset)] = confirm[c].etag]
         \/ /\ confirm[c].call = "discard" /\ confirm[c].asset \in Asset
            /\ bucket' = [bucket EXCEPT ![Pending(confirm[c].asset)] = None]
<1>1. CASE CopyUpload(c)
  BY <1>1 DEF CopyUpload, At, AssetOf, CallsFit
<1>2. CASE DiscardUpload(c)
  BY <1>2 DEF DiscardUpload, At, AssetOf, CallsFit
<1>3. CASE ~CopyUpload(c) /\ ~DiscardUpload(c)
  BY <1>3 DEF ConfirmationStep, StartConfirmation, InspectPending, InspectFinal, DecodeImage,
              CheckThumbnail, Publish, FailConfirmation
<1> QED BY <1>1, <1>2, <1>3

LEMMA ConfirmationTyped ==
  ASSUME CloudTypeOK, CallsFit, NEW c \in Confirmation, ConfirmationStep(c)
  PROVE  CloudTypeOK' /\ CallsFit'
<1>1. PICK r \in [asset : Asset \cup {None}, call : Call, etag : Bytes] :
         /\ confirm' = [confirm EXCEPT ![c] = r]
         /\ r.call # "idle" => r.asset \in Asset
         /\ r.call = "copy" => r.etag \in Signed
  BY ConfirmationFrame
<1>2. confirm' \in [Confirmation -> [asset : Asset \cup {None}, call : Call, etag : Bytes]]
  BY <1>1 DEF CloudTypeOK
<1>3. CallsFit'
  BY <1>1 DEF CloudTypeOK, CallsFit
<1>4. bucket' \in [Object -> Bytes]
  BY ConfirmationBucket, CloudAssumption DEF CloudTypeOK, Bytes
<1>5. row' \in [Asset -> {"absent", "pending", "ready", "deleted"}]
  BY ConfirmationFrame DEF Publish, MarkReady, CloudTypeOK, RowsTypeOK
<1> QED BY <1>2, <1>3, <1>4, <1>5, ConfirmationFrame DEF CloudTypeOK, RowsTypeOK

DeletionRecord == [targets : SUBSET Asset, step : DeletionStep,
                   todo : SUBSET Object, current : SUBSET Object]

LEMMA OneField ==
  ASSUME NEW f \in [Deletion -> DeletionRecord], NEW d \in Deletion, NEW s \in DeletionStep,
         NEW o \in SUBSET Object
  PROVE  /\ [f EXCEPT ![d].step = s] \in [Deletion -> DeletionRecord]
         /\ [f EXCEPT ![d].todo = o] \in [Deletion -> DeletionRecord]
         /\ [f EXCEPT ![d].current = o] \in [Deletion -> DeletionRecord]
         /\ \A e \in Deletion \ {d} : /\ [f EXCEPT ![d].step = s][e] = f[e]
                                      /\ [f EXCEPT ![d].todo = o][e] = f[e]
                                      /\ [f EXCEPT ![d].current = o][e] = f[e]
BY DEF DeletionRecord

\* A deletion changes its own record.
LEMMA DeletionsApart ==
  ASSUME CloudTypeOK, NEW d \in Deletion, DeletionAction(d)
  PROVE  /\ deletion' \in [Deletion -> DeletionRecord]
         /\ \A e \in Deletion \ {d} : deletion'[e] = deletion[e]
<1> USE DEF CloudTypeOK, DeletionRecord, SetStep, InStep
<1> DEFINE Goal == /\ deletion' \in [Deletion -> DeletionRecord]
                   /\ \A e \in Deletion \ {d} : deletion'[e] = deletion[e]
<1>0. ASSUME NEW s \in DeletionStep, NEW todo \in SUBSET Object, NEW current \in SUBSET Object,
             \/ deletion' = [deletion EXCEPT ![d].step = s]
             \/ deletion' = [deletion EXCEPT ![d].todo = todo]
             \/ deletion' = [deletion EXCEPT ![d].step = s, ![d].todo = todo]
             \/ deletion' = [deletion EXCEPT ![d].current = current, ![d].step = s]
             \/ deletion' = [deletion EXCEPT ![d].step = s, ![d].todo = todo, ![d].current = current]
      PROVE  Goal
  <2>1. CASE deletion' = [deletion EXCEPT ![d].step = s]
    BY <2>1, OneField
  <2>2. CASE deletion' = [deletion EXCEPT ![d].todo = todo]
    BY <2>2, OneField
  <2> DEFINE f == [deletion EXCEPT ![d].step = s]
             g == [f EXCEPT ![d].todo = todo]
             h == [deletion EXCEPT ![d].current = current]
  <2>3. f \in [Deletion -> DeletionRecord] /\ \A e \in Deletion \ {d} : f[e] = deletion[e]
    BY OneField
  <2>4. g \in [Deletion -> DeletionRecord] /\ \A e \in Deletion \ {d} : g[e] = deletion[e]
    <3> HIDE DEF f
    <3> QED BY <2>3, OneField
  <2>5. h \in [Deletion -> DeletionRecord] /\ \A e \in Deletion \ {d} : h[e] = deletion[e]
    BY OneField
  <2>6. CASE deletion' = [deletion EXCEPT ![d].step = s, ![d].todo = todo]
    <3>1. deletion' = g
      BY <2>6
    <3> HIDE DEF g
    <3> QED BY <2>4, <3>1
  <2>7. CASE deletion' = [deletion EXCEPT ![d].current = current, ![d].step = s]
    <3>1. deletion' = [h EXCEPT ![d].step = s]
      BY <2>7
    <3> HIDE DEF h
    <3> QED BY <2>5, <3>1, OneField
  <2>8. CASE deletion' = [deletion EXCEPT ![d].step = s, ![d].todo = todo, ![d].current = current]
    <3>1. deletion' = [g EXCEPT ![d].current = current]
      BY <2>8
    <3> HIDE DEF g
    <3> QED BY <2>4, <3>1, OneField
  <2> QED BY <1>0, <2>1, <2>2, <2>6, <2>7, <2>8
<1>1. ASSUME NEW targets \in SUBSET Asset, StartDeletion(d, targets) PROVE Goal
  <2>1. ObjectsOfAll(targets) \subseteq Object
    BY ObjectFacts DEF ObjectsOfAll
  <2> QED BY <1>1, <2>1 DEF StartDeletion, DeletionStep
<1> DEFINE own == deletion[d]
<1>2. own.todo \in SUBSET Object /\ {} \in SUBSET Object /\ BackedUp(d) \in SUBSET Object
      /\ DeletionStep = {"idle", "selected", "staging", "removing", "restoring", "undone",
                         "interrupted", "committed", "over"}
  BY DEF BackedUp, DeletionStep
<1>3. CASE RefuseDeletion(d) \/ RollbackDeletion(d) \/ BeginStaging(d) \/ Commit(d)
           \/ FinishDeletion(d)
  BY <1>0, <1>2, <1>3 DEF RefuseDeletion, RollbackDeletion, BeginStaging, Commit, FinishDeletion
<1>4. CASE FinishRestore(d)
  BY <1>0, <1>2, <1>4 DEF FinishRestore, AfterRestore
<1>5. CASE FailRestore(d)
  BY <1>0, <1>2, <1>5 DEF FailRestore, AfterRestore
<1>6. CASE InterruptCommit(d)
  BY <1>0, <1>2, <1>6 DEF InterruptCommit
<1>7. CASE FailDeletion(d)
  BY <1>0, <1>2, <1>7 DEF FailDeletion
<1>8. CASE RemoveSource(d)
  BY <1>0, <1>2, <1>8 DEF RemoveSource
<1>9. ASSUME NEW o \in Object, SkipMissing(d, o) \/ RestoreObject(d, o) PROVE Goal
  <2>1. own.todo \ {o} \in SUBSET Object /\ deletion' = [deletion EXCEPT ![d].todo = own.todo \ {o}]
    BY <1>2, <1>9 DEF SkipMissing, RestoreObject
  <2> QED BY <1>0, <1>2, <2>1
<1>10. ASSUME NEW o \in Object, CopyToBackup(d, o) PROVE Goal
  <2>1. /\ own.todo \ {o} \in SUBSET Object /\ {o} \in SUBSET Object
        /\ deletion' = [deletion EXCEPT ![d].todo = own.todo \ {o}, ![d].current = {o},
                                        ![d].step = "removing"]
    BY <1>2, <1>10 DEF CopyToBackup
  <2> DEFINE f == [deletion EXCEPT ![d].todo = own.todo \ {o}]
             g == [f EXCEPT ![d].current = {o}]
  <2>2. f \in [Deletion -> DeletionRecord] /\ \A e \in Deletion \ {d} : f[e] = deletion[e]
    BY <2>1, OneField
  <2>3. g \in [Deletion -> DeletionRecord] /\ \A e \in Deletion \ {d} : g[e] = deletion[e]
    <3> HIDE DEF f
    <3> QED BY <2>1, <2>2, OneField
  <2>4. deletion' = [g EXCEPT ![d].step = "removing"] /\ "removing" \in DeletionStep
    BY <1>2, <2>1
  <2> HIDE DEF g
  <2> QED BY <2>3, <2>4, OneField
<1> HIDE DEF Goal
<1> QED BY <1>1, <1>3, <1>4, <1>5, <1>6, <1>7, <1>8, <1>9, <1>10 DEF DeletionAction, Goal

\* A deletion takes and releases the lock, and holds it in between.
LEMMA DeletionLock ==
  ASSUME CloudTypeOK, LockHeld, NEW d \in Deletion, DeletionAction(d)
  PROVE  /\ writer' \in {writer, d, Unlocked}
         /\ deletion[d].step \in LockedStep \/ writer = Unlocked \/ UNCHANGED writer
         /\ deletion'[d].step \in LockedStep <=> writer' = d
<1> USE DEF CloudTypeOK, LockHeld, LockedStep, SetStep, InStep
<1>1. ASSUME NEW targets \in SUBSET Asset, StartDeletion(d, targets)
      PROVE  writer = Unlocked /\ writer' = d /\ deletion'[d].step = "selected"
  BY <1>1 DEF StartDeletion, BeginDeletion
<1>2. CASE RefuseDeletion(d) \/ RollbackDeletion(d)
  BY <1>2, RowsAssumption DEF RefuseDeletion, RollbackDeletion, Rollback
<1>3. ASSUME NEW o \in Object, SkipMissing(d, o) \/ CopyToBackup(d, o) \/ RestoreObject(d, o)
      PROVE  UNCHANGED writer /\ (deletion'[d].step \in LockedStep <=> deletion[d].step \in LockedStep)
  BY <1>3 DEF SkipMissing, CopyToBackup, RestoreObject, Upcoming
<1>4. CASE BeginStaging(d) \/ RemoveSource(d) \/ FailDeletion(d)
  BY <1>4 DEF BeginStaging, RemoveSource, FailDeletion
<1>5. CASE FailRestore(d) \/ FinishRestore(d) \/ FinishDeletion(d)
  BY <1>5 DEF FailRestore, FinishRestore, FinishDeletion, AfterRestore
<1>6. CASE Commit(d) \/ InterruptCommit(d)
  BY <1>6, RowsAssumption DEF Commit, InterruptCommit, CommitDeletion, Staged
<1> QED BY <1>1, <1>2, <1>3, <1>4, <1>5, <1>6 DEF DeletionAction

\* A deletion that commits deletes the rows it has selected; no other step of
\* a deletion writes the table.
LEMMA DeletionRows ==
  ASSUME CloudTypeOK, NEW d \in Deletion, DeletionAction(d)
  PROVE  \/ UNCHANGED row
         \/ Commit(d) \/ InterruptCommit(d)
BY DEF DeletionAction, StartDeletion, BeginDeletion, RefuseDeletion, RollbackDeletion, Rollback,
       BeginStaging, SkipMissing, CopyToBackup, RestoreObject, RemoveSource, FailDeletion,
       FailRestore, FinishRestore, FinishDeletion

\* What it does to the bucket and its backups.
LEMMA DeletionMoves ==
  ASSUME CloudTypeOK, NEW d \in Deletion, DeletionAction(d)
  PROVE  \/ UNCHANGED <<bucket, backup>>
         \/ \E o \in Object : CopyToBackup(d, o) \/ RestoreObject(d, o)
         \/ RemoveSource(d) \/ FinishRestore(d) \/ FinishDeletion(d)
BY DEF DeletionAction, StartDeletion, RefuseDeletion, RollbackDeletion, BeginStaging, SkipMissing,
       FailDeletion, Commit, InterruptCommit, FailRestore

LEMMA DeletionTyped ==
  ASSUME CloudTypeOK, LockHeld, NEW d \in Deletion, DeletionAction(d)
  PROVE  CloudTypeOK'
<1> USE DEF CloudTypeOK, RowsTypeOK
<1>1. bucket' \in [Object -> Bytes] /\ backup' \in [Deletion -> [Object -> Bytes]]
  <2>1. ASSUME NEW o \in Object, CopyToBackup(d, o)
        PROVE  bucket' \in [Object -> Bytes] /\ backup' \in [Deletion -> [Object -> Bytes]]
    BY <2>1 DEF CopyToBackup
  <2>2. ASSUME NEW o \in Object, RestoreObject(d, o)
        PROVE  bucket' \in [Object -> Bytes] /\ backup' \in [Deletion -> [Object -> Bytes]]
    BY <2>2 DEF RestoreObject
  <2>3. CASE RemoveSource(d)
    BY <2>3 DEF RemoveSource, Bytes
  <2>4. CASE FinishRestore(d) \/ FinishDeletion(d)
    <3>1. UNCHANGED bucket /\ RemoveBackups(d)
      BY <2>4 DEF FinishRestore, FinishDeletion
    <3>2. PICK left \in SUBSET BackedUp(d) :
            backup' = [backup EXCEPT ![d] = [o \in Object |-> IF o \in left THEN @[o] ELSE None]]
      BY <3>1 DEF RemoveBackups
    <3>3. [o \in Object |-> IF o \in left THEN backup[d][o] ELSE None] \in [Object -> Bytes]
      BY DEF Bytes
    <3> QED BY <3>1, <3>2, <3>3
  <2> QED BY <2>1, <2>2, <2>3, <2>4, DeletionMoves
<1>2. row' \in [Asset -> {"absent", "pending", "ready", "deleted"}]
  BY DeletionRows DEF Commit, InterruptCommit, CommitDeletion, DeleteRows
<1>3. UNCHANGED <<confirm, crashes>>
  BY DEF DeletionAction, StartDeletion, RefuseDeletion, BeginStaging, SkipMissing,
         CopyToBackup, RestoreObject, RemoveSource, FailDeletion, Commit, InterruptCommit,
         FailRestore, FinishRestore, RollbackDeletion, FinishDeletion
<1>4. writer' \in Deletion \cup {Unlocked}
  BY DeletionLock
<1>5. \A e \in Deletion : writer' = e => deletion'[e].step \in LockedStep
  BY DeletionLock, DeletionsApart, RowsAssumption
<1>6. deletion' \in [Deletion -> DeletionRecord]
  BY DeletionsApart
<1> QED BY <1>1, <1>2, <1>3, <1>4, <1>5, <1>6 DEF DeletionRecord

LEMMA CrashTyped == CloudTypeOK /\ Crash => CloudTypeOK'
<1> SUFFICES ASSUME CloudTypeOK, Crash PROVE CloudTypeOK'
  OBVIOUS
<1> USE DEF CloudTypeOK, RowsTypeOK, Crash, InStep
<1>1. crashes' \in 0..MaxCrashes
  BY CloudAssumption
<1>2. writer' = Unlocked /\ UNCHANGED <<row, bucket, backup>>
  OBVIOUS
<1>3. confirm' \in [Confirmation -> [asset : Asset \cup {None}, call : Call, etag : Bytes]]
  BY DEF IdleConfirmation, Call, Bytes
<1>4. deletion' \in [Deletion -> [targets : SUBSET Asset, step : DeletionStep,
                                  todo : SUBSET Object, current : SUBSET Object]]
  BY DEF IdleDeletion, DeletionStep
<1> HIDE DEF Crash
<1> QED BY <1>1, <1>2, <1>3, <1>4, RowsAssumption

\* The database row that is created, the object that a browser PUTs.
LEMMA ClientStep ==
  ASSUME CloudTypeOK, NEW a \in Asset, Create(a) \/ \E x \in Content : Put(a, x)
  PROVE  /\ CloudTypeOK'
         /\ UNCHANGED <<writer, backup, confirm, deletion, crashes>>
         /\ \/ UNCHANGED row
            \/ row[a] = "absent" /\ row' = [row EXCEPT ![a] = "pending"]
         /\ \/ UNCHANGED bucket
            \/ \E x \in Content : bucket' = [bucket EXCEPT ![Pending(a)] = x]
BY DEF Create, Put, InsertRow, CloudTypeOK, RowsTypeOK, Bytes

LEMMA StepTyped ==
  ASSUME CloudTypeOK, CallsFit, LockHeld, [Next]_vars
  PROVE  CloudTypeOK' /\ CallsFit'
<1>1. ASSUME UNCHANGED confirm, CloudTypeOK' PROVE CloudTypeOK' /\ CallsFit'
  BY <1>1 DEF CallsFit
<1>2. CASE UNCHANGED vars
  BY <1>2 DEF vars, CloudTypeOK, RowsTypeOK, CallsFit
<1>3. CASE Crash
  BY <1>3, CrashTyped DEF Crash, CallsFit, IdleConfirmation
<1>4. ASSUME NEW d \in Deletion, DeletionAction(d) PROVE UNCHANGED confirm
  BY <1>4 DEF DeletionAction, StartDeletion, RefuseDeletion, BeginStaging, SkipMissing,
              CopyToBackup, RestoreObject, RemoveSource, FailDeletion, Commit, InterruptCommit,
              FailRestore, FinishRestore, RollbackDeletion, FinishDeletion
<1> QED BY <1>1, <1>2, <1>3, <1>4, ClientStep, ConfirmationTyped, DeletionTyped DEF Next

-----------------------------------------------------------------------------
(* The lock and the rows *)

\* What is not a deletion leaves the lock, the backups and the deletions alone.
LEMMA OthersFrame ==
  ASSUME CloudTypeOK, CallsFit,
         \/ \E a \in Asset : Create(a) \/ \E x \in Content : Put(a, x)
         \/ \E c \in Confirmation : ConfirmationStep(c)
  PROVE  UNCHANGED <<writer, backup, deletion>>
BY ClientStep, ConfirmationFrame

\* Of the rows they create one, or publish one that exists.
LEMMA OthersRows ==
  ASSUME CloudTypeOK, CallsFit,
         \/ \E a \in Asset : Create(a) \/ \E x \in Content : Put(a, x)
         \/ \E c \in Confirmation : ConfirmationStep(c)
  PROVE  \A a \in Asset : /\ Present(a) => Present(a)'
                          /\ row[a] = "deleted" => row'[a] = "deleted"
<1> USE DEF CloudTypeOK, RowsTypeOK, Present
<1>1. ASSUME NEW c \in Confirmation, ConfirmationStep(c)
      PROVE  \/ row' = row
             \/ \E a \in Asset : Present(a) /\ row' = [row EXCEPT ![a] = "ready"]
  BY <1>1, ConfirmationFrame DEF Publish, MarkReady, At, AssetOf, CallsFit
<1> QED BY <1>1, ClientStep

LEMMA LockStep ==
  ASSUME CloudTypeOK, CallsFit, LockHeld, [Next]_vars
  PROVE  LockHeld'
<1>1. ASSUME NEW d \in Deletion, DeletionAction(d) PROVE LockHeld'
  <2>1. ASSUME NEW e \in Deletion \ {d}, deletion'[e].step \in LockedStep PROVE writer' = e
    <3>1. deletion[e].step \in LockedStep /\ writer = e
      BY <1>1, <2>1, DeletionsApart DEF LockHeld
    <3>2. deletion[d].step \notin LockedStep /\ writer # Unlocked
      BY <3>1, <2>1, RowsAssumption DEF LockHeld
    <3> QED BY <1>1, <3>1, <3>2, DeletionLock
  <2> QED BY <1>1, <2>1, DeletionLock DEF LockHeld
<1>2. CASE Crash
  BY <1>2 DEF Crash, InStep, IdleDeletion, LockHeld, LockedStep, CloudTypeOK
<1>3. CASE UNCHANGED <<writer, backup, deletion>>
  BY <1>3 DEF LockHeld
<1> QED BY <1>1, <1>2, <1>3, OthersFrame DEF Next, vars

\* The targets of a deletion are those it started with.
LEMMA OwnTargets ==
  ASSUME CloudTypeOK, NEW d \in Deletion, DeletionAction(d)
  PROVE  \/ deletion'[d].targets = deletion[d].targets
         \/ \E targets \in SUBSET Asset : StartDeletion(d, targets)
<1> USE DEF CloudTypeOK, SetStep, InStep
<1>1. CASE RefuseDeletion(d) \/ RollbackDeletion(d) \/ BeginStaging(d) \/ Commit(d)
           \/ FinishDeletion(d) \/ FinishRestore(d)
  BY <1>1 DEF RefuseDeletion, RollbackDeletion, BeginStaging, Commit, FinishDeletion, FinishRestore
<1>2. CASE RemoveSource(d) \/ FailDeletion(d) \/ InterruptCommit(d) \/ FailRestore(d)
  BY <1>2 DEF RemoveSource, FailDeletion, InterruptCommit, FailRestore
<1>3. ASSUME NEW o \in Object, SkipMissing(d, o) \/ CopyToBackup(d, o) \/ RestoreObject(d, o)
      PROVE  deletion'[d].targets = deletion[d].targets
  BY <1>3 DEF SkipMissing, CopyToBackup, RestoreObject
<1> QED BY <1>1, <1>2, <1>3 DEF DeletionAction

\* A deletion has its rows deleted by the step that commits, and holds the
\* lock before it does so.
LEMMA OwnSteps ==
  ASSUME CloudTypeOK, NEW d \in Deletion, DeletionAction(d)
  PROVE  /\ (Commit(d) \/ InterruptCommit(d)) =>
               /\ deletion[d].step \in LockedStep
               /\ deletion'[d].step \in {"committed", "interrupted"}
               /\ deletion'[d].targets = deletion[d].targets
               /\ DeleteRows(deletion[d].targets)
         /\ deletion'[d].step \in {"committed", "interrupted"} =>
               \/ Commit(d) \/ InterruptCommit(d)
               \/ /\ deletion[d].step \in {"committed", "interrupted"}
                  /\ deletion'[d].targets = deletion[d].targets
         /\ deletion'[d].step \in LockedStep =>
               \/ \E targets \in SUBSET Asset : StartDeletion(d, targets)
               \/ /\ deletion[d].step \in LockedStep
                  /\ deletion'[d].targets = deletion[d].targets
<1> USE DEF CloudTypeOK, SetStep, InStep, LockedStep
<1>1. ASSUME NEW targets \in SUBSET Asset, StartDeletion(d, targets)
      PROVE  deletion'[d].step = "selected" /\ deletion[d].step = "idle"
  BY <1>1 DEF StartDeletion
<1>2. CASE RefuseDeletion(d) \/ RollbackDeletion(d) \/ BeginStaging(d) \/ FinishDeletion(d)
  BY <1>2, OwnTargets, <1>1
  DEF RefuseDeletion, RollbackDeletion, BeginStaging, FinishDeletion, Commit, InterruptCommit, Staged
<1>3. CASE Commit(d) \/ InterruptCommit(d)
  BY <1>3, OwnTargets, <1>1 DEF Commit, InterruptCommit, Staged, CommitDeletion
<1>4. CASE RemoveSource(d) \/ FailDeletion(d)
  BY <1>4, OwnTargets, <1>1 DEF RemoveSource, FailDeletion, Commit, InterruptCommit
<1>5. CASE FailRestore(d) \/ FinishRestore(d)
  BY <1>5, OwnTargets, <1>1
  DEF FailRestore, FinishRestore, AfterRestore, Commit, InterruptCommit, Staged
<1>6. ASSUME NEW o \in Object, SkipMissing(d, o) \/ CopyToBackup(d, o) \/ RestoreObject(d, o)
      PROVE  /\ deletion'[d].step \in {deletion[d].step, "removing"}
             /\ deletion'[d].step = "removing" => deletion[d].step \in {"staging", "removing"}
             /\ deletion'[d].targets = deletion[d].targets
  BY <1>6 DEF SkipMissing, CopyToBackup, RestoreObject, Upcoming
<1>7. (Commit(d) \/ InterruptCommit(d)) => deletion'[d].step \in {"committed", "interrupted"}
      /\ deletion[d].step = "staging"
  BY DEF Commit, InterruptCommit, Staged
<1> QED BY <1>1, <1>2, <1>3, <1>4, <1>5, <1>6, <1>7 DEF DeletionAction

LEMMA SelectionStep ==
  ASSUME CloudTypeOK, CallsFit, LockHeld, SelectionHolds, [Next]_vars
  PROVE  SelectionHolds'
<1>1. ASSUME NEW d \in Deletion, DeletionAction(d), NEW e \in Deletion, NEW a \in deletion'[e].targets
      PROVE  /\ deletion'[e].step \in LockedStep => Present(a)'
             /\ deletion'[e].step \in {"committed", "interrupted"} => row'[a] = "deleted"
  <2>1. UNCHANGED row \/ (deletion[d].step \in LockedStep /\ DeleteRows(deletion[d].targets))
    BY <1>1, DeletionRows, OwnSteps
  <2>2. CASE e # d
    <3>1. deletion'[e] = deletion[e] /\ a \in Asset
      BY <1>1, <2>2, DeletionsApart DEF CloudTypeOK
    <3>2. deletion[e].step \in LockedStep => UNCHANGED row
      BY <1>1, <2>1, <2>2 DEF LockHeld
    <3>3. row[a] = "deleted" => row'[a] = "deleted"
      BY <2>1, <3>1 DEF DeleteRows, CloudTypeOK
    <3> QED BY <1>1, <3>1, <3>2, <3>3 DEF SelectionHolds, Present
  <2>3. CASE e = d
    <3>1. a \in Asset
      BY <1>1, DeletionsApart DEF DeletionRecord
    <3>2. ASSUME NEW targets \in SUBSET Asset, StartDeletion(d, targets)
          PROVE  Present(a)' /\ deletion'[d].step = "selected"
      BY <1>1, <2>3, <3>2 DEF StartDeletion, BeginDeletion, Present, CloudTypeOK
    <3>3. CASE Commit(d) \/ InterruptCommit(d)
      BY <1>1, <2>3, <3>1, <3>3, OwnSteps DEF DeleteRows, LockedStep
    <3>4. CASE ~Commit(d) /\ ~InterruptCommit(d)
      <4>1. UNCHANGED row
        BY <1>1, <3>4, DeletionRows
      <4> QED BY <1>1, <2>3, <3>2, <3>4, <4>1, OwnSteps DEF SelectionHolds, Present
    <3> QED BY <3>3, <3>4
  <2> QED BY <2>2, <2>3
<1>2. CASE Crash
  BY <1>2 DEF Crash, InStep, IdleDeletion, SelectionHolds, LockedStep, CloudTypeOK
<1>3. CASE UNCHANGED vars
  BY <1>3 DEF vars, SelectionHolds, Present
<1>4. CASE \/ \E a \in Asset : Create(a) \/ \E x \in Content : Put(a, x)
           \/ \E c \in Confirmation : ConfirmationStep(c)
  BY <1>4, OthersFrame, OthersRows DEF SelectionHolds, CloudTypeOK
<1>5. (\E d \in Deletion : DeletionAction(d)) => SelectionHolds'
  BY <1>1 DEF SelectionHolds
<1> QED BY <1>2, <1>3, <1>4, <1>5 DEF Next

-----------------------------------------------------------------------------
(* The backups *)

LEMMA BackupsApart ==
  ASSUME CloudTypeOK, NEW d \in Deletion, DeletionAction(d), NEW e \in Deletion \ {d}
  PROVE  backup'[e] = backup[e]
BY DeletionMoves
DEF CloudTypeOK, CopyToBackup, RestoreObject, RemoveSource, FinishRestore, FinishDeletion, RemoveBackups

LEMMA RemovedBackups ==
  ASSUME CloudTypeOK, NEW d \in Deletion, RemoveBackups(d)
  PROVE  BackedUp(d)' \subseteq BackedUp(d)
BY DEF CloudTypeOK, RemoveBackups, BackedUp

\* What a deletion does to its own backups.
LEMMA OwnBackups ==
  ASSUME CloudTypeOK, BackupsBelong, NEW d \in Deletion, DeletionAction(d)
  PROVE  /\ deletion'[d].step # "over" => BackedUp(d)' \subseteq ObjectsOfAll(deletion'[d].targets)
         /\ deletion'[d].step \in {"idle", "selected"} => BackedUp(d)' = {}
         /\ deletion'[d].step \in {"selected", "staging", "removing"} =>
              deletion'[d].todo \subseteq ObjectsOfAll(deletion'[d].targets)
<1> USE DEF SetStep, InStep
<1>1. ASSUME UNCHANGED backup PROVE BackedUp(d)' = BackedUp(d)
  BY <1>1 DEF BackedUp
<1>2. ASSUME NEW targets \in SUBSET Asset, StartDeletion(d, targets)
      PROVE  /\ deletion'[d].targets = targets
             /\ deletion'[d].todo = ObjectsOfAll(targets)
             /\ BackedUp(d)' = {}
  BY <1>1, <1>2 DEF StartDeletion, CloudTypeOK, BackupsBelong
<1>3. CASE RefuseDeletion(d) \/ RollbackDeletion(d) \/ FinishDeletion(d)
  BY <1>3 DEF RefuseDeletion, RollbackDeletion, FinishDeletion, CloudTypeOK
<1>4. CASE BeginStaging(d) \/ RemoveSource(d)
  <2>1. /\ UNCHANGED backup
        /\ deletion[d].step \in {"selected", "removing"} /\ deletion'[d].step = "staging"
        /\ deletion'[d].targets = deletion[d].targets
        /\ deletion'[d].todo = deletion[d].todo
    BY <1>4 DEF BeginStaging, RemoveSource, CloudTypeOK
  <2> QED BY <1>1, <2>1 DEF BackupsBelong
<1>5. ASSUME NEW o \in Object, SkipMissing(d, o)
      PROVE  /\ UNCHANGED backup
             /\ deletion[d].step = "staging" /\ deletion'[d].step = "staging"
             /\ deletion'[d].targets = deletion[d].targets
             /\ deletion'[d].todo \subseteq deletion[d].todo
  BY <1>5 DEF SkipMissing, Upcoming, CloudTypeOK
<1>6. ASSUME NEW o \in Object, CopyToBackup(d, o)
      PROVE  /\ BackedUp(d)' \subseteq BackedUp(d) \cup {o} /\ o \in deletion[d].todo
             /\ deletion[d].step = "staging" /\ deletion'[d].step = "removing"
             /\ deletion'[d].targets = deletion[d].targets
             /\ deletion'[d].todo \subseteq deletion[d].todo
  <2>1. BackedUp(d)' \subseteq BackedUp(d) \cup {o}
    BY <1>6 DEF CopyToBackup, CloudTypeOK, BackedUp
  <2> QED BY <1>6, <2>1 DEF CopyToBackup, Upcoming, CloudTypeOK
<1>7. CASE FailDeletion(d) \/ Commit(d) \/ InterruptCommit(d) \/ FailRestore(d)
  <2>1. /\ UNCHANGED backup
        /\ deletion[d].step # "over"
        /\ deletion'[d].step \in {"restoring", "committed", "interrupted", "undone", "over"}
        /\ deletion'[d].targets = deletion[d].targets
    BY <1>7 DEF FailDeletion, Commit, InterruptCommit, Staged, FailRestore, AfterRestore, CloudTypeOK
  <2> QED BY <1>1, <2>1 DEF BackupsBelong
<1>8. ASSUME NEW o \in Object, RestoreObject(d, o)
      PROVE  /\ UNCHANGED backup
             /\ deletion[d].step \in {"restoring", "interrupted"}
             /\ deletion'[d].step = deletion[d].step
             /\ deletion'[d].targets = deletion[d].targets
  BY <1>8 DEF RestoreObject, CloudTypeOK
<1>9. CASE FinishRestore(d)
  <2>1. /\ BackedUp(d)' \subseteq BackedUp(d)
        /\ deletion[d].step # "over" /\ deletion'[d].step \in {"undone", "over"}
        /\ deletion'[d].targets = deletion[d].targets
    BY <1>9, RemovedBackups DEF FinishRestore, AfterRestore, CloudTypeOK
  <2> QED BY <2>1 DEF BackupsBelong
<1>10. CASE \E targets \in SUBSET Asset : StartDeletion(d, targets)
  BY <1>2, <1>10
<1>11. CASE \E o \in Object : SkipMissing(d, o) \/ CopyToBackup(d, o) \/ RestoreObject(d, o)
  BY <1>1, <1>5, <1>6, <1>8, <1>11 DEF BackupsBelong
<1> QED BY <1>3, <1>4, <1>7, <1>9, <1>10, <1>11 DEF DeletionAction

LEMMA BackupsStep ==
  ASSUME CloudTypeOK, CallsFit, BackupsBelong, [Next]_vars
  PROVE  BackupsBelong'
<1>1. ASSUME NEW d \in Deletion, DeletionAction(d) PROVE BackupsBelong'
  BY <1>1, OwnBackups, DeletionsApart, BackupsApart DEF BackupsBelong, BackedUp
<1>2. CASE Crash
  BY <1>2 DEF Crash, InStep, IdleDeletion, BackupsBelong, BackedUp, CloudTypeOK
<1>3. CASE UNCHANGED <<backup, deletion>>
  BY <1>3 DEF BackupsBelong, BackedUp
<1> QED BY <1>1, <1>2, <1>3, OthersFrame DEF Next, vars

\* Final objects and thumbnails only go when a deletion removes its source.
LEMMA ObjectsStay ==
  ASSUME CloudTypeOK, CallsFit, StagingFits, [Next]_vars, NEW a \in Asset,
         NEW o \in {Final(a), Thumbnail(a)}, Exists(o), ~Exists(o)'
  PROVE  \E d \in Deletion : RemoveSource(d) /\ o \in deletion[d].current
<1> USE DEF Exists
<1>0. o \in Object /\ \A b \in Asset : o # Pending(b)
  BY ObjectFacts
<1>1. CASE UNCHANGED bucket
  BY <1>1
<1>2. ASSUME NEW b \in Asset, NEW x \in Content, Put(b, x) PROVE FALSE
  BY <1>0, <1>2 DEF Put, CloudTypeOK
<1>3. ASSUME NEW c \in Confirmation, ConfirmationStep(c) PROVE FALSE
  BY <1>0, <1>3, ConfirmationBucket, CloudAssumption DEF CloudTypeOK
<1>4. ASSUME NEW d \in Deletion, NEW p \in Object, RestoreObject(d, p) PROVE FALSE
  BY <1>0, <1>4 DEF RestoreObject, StagingFits, BackedUp, CloudTypeOK
<1>5. ASSUME NEW d \in Deletion, RemoveSource(d) PROVE o \in deletion[d].current
  BY <1>0, <1>5 DEF RemoveSource
<1>6. ASSUME NEW d \in Deletion, DeletionAction(d)
      PROVE  UNCHANGED bucket \/ RemoveSource(d) \/ \E p \in Object : RestoreObject(d, p)
  BY <1>6, DeletionMoves DEF CopyToBackup, FinishRestore, FinishDeletion
<1>7. CASE Crash \/ UNCHANGED vars \/ \E b \in Asset : Create(b)
  BY <1>1, <1>7 DEF Crash, vars, Create
<1> QED BY <1>1, <1>2, <1>3, <1>4, <1>5, <1>6, <1>7 DEF Next

\* What a deletion does to what it removes or restores.
LEMMA OwnStaging ==
  ASSUME CloudTypeOK, StagingFits, NEW d \in Deletion, DeletionAction(d)
  PROVE  /\ deletion'[d].step = "removing" => deletion'[d].current \subseteq BackedUp(d)'
         /\ deletion'[d].step \in {"restoring", "interrupted"} => deletion'[d].todo \subseteq BackedUp(d)'
         /\ deletion'[d].step = "restoring" =>
              \/ deletion'[d].todo = BackedUp(d)'
              \/ /\ deletion[d].step = "restoring" /\ BackedUp(d)' = BackedUp(d)
                 /\ \A o \in deletion[d].todo \ deletion'[d].todo : Exists(o)'
<1> USE DEF SetStep, InStep
<1>1. ASSUME UNCHANGED backup PROVE BackedUp(d)' = BackedUp(d)
  BY <1>1 DEF BackedUp
<1>2. ASSUME NEW targets \in SUBSET Asset, StartDeletion(d, targets)
      PROVE  deletion'[d].step = "selected"
  BY <1>2 DEF StartDeletion, CloudTypeOK
<1>3. CASE RefuseDeletion(d) \/ RollbackDeletion(d) \/ FinishDeletion(d) \/ BeginStaging(d)
           \/ RemoveSource(d) \/ Commit(d) \/ FailRestore(d) \/ FinishRestore(d)
  <2>1. deletion'[d].step \in {"over", "staging", "committed", "undone"}
    BY <1>3 DEF RefuseDeletion, RollbackDeletion, FinishDeletion, BeginStaging, RemoveSource, Commit,
                FailRestore, FinishRestore, AfterRestore, CloudTypeOK
  <2> QED BY <2>1
<1>4. CASE FailDeletion(d) \/ InterruptCommit(d)
  <2>1. /\ UNCHANGED backup
        /\ deletion'[d].step \in {"restoring", "interrupted"}
        /\ deletion'[d].todo = BackedUp(d)
    BY <1>4 DEF FailDeletion, InterruptCommit, CloudTypeOK
  <2> QED BY <1>1, <2>1
<1>5. ASSUME NEW o \in Object, SkipMissing(d, o) PROVE deletion'[d].step = "staging"
  BY <1>5 DEF SkipMissing, Upcoming, CloudTypeOK
<1>6. ASSUME NEW o \in Object, CopyToBackup(d, o)
      PROVE  /\ deletion'[d].step = "removing"
             /\ deletion'[d].current \subseteq BackedUp(d)'
  BY <1>6 DEF CopyToBackup, CloudTypeOK, BackedUp, Exists
<1>7. ASSUME NEW o \in Object, RestoreObject(d, o)
      PROVE  /\ UNCHANGED backup
             /\ deletion[d].step \in {"restoring", "interrupted"}
             /\ deletion'[d].step = deletion[d].step
             /\ o \in deletion[d].todo /\ deletion'[d].todo = deletion[d].todo \ {o}
             /\ Exists(o)'
  BY <1>7 DEF RestoreObject, CloudTypeOK, StagingFits, BackedUp, Exists
<1>8. CASE \E targets \in SUBSET Asset : StartDeletion(d, targets)
  BY <1>2, <1>8
<1>9. CASE \E o \in Object : SkipMissing(d, o) \/ CopyToBackup(d, o)
  BY <1>5, <1>6, <1>9
<1>10. CASE \E o \in Object : RestoreObject(d, o)
  BY <1>1, <1>7, <1>10 DEF StagingFits
<1> QED BY <1>3, <1>4, <1>8, <1>9, <1>10 DEF DeletionAction

\* No other deletion removes an object while one restores: it has the lock.
LEMMA RestoredStay ==
  ASSUME CloudTypeOK, CallsFit, LockHeld, StagingFits, [Next]_vars,
         NEW d \in Deletion, deletion[d].step = "restoring",
         NEW a \in Asset, NEW o \in {Final(a), Thumbnail(a)}, Exists(o)
  PROVE  Exists(o)'
<1>1. ASSUME NEW e \in Deletion, RemoveSource(e) PROVE FALSE
  <2>1. deletion[e].step = "removing" /\ d # e
    BY <1>1 DEF RemoveSource, InStep
  <2> QED BY <2>1 DEF LockHeld, LockedStep
<1> QED BY <1>1, ObjectsStay

LEMMA StagingStep ==
  ASSUME CloudTypeOK, CallsFit, LockHeld, StagingFits, [Next]_vars
  PROVE  StagingFits'
<1> DEFINE Moves(d) == /\ deletion[d].step = "removing" => deletion[d].current \subseteq BackedUp(d)
                       /\ deletion[d].step \in {"restoring", "interrupted"} =>
                            deletion[d].todo \subseteq BackedUp(d)
           Restored(d) == deletion[d].step = "restoring" =>
                            \A a \in Asset, o \in Object :
                               o \in BackedUp(d) \ deletion[d].todo /\ o \in {Final(a), Thumbnail(a)}
                                 => Exists(o)
<1>1. StagingFits <=> \A d \in Deletion : Moves(d) /\ Restored(d)
  BY ObjectFacts DEF StagingFits
<1>2. StagingFits' <=> \A d \in Deletion : Moves(d)' /\ Restored(d)'
  BY ObjectFacts DEF StagingFits
<1>3. ASSUME NEW d \in Deletion, deletion'[d] = deletion[d], backup'[d] = backup[d]
      PROVE  Moves(d)' /\ Restored(d)'
  <2>1. BackedUp(d)' = BackedUp(d)
    BY <1>3 DEF BackedUp
  <2> QED BY <1>1, <1>3, <2>1, RestoredStay
<1>4. ASSUME NEW d \in Deletion, DeletionAction(d)
      PROVE  Moves(d)' /\ Restored(d)'
  <2>1. Moves(d)'
    BY <1>4, OwnStaging
  <2>2. ASSUME deletion'[d].step = "restoring", NEW a \in Asset, NEW o \in Object,
               o \in BackedUp(d)' \ deletion'[d].todo, o \in {Final(a), Thumbnail(a)}
        PROVE  Exists(o)'
    <3>1. deletion[d].step = "restoring" /\ o \in BackedUp(d)
          /\ (o \in deletion[d].todo => Exists(o)')
      BY <1>4, <2>2, OwnStaging
    <3>2. CASE o \notin deletion[d].todo
      BY <1>1, <2>2, <3>1, <3>2, RestoredStay
    <3> QED BY <3>1, <3>2
  <2> QED BY <2>1, <2>2
<1>5. CASE Crash
  <2>1. \A d \in Deletion : deletion'[d].step \in {"idle", "over"}
    BY <1>5 DEF Crash, InStep, IdleDeletion, CloudTypeOK
  <2> QED BY <1>2, <2>1
<1>6. CASE UNCHANGED <<backup, deletion>>
  BY <1>2, <1>3, <1>6
<1>7. CASE \E d \in Deletion : DeletionAction(d)
  BY <1>2, <1>3, <1>4, <1>7, DeletionsApart, BackupsApart
<1> QED BY <1>5, <1>6, <1>7, OthersFrame DEF Next, vars

-----------------------------------------------------------------------------
(* Objects of rows that exist are kept. *)

\* Backups are deleted once their objects are back, or their rows are gone.
LEMMA BackupsStay ==
  ASSUME CloudTypeOK, CallsFit, SelectionHolds, BackupsBelong, StagingFits, [Next]_vars,
         NEW a \in Asset, row[a] # "deleted", NEW o \in Needed(a),
         NEW d \in Deletion, o \in BackedUp(d), o \notin BackedUp(d)'
  PROVE  Exists(o)'
<1>1. o \in ObjectsOf(a) /\ o \in Object /\ o \in {Final(a), Thumbnail(a)}
  BY ObjectFacts DEF Needed
<1>2. DeletionAction(d)
  <2>1. backup'[d] # backup[d]
    BY DEF BackedUp
  <2> QED BY <2>1, BackupsApart, OthersFrame DEF Next, Crash, vars
<1>3. ASSUME deletion[d].step \in {"committed", "interrupted"} PROVE FALSE
  <2>1. PICK b \in deletion[d].targets : o \in ObjectsOf(b)
    BY <1>3 DEF BackupsBelong, ObjectsOfAll
  <2>2. b = a
    BY <1>1, <2>1, ObjectFacts DEF CloudTypeOK
  <2> QED BY <1>3, <2>1, <2>2 DEF SelectionHolds
<1>4. ~FinishDeletion(d)
  BY <1>3 DEF FinishDeletion, InStep
<1>5. ASSUME NEW p \in Object, CopyToBackup(d, p) PROVE FALSE
  BY <1>5 DEF CopyToBackup, BackedUp, Exists, CloudTypeOK
<1>6. FinishRestore(d)
  BY <1>2, <1>4, <1>5, DeletionMoves DEF RestoreObject, RemoveSource, BackedUp
<1>7. deletion[d].step = "restoring" /\ deletion[d].todo = {} /\ UNCHANGED bucket
  BY <1>3, <1>6 DEF FinishRestore
<1> QED BY <1>1, <1>7 DEF StagingFits, Exists

LEMMA KeepsBytes ==
  ASSUME CloudTypeOK, CallsFit, SelectionHolds, BackupsBelong, StagingFits, [Next]_vars,
         NEW a \in Asset, row[a] # "deleted", NEW o \in Needed(a), Stored(o)
  PROVE  Stored(o)'
<1>1. o \in Object /\ o \in {Final(a), Thumbnail(a)}
  BY ObjectFacts
<1>2. CASE Exists(o) /\ ~Exists(o)'
  <2>1. PICK d \in Deletion : RemoveSource(d) /\ o \in deletion[d].current
    BY <1>1, <1>2, ObjectsStay
  <2>2. o \in BackedUp(d)'
    BY <2>1 DEF RemoveSource, InStep, StagingFits, BackedUp
  <2> QED BY <2>2 DEF Stored
<1>3. CASE \E d \in Deletion : o \in BackedUp(d)
  BY <1>3, BackupsStay DEF Stored
<1> QED BY <1>2, <1>3 DEF Stored

\* A deleted row does not come back, and a row becomes ready only when a
\* confirmation that has passed all checks publishes it.
LEMMA RowsStep ==
  ASSUME CloudTypeOK, CallsFit, [Next]_vars, NEW a \in Asset
  PROVE  /\ row[a] = "deleted" => row'[a] = "deleted"
         /\ row'[a] = "ready" /\ row[a] # "ready" =>
               \E c \in Confirmation : /\ confirm[c].call = "update"
                                       /\ confirm[c].asset = a
                                       /\ row[a] # "deleted"
<1> USE DEF CloudTypeOK, RowsTypeOK
<1>1. CASE UNCHANGED row
  BY <1>1
<1>2. CASE \E b \in Asset : Create(b) \/ \E x \in Content : Put(b, x)
  BY <1>2, ClientStep
<1>3. ASSUME NEW c \in Confirmation, Publish(c)
      PROVE  /\ row' = [row EXCEPT ![confirm[c].asset] = "ready"]
             /\ confirm[c].asset \in Asset
             /\ Present(confirm[c].asset) /\ confirm[c].call = "update"
  BY <1>3 DEF Publish, MarkReady, At, AssetOf, CallsFit
<1>4. ASSUME NEW d \in Deletion, DeletionAction(d)
      PROVE  UNCHANGED row \/ \E targets : DeleteRows(targets)
  BY <1>4, DeletionRows DEF Commit, InterruptCommit, CommitDeletion
<1>5. CASE Crash \/ UNCHANGED vars
  BY <1>1, <1>5 DEF Crash, vars
<1>6. CASE \E c \in Confirmation : Publish(c)
  BY <1>3, <1>6 DEF Present
<1>7. CASE \E targets : DeleteRows(targets)
  BY <1>7 DEF DeleteRows
<1> QED BY <1>1, <1>2, <1>4, <1>5, <1>6, <1>7, ConfirmationFrame DEF Next

\* A confirmation proceeds to a later call only with what it has seen stored.
LEMMA ConfirmationSees ==
  ASSUME CloudTypeOK, CallsFit, NEW c \in Confirmation, ConfirmationStep(c),
         NEW a \in Asset, a = confirm'[c].asset
  PROVE  LET seen == {"discard", "decode", "thumbnail", "update"} IN
         /\ confirm'[c].call \in seen =>
              /\ confirm[c].asset = a /\ confirm[c].call # "idle"
              /\ confirm[c].call \in seen \/ Stored(Final(a))'
         /\ confirm'[c].call = "update" /\ a \in WithThumbnail => Stored(Thumbnail(a))'
<1> USE DEF CloudTypeOK, Proceed, At, AssetOf
<1>0. /\ bucket'[Final(a)] # None => Stored(Final(a))'
      /\ bucket'[Thumbnail(a)] # None => Stored(Thumbnail(a))'
  BY DEF Stored, Exists, Final, Thumbnail
<1>1. ASSUME NEW b \in Asset, StartConfirmation(c, b) PROVE confirm'[c].call = "inspect"
  BY <1>1 DEF StartConfirmation
<1>2. CASE InspectPending(c)
  BY <1>2 DEF InspectPending
<1>3. CASE InspectFinal(c)
  <2>1. bucket'[Final(a)] # None
    BY <1>3, CloudAssumption DEF InspectFinal
  <2>2. confirm[c].asset = a /\ confirm[c].call = "inspect"
    BY <1>3 DEF InspectFinal
  <2>3. confirm'[c].call = "update" => a \notin WithThumbnail
    BY <1>3 DEF InspectFinal, AfterFinalize, AfterDecode
  <2> QED BY <1>0, <2>1, <2>2, <2>3
<1>4. CASE CopyUpload(c)
  <2>1. bucket'[Final(a)] # None
    BY <1>4, CloudAssumption, ObjectFacts DEF CopyUpload, CallsFit
  <2>2. confirm[c].asset = a /\ confirm[c].call = "copy"
        /\ confirm'[c].call = "discard"
    BY <1>4 DEF CopyUpload
  <2> QED BY <1>0, <2>1, <2>2
<1>5. CASE DiscardUpload(c) \/ DecodeImage(c)
  <2>1. confirm[c].asset = a /\ confirm[c].call \in {"discard", "decode"}
    BY <1>5 DEF DiscardUpload, DecodeImage
  <2>2. confirm'[c].call = "update" => a \notin WithThumbnail
    BY <1>5 DEF DiscardUpload, DecodeImage, AfterFinalize, AfterDecode
  <2> QED BY <2>1, <2>2
<1>6. CASE CheckThumbnail(c)
  <2>1. bucket'[Thumbnail(a)] # None
    BY <1>6 DEF CheckThumbnail, Exists
  <2>2. confirm[c].asset = a /\ confirm[c].call = "thumbnail"
    BY <1>6 DEF CheckThumbnail
  <2> QED BY <1>0, <2>1, <2>2
<1>7. CASE Publish(c) \/ FailConfirmation(c)
  BY <1>7 DEF Publish, FailConfirmation, IdleConfirmation
<1> QED BY <1>1, <1>2, <1>3, <1>4, <1>5, <1>6, <1>7 DEF ConfirmationStep

LEMMA OthersConfirm ==
  ASSUME CloudTypeOK, CallsFit, [Next]_vars, NEW c \in Confirmation, ~ConfirmationStep(c)
  PROVE  confirm'[c] = confirm[c] \/ confirm'[c].call = "idle"
<1> USE DEF CloudTypeOK
<1>1. ASSUME NEW e \in Confirmation, ConfirmationStep(e), e # c PROVE confirm'[c] = confirm[c]
  BY <1>1, ConfirmationFrame
<1>2. ASSUME NEW d \in Deletion, DeletionAction(d) PROVE confirm' = confirm
  BY <1>2 DEF DeletionAction, StartDeletion, RefuseDeletion, BeginStaging, SkipMissing,
              CopyToBackup, RestoreObject, RemoveSource, FailDeletion, Commit, InterruptCommit,
              FailRestore, FinishRestore, RollbackDeletion, FinishDeletion
<1>3. CASE Crash
  BY <1>3 DEF Crash, IdleConfirmation
<1>4. CASE UNCHANGED vars
  BY <1>4 DEF vars
<1> QED BY <1>1, <1>2, <1>3, <1>4, ClientStep DEF Next

LEMMA ChecksStep ==
  ASSUME CloudInvariant, [Next]_vars
  PROVE  ChecksHold'
<1> USE DEF CloudInvariant
<1> DEFINE seen == {"discard", "decode", "thumbnail", "update"}
<1>0. CloudTypeOK' /\ CallsFit'
  BY StepTyped
<1> SUFFICES ASSUME NEW c \in Confirmation, NEW a \in Asset, a = confirm'[c].asset,
                    row'[a] # "deleted"
             PROVE  /\ confirm'[c].call \in seen => Stored(Final(a))'
                    /\ confirm'[c].call = "update" /\ a \in WithThumbnail => Stored(Thumbnail(a))'
  BY <1>0 DEF ChecksHold, CallsFit, Final, Thumbnail
<1>1. row[a] # "deleted"
  BY RowsStep
<1>2. Stored(Final(a)) => Stored(Final(a))'
  BY <1>1, KeepsBytes, ObjectFacts
<1>3. a \in WithThumbnail /\ Stored(Thumbnail(a)) => Stored(Thumbnail(a))'
  BY <1>1, KeepsBytes, ObjectFacts
<1>4. CASE ConfirmationStep(c)
  <2>1. confirm'[c].call \in seen => Stored(Final(a)) \/ Stored(Final(a))'
    BY <1>1, <1>4, ConfirmationSees DEF ChecksHold
  <2>2. confirm'[c].call = "update" /\ a \in WithThumbnail => Stored(Thumbnail(a))'
    BY <1>4, ConfirmationSees
  <2> QED BY <1>2, <2>1, <2>2
<1>5. CASE ~ConfirmationStep(c)
  <2>1. confirm'[c].call \in seen => confirm'[c] = confirm[c]
    BY <1>5, OthersConfirm
  <2>2. confirm'[c].call \in seen => Stored(Final(a))
    BY <1>1, <2>1 DEF ChecksHold
  <2>3. confirm'[c].call = "update" /\ a \in WithThumbnail => Stored(Thumbnail(a))
    BY <1>1, <2>1 DEF ChecksHold
  <2> QED BY <1>2, <1>3, <2>2, <2>3
<1> QED BY <1>4, <1>5

LEMMA NeededStored ==
  ASSUME NEW a \in Asset
  PROVE  a \in StoredAssets <=> /\ Stored(Final(a))
                                /\ a \in WithThumbnail => Stored(Thumbnail(a))
BY ObjectFacts DEF StoredAssets, Needed

LEMMA ReadyStep ==
  ASSUME CloudInvariant, [Next]_vars
  PROVE  ReadyIsStored'
<1> USE DEF CloudInvariant
<1> SUFFICES ASSUME NEW a \in Asset, row'[a] = "ready", NEW o \in Needed(a) PROVE Stored(o)'
  BY DEF ReadyIsStored, StoredAssets, Needed
<1>1. row[a] # "deleted"
  BY RowsStep
<1>2. CASE row[a] = "ready"
  BY <1>1, <1>2, KeepsBytes DEF ReadyIsStored, StoredAssets, Needed
<1>3. CASE row[a] # "ready"
  <2>1. PICK c \in Confirmation : confirm[c].call = "update" /\ confirm[c].asset = a
    BY <1>3, RowsStep
  <2>2. Stored(o)
    BY <1>1, <2>1, ObjectFacts DEF ChecksHold
  <2> QED BY <1>1, <2>2, KeepsBytes
<1> QED BY <1>2, <1>3

LEMMA InvariantInit == CloudInit => CloudInvariant
<1> SUFFICES ASSUME CloudInit PROVE CloudInvariant
  OBVIOUS
<1>1. CloudTypeOK
  BY InitTyped
<1>2. CallsFit /\ ChecksHold
  BY DEF CloudInit, CallsFit, ChecksHold, IdleConfirmation
<1>3. LockHeld /\ SelectionHolds /\ StagingFits
  BY DEF CloudInit, IdleDeletion, LockHeld, SelectionHolds, StagingFits, LockedStep
<1>4. BackupsBelong
  BY DEF CloudInit, IdleDeletion, BackupsBelong, BackedUp, NoBackup
<1>5. ReadyIsStored
  BY DEF CloudInit, RowsInit, ReadyIsStored
<1> QED BY <1>1, <1>2, <1>3, <1>4, <1>5 DEF CloudInvariant

LEMMA InvariantStep == CloudInvariant /\ [Next]_vars => CloudInvariant'
BY StepTyped, LockStep, SelectionStep, BackupsStep, StagingStep, ChecksStep, ReadyStep
DEF CloudInvariant

\* The rows that deletions have selected stay, no backup is missing for what a
\* deletion removes, and the objects of a ready asset are at their keys or
\* among the backups.
THEOREM CloudInvariantHolds == Spec => []CloudInvariant
BY InvariantInit, InvariantStep, PTL DEF Spec

-----------------------------------------------------------------------------
(* Refinement *)

LEMMA StoredUnchanged == UNCHANGED <<bucket, backup>> => UNCHANGED StoredAssets
BY DEF StoredAssets, Stored, Exists, BackedUp

LEMMA LifecycleInit == CloudInit => Lifecycle!Init
BY DEF CloudInit, RowsInit, Lifecycle!Init, StoredAssets

LEMMA LifecycleStep ==
  ASSUME CloudInvariant, CloudInvariant', [Next]_vars
  PROVE  [Lifecycle!Next]_Lifecycle!vars
<1> USE DEF CloudInvariant
<1>1. CASE UNCHANGED row
  <2>1. Lifecycle!Ready \subseteq StoredAssets'
    BY <1>1 DEF Lifecycle!Ready, ReadyIsStored
  <2>2. StoredAssets' \subseteq Asset
    BY DEF StoredAssets
  <2> QED BY <1>1, <2>1, <2>2 DEF Lifecycle!Next, Lifecycle!MoveBytes
<1>2. ASSUME NEW a \in Asset, Create(a) PROVE Lifecycle!Next
  <2>1. UNCHANGED StoredAssets
    BY <1>2, StoredUnchanged DEF Create
  <2>2. Lifecycle!Reserve(a)
    BY <1>2, <2>1 DEF Create, InsertRow, Lifecycle!Reserve
  <2> QED BY <2>2 DEF Lifecycle!Next
<1>3. ASSUME NEW c \in Confirmation, Publish(c) PROVE Lifecycle!Next
  <2> DEFINE a == confirm[c].asset
  <2>1. UNCHANGED StoredAssets
    BY <1>3, StoredUnchanged DEF Publish
  <2>2. /\ a \in Asset /\ Present(a) /\ row' = [row EXCEPT ![a] = "ready"]
        /\ confirm[c].call = "update"
    BY <1>3 DEF Publish, MarkReady, At, AssetOf, CallsFit
  <2>3. a \in StoredAssets
    BY <2>2, NeededStored DEF ChecksHold, Present
  <2>4. Lifecycle!Confirm(a)
    BY <2>1, <2>2, <2>3 DEF Lifecycle!Confirm, Present
  <2> QED BY <2>2, <2>4 DEF Lifecycle!Next
<1>4. ASSUME NEW d \in Deletion, Commit(d) \/ InterruptCommit(d), DeletionAction(d)
      PROVE  Lifecycle!Next
  <2> DEFINE removed == deletion[d].targets
  <2>1. UNCHANGED StoredAssets
    BY <1>4, StoredUnchanged DEF Commit, InterruptCommit
  <2>2. removed \in SUBSET Asset /\ \A a \in removed : Present(a)
    BY <1>4, OwnSteps DEF SelectionHolds, CloudTypeOK
  <2>3. row' = [a \in Asset |-> IF a \in removed THEN "deleted" ELSE row[a]]
    BY <1>4, OwnSteps DEF DeleteRows
  <2>4. Lifecycle!Remove(removed)
    BY <2>1, <2>2, <2>3 DEF Lifecycle!Remove, Present
  <2> QED BY <2>2, <2>4 DEF Lifecycle!Next
<1>5. ASSUME NEW a \in Asset, NEW x \in Content, Put(a, x) PROVE UNCHANGED row
  BY <1>5 DEF Put
<1>6. CASE Crash \/ UNCHANGED vars
  BY <1>1, <1>6 DEF Crash, vars
<1>7. CASE \E c \in Confirmation : ConfirmationStep(c)
  BY <1>1, <1>3, <1>7, ConfirmationFrame
<1>8. CASE \E d \in Deletion : DeletionAction(d)
  BY <1>1, <1>4, <1>8, DeletionRows
<1> QED BY <1>1, <1>2, <1>5, <1>6, <1>7, <1>8 DEF Next

\* Over S3 the library behaves as AssetLifecycle says, although every copy and
\* removal is a call of its own: however many confirmations, deletions,
\* failures and crashes there are, and whatever browsers PUT meanwhile.
THEOREM CloudImplementsLifecycle == Spec => ImplementsLifecycle
<1>1. CloudInvariant /\ CloudInvariant' /\ [Next]_vars => [Lifecycle!Next]_Lifecycle!vars
  BY LifecycleStep
<1>2. Spec => []CloudInvariant
  BY CloudInvariantHolds
<1> QED BY <1>1, <1>2, LifecycleInit, PTL DEF Spec, ImplementsLifecycle, Lifecycle!Spec

-----------------------------------------------------------------------------
(* Contents *)

LEMMA FinalsInit == CloudInit => FinalsAreSigned
BY DEF CloudInit, NoBackup, FinalsAreSigned, Object, Final, Thumbnail

LEMMA FinalsStep ==
  ASSUME CloudInvariant, FinalsAreSigned, [Next]_vars
  PROVE  FinalsAreSigned'
<1> USE DEF CloudInvariant, CloudTypeOK
<1> SUFFICES ASSUME NEW a \in Asset, NEW o \in Object, o = Final(a)
             PROVE  /\ bucket'[o] \in Signed \cup {None}
                    /\ \A d \in Deletion : backup'[d][o] \in Signed \cup {None}
  BY ObjectFacts DEF FinalsAreSigned, Final
<1>0. /\ bucket[o] \in Signed \cup {None}
      /\ \A d \in Deletion : backup[d][o] \in Signed \cup {None}
      /\ \A b \in Asset : o # Pending(b) /\ Pending(b) \in Object /\ Final(b) \in Object
  BY ObjectFacts DEF FinalsAreSigned
<1>1. CASE UNCHANGED <<bucket, backup>>
  BY <1>0, <1>1
<1>2. CASE \E b \in Asset : Create(b) \/ \E x \in Content : Put(b, x)
  BY <1>0, <1>2, ClientStep
<1>3. ASSUME NEW c \in Confirmation, ConfirmationStep(c)
      PROVE  UNCHANGED backup /\ bucket'[o] \in Signed \cup {None}
  BY <1>0, <1>3, ConfirmationFrame, ConfirmationBucket
<1>4. ASSUME NEW d \in Deletion, NEW p \in Object, CopyToBackup(d, p)
      PROVE  UNCHANGED bucket /\ \A e \in Deletion : backup'[e][o] \in Signed \cup {None}
  BY <1>0, <1>4 DEF CopyToBackup
<1>5. ASSUME NEW d \in Deletion, NEW p \in Object, RestoreObject(d, p)
      PROVE  UNCHANGED backup /\ bucket'[o] \in Signed \cup {None}
  BY <1>0, <1>5 DEF RestoreObject
<1>6. ASSUME NEW d \in Deletion, RemoveSource(d)
      PROVE  UNCHANGED backup /\ bucket'[o] \in Signed \cup {None}
  BY <1>0, <1>6 DEF RemoveSource
<1>7. ASSUME NEW d \in Deletion, FinishRestore(d) \/ FinishDeletion(d)
      PROVE  UNCHANGED bucket /\ \A e \in Deletion : backup'[e][o] \in Signed \cup {None}
  BY <1>0, <1>7 DEF FinishRestore, FinishDeletion, RemoveBackups
<1>8. CASE \E d \in Deletion : DeletionAction(d)
  BY <1>0, <1>1, <1>4, <1>5, <1>6, <1>7, <1>8, DeletionMoves
<1>9. CASE Crash \/ UNCHANGED vars
  BY <1>1, <1>9 DEF Crash, vars
<1> QED BY <1>0, <1>2, <1>3, <1>8, <1>9 DEF Next

\* CopyObject insists on the ETag that was inspected: whatever browsers PUT
\* meanwhile, a confirmed object has the size and the header of its row, also
\* after a deletion has copied it away and back.
THEOREM ConfirmedObjectsAreSigned == Spec => []PublishedObjectsAreSigned
<1>1. FinalsAreSigned => PublishedObjectsAreSigned
  BY DEF FinalsAreSigned, PublishedObjectsAreSigned, Exists
<1>2. CloudInvariant /\ FinalsAreSigned /\ [Next]_vars => FinalsAreSigned'
  BY FinalsStep
<1> QED BY <1>1, <1>2, FinalsInit, CloudInvariantHolds, PTL DEF Spec

-----------------------------------------------------------------------------
(* Finality, when the confirmations of an asset come one after the other *)

\* Nobody confirms what is published.
ConfirmedIsPending ==
  \A c \in Confirmation : confirm[c].call # "idle" => row[confirm[c].asset] # "ready"

\* What a deletion would put back over a published object is that object.
BackupsAgree ==
  \A d \in Deletion : \A a \in deletion[d].targets :
     LET o == Final(a) IN
     deletion[d].step \in LockedStep /\ row[a] = "ready" /\ o \in BackedUp(d) /\ Exists(o) =>
        backup[d][o] = bucket[o]

SerialInvariant == OneAtATime /\ ConfirmedIsPending /\ BackupsAgree

LEMMA SerialInit == CloudInit => SerialInvariant
<1> SUFFICES ASSUME CloudInit PROVE SerialInvariant
  OBVIOUS
<1>1. \A c \in Confirmation : confirm[c].call = "idle"
  BY DEF CloudInit, IdleConfirmation
<1>2. \A d \in Deletion : deletion[d].step = "idle"
  BY DEF CloudInit, IdleDeletion
<1> QED
  BY <1>1, <1>2 DEF SerialInvariant, OneAtATime, At, ConfirmedIsPending, BackupsAgree, LockedStep

LEMMA ConfirmedStep ==
  ASSUME CloudInvariant, SerialInvariant, [Next]_vars PROVE ConfirmedIsPending'
<1> USE DEF CloudInvariant, CloudTypeOK, RowsTypeOK
<1> SUFFICES ASSUME NEW c \in Confirmation, confirm'[c].call # "idle",
                    NEW a \in Asset, a = confirm'[c].asset, row'[a] = "ready"
             PROVE  FALSE
  <2>1. CallsFit'
    BY StepTyped
  <2> QED BY <2>1 DEF CallsFit, ConfirmedIsPending
<1>1. CASE confirm'[c] = confirm[c]
  <2>1. row[a] # "ready" /\ confirm[c].call # "idle" /\ confirm[c].asset = a
    BY <1>1 DEF SerialInvariant, ConfirmedIsPending
  <2>2. PICK e \in Confirmation : confirm[e].call = "update" /\ confirm[e].asset = a
    BY <2>1, RowsStep
  <2>3. e = c
    BY <2>1, <2>2 DEF SerialInvariant, OneAtATime, At, AssetOf
  <2>4. Publish(e)
    <3>1. ~UNCHANGED row
      BY <2>1
    <3>2. \E f \in Confirmation : Publish(f) /\ confirm[f].asset = a
      <4>1. ASSUME NEW f \in Confirmation, Publish(f) PROVE confirm[f].asset = a
        BY <1>1, <2>1, <4>1 DEF Publish, MarkReady, AssetOf
      <4>2. ASSUME NEW d \in Deletion, DeletionAction(d) PROVE FALSE
        BY <2>1, <4>2, DeletionRows
           DEF Commit, InterruptCommit, CommitDeletion, DeleteRows
      <4>3. ASSUME NEW b \in Asset, Create(b) \/ \E x \in Content : Put(b, x) PROVE FALSE
        BY <2>1, <4>3, ClientStep
      <4> QED
        BY <3>1, <4>1, <4>2, <4>3, ConfirmationFrame DEF Next, Crash, vars
    <3>3. PICK f \in Confirmation : Publish(f) /\ confirm[f].asset = a
      BY <3>2
    <3>4. confirm[f].call = "update"
      BY <3>3 DEF Publish, At
    <3> QED BY <2>2, <3>3, <3>4 DEF SerialInvariant, OneAtATime, At, AssetOf
  <2> QED BY <1>1, <2>2, <2>3, <2>4 DEF Publish, IdleConfirmation
<1>2. CASE confirm'[c] # confirm[c]
  <2>1. CASE Crash
    BY <2>1 DEF Crash, IdleConfirmation
  <2>2. CASE ConfirmationStep(c)
    <3>1. CASE \E b \in Asset : StartConfirmation(c, b)
      BY <3>1 DEF StartConfirmation
    <3>2. CASE Publish(c) \/ FailConfirmation(c)
      BY <3>2 DEF Publish, FailConfirmation, IdleConfirmation
    <3>3. CASE InspectPending(c) \/ InspectFinal(c) \/ CopyUpload(c) \/ DiscardUpload(c)
                 \/ DecodeImage(c) \/ CheckThumbnail(c)
      <4>1. confirm[c].call # "idle" /\ row' = row
        BY <3>3 DEF InspectPending, InspectFinal, CopyUpload, DiscardUpload, DecodeImage,
                    CheckThumbnail, At
      <4>2. confirm'[c].asset = confirm[c].asset
        BY <3>3 DEF InspectPending, InspectFinal, CopyUpload, DiscardUpload, DecodeImage,
                    CheckThumbnail, Proceed
      <4> QED BY <4>1, <4>2 DEF SerialInvariant, ConfirmedIsPending
    <3> QED BY <2>2, <3>1, <3>2, <3>3 DEF ConfirmationStep
  <2>3. ASSUME NEW e \in Confirmation, e # c, ConfirmationStep(e) PROVE FALSE
    BY <1>2, <2>3, ConfirmationFrame
  <2>4. ASSUME NEW d \in Deletion, DeletionAction(d) PROVE UNCHANGED confirm
    BY <2>4 DEF DeletionAction, StartDeletion, RefuseDeletion, BeginStaging, SkipMissing,
                CopyToBackup, RestoreObject, RemoveSource, FailDeletion, Commit, InterruptCommit,
                FailRestore, FinishRestore, RollbackDeletion, FinishDeletion
  <2> QED BY <1>2, <2>1, <2>2, <2>3, <2>4, ClientStep DEF Next, vars
<1> QED BY <1>1, <1>2

\* The object of a published asset only changes by being removed, or put back by
\* the deletion that holds the lock.
LEMMA FinalMoves ==
  ASSUME CloudInvariant, SerialInvariant, [Next]_vars, NEW a \in Asset, row[a] = "ready",
         NEW o \in Object, o = Final(a)
  PROVE  \/ bucket'[o] \in {bucket[o], None}
         \/ \E d \in Deletion : /\ deletion[d].step = "restoring" /\ a \in deletion[d].targets
                                /\ o \in BackedUp(d) /\ bucket'[o] = backup[d][o]
                                /\ UNCHANGED backup
<1> USE DEF CloudInvariant, CloudTypeOK
<1> DEFINE Same == bucket'[o] = bucket[o]
           Restored == \E d \in Deletion : /\ deletion[d].step = "restoring"
                                            /\ a \in deletion[d].targets
                                            /\ o \in BackedUp(d) /\ bucket'[o] = backup[d][o]
                                            /\ UNCHANGED backup
<1>0. \A b \in Asset : o # Pending(b) /\ (o = Final(b) => a = b) /\ Final(b) \in Object
                      /\ Pending(b) \in Object
  BY ObjectFacts
<1>1. CASE UNCHANGED bucket
  BY <1>1
<1>2. ASSUME NEW b \in Asset, Create(b) \/ \E x \in Content : Put(b, x) PROVE Same
  BY <1>0, <1>2, ClientStep
<1>3. ASSUME NEW c \in Confirmation, ConfirmationStep(c) PROVE Same
  <2>1. confirm[c].call = "copy" => confirm[c].asset # a
    BY DEF SerialInvariant, ConfirmedIsPending
  <2> QED BY <1>0, <1>3, <2>1, ConfirmationBucket
<1>4. ASSUME NEW d \in Deletion, NEW p \in Object, RestoreObject(d, p) PROVE Same \/ Restored
  <2>1. CASE p # o
    BY <1>4, <2>1 DEF RestoreObject
  <2>2. CASE p = o
    <3>1. /\ deletion[d].step \in {"restoring", "interrupted"} /\ o \in BackedUp(d)
          /\ bucket'[o] = backup[d][o] /\ UNCHANGED backup
      BY <1>4, <2>2 DEF RestoreObject, StagingFits
    <3>2. a \in deletion[d].targets
      <4>1. PICK b \in deletion[d].targets : o \in ObjectsOf(b)
        BY <3>1 DEF BackupsBelong, ObjectsOfAll
      <4>2. b \in Asset /\ o \in ObjectsOf(a)
        BY DEF ObjectsOf
      <4> QED BY <4>1, <4>2, ObjectFacts
    <3>3. deletion[d].step = "restoring"
      BY <3>1, <3>2 DEF SelectionHolds
    <3> QED BY <3>1, <3>2, <3>3
  <2> QED BY <2>1, <2>2
<1>5. ASSUME NEW d \in Deletion, RemoveSource(d) PROVE bucket'[o] \in {bucket[o], None}
  BY <1>5 DEF RemoveSource
<1>6. ASSUME NEW d \in Deletion, DeletionAction(d)
      PROVE  bucket'[o] \in {bucket[o], None} \/ Restored
  BY <1>1, <1>4, <1>5, <1>6, DeletionMoves DEF CopyToBackup, FinishRestore, FinishDeletion
<1>7. CASE Crash \/ UNCHANGED vars
  BY <1>1, <1>7 DEF Crash, vars
<1> QED BY <1>2, <1>3, <1>6, <1>7 DEF Next

LEMMA FinalStep == CloudInvariant /\ SerialInvariant /\ [Next]_vars => ObjectsStayFinal
<1> SUFFICES ASSUME CloudInvariant, SerialInvariant, [Next]_vars, NEW a \in Asset,
                    row[a] = "ready", Exists(Final(a))
             PROVE  bucket'[Final(a)] \in {bucket[Final(a)], None}
  BY DEF ObjectsStayFinal
<1>1. Final(a) \in Object
  BY ObjectFacts
<1>2. ASSUME NEW d \in Deletion, deletion[d].step = "restoring", a \in deletion[d].targets,
             Final(a) \in BackedUp(d)
      PROVE  backup[d][Final(a)] = bucket[Final(a)]
  BY <1>2 DEF SerialInvariant, BackupsAgree, LockedStep
<1> QED BY <1>1, <1>2, FinalMoves

\* Only with the lock free is a row published.
LEMMA PublishedUnlocked ==
  ASSUME CloudInvariant, [Next]_vars, NEW a \in Asset, row[a] # "ready", row'[a] = "ready"
  PROVE  writer = Unlocked
<1> USE DEF CloudInvariant, CloudTypeOK, RowsTypeOK
<1>1. ASSUME NEW c \in Confirmation, ConfirmationStep(c) PROVE writer = Unlocked
  BY <1>1, ConfirmationFrame DEF Publish, MarkReady
<1>2. ASSUME NEW d \in Deletion, DeletionAction(d) PROVE FALSE
  BY <1>2, DeletionRows DEF Commit, InterruptCommit, CommitDeletion, DeleteRows
<1>3. ASSUME NEW b \in Asset, Create(b) \/ \E x \in Content : Put(b, x) PROVE FALSE
  BY <1>3, ClientStep
<1> QED BY <1>1, <1>2, <1>3 DEF Next, Crash, vars

LEMMA AgreeStep ==
  ASSUME CloudInvariant, CloudInvariant', SerialInvariant, [Next]_vars PROVE BackupsAgree'
<1> USE DEF CloudInvariant, CloudTypeOK
<1> SUFFICES ASSUME NEW d \in Deletion, NEW a \in deletion'[d].targets, NEW o \in Object,
                    o = Final(a), deletion'[d].step \in LockedStep, row'[a] = "ready",
                    o \in BackedUp(d)', Exists(o)'
             PROVE  backup'[d][o] = bucket'[o]
  <2>1. \A e \in Deletion : deletion'[e].targets \subseteq Asset
    OBVIOUS
  <2> QED BY <2>1, ObjectFacts DEF BackupsAgree, BackedUp
<1>0. a \in Asset /\ backup'[d][o] # None /\ bucket'[o] # None
  BY DEF BackedUp, Exists
\* The deletion is one that was under way, and its backup the one it had.
<1>1. ASSUME deletion'[d].targets = deletion[d].targets, deletion[d].step \in LockedStep,
             backup'[d][o] = backup[d][o]
      PROVE  backup'[d][o] = bucket'[o]
  <2>1. row[a] = "ready"
    BY <1>0, <1>1, PublishedUnlocked, RowsAssumption DEF LockHeld
  <2>2. CASE bucket'[o] \in {bucket[o], None}
    <3>1. bucket'[o] = bucket[o] /\ Exists(o) /\ o \in BackedUp(d)
      BY <1>0, <1>1, <2>2 DEF Exists, BackedUp
    <3> QED BY <1>1, <2>1, <3>1 DEF SerialInvariant, BackupsAgree
  <2>3. ASSUME NEW e \in Deletion, deletion[e].step = "restoring", bucket'[o] = backup[e][o]
        PROVE  backup'[d][o] = bucket'[o]
    <3>1. e = d
      BY <1>1, <2>3 DEF LockHeld, LockedStep
    <3> QED BY <1>1, <2>3, <3>1
  <2> QED BY <1>0, <2>1, <2>2, <2>3, FinalMoves
<1>2. CASE UNCHANGED <<deletion, backup>>
  BY <1>1, <1>2
<1>3. CASE Crash
  BY <1>3 DEF Crash, InStep, IdleDeletion, LockedStep
<1>4. ASSUME NEW e \in Deletion \ {d}, DeletionAction(e) PROVE backup'[d][o] = bucket'[o]
  <2>1. deletion'[d] = deletion[d] /\ backup'[d] = backup[d]
    BY <1>4, DeletionsApart, BackupsApart
  <2> QED BY <1>1, <2>1
<1>5. CASE DeletionAction(d)
  <2>1. deletion'[d].step # "selected"
    BY DEF BackupsBelong
  <2>2. deletion[d].step \in LockedStep /\ deletion'[d].targets = deletion[d].targets
    BY <1>5, <2>1, OwnSteps DEF StartDeletion
  <2>3. CASE UNCHANGED <<bucket, backup>> \/ RemoveSource(d) \/ \E p \in Object : RestoreObject(d, p)
    BY <1>1, <2>2, <2>3 DEF RemoveSource, RestoreObject
  <2>4. ASSUME NEW p \in Object, CopyToBackup(d, p) PROVE backup'[d][o] = bucket'[o]
    <3>1. backup' = [backup EXCEPT ![d][p] = bucket[p]] /\ UNCHANGED bucket
      BY <2>4 DEF CopyToBackup
    <3>2. CASE p = o
      BY <3>1, <3>2
    <3>3. CASE p # o
      BY <1>1, <2>2, <3>1, <3>3
    <3> QED BY <3>2, <3>3
  <2>5. CASE FinishRestore(d) \/ FinishDeletion(d)
    <3>1. PICK left \in SUBSET BackedUp(d) :
            backup' = [backup EXCEPT ![d] = [p \in Object |-> IF p \in left THEN @[p] ELSE None]]
      BY <2>5 DEF FinishRestore, FinishDeletion, RemoveBackups
    <3>2. backup'[d][o] = backup[d][o]
      BY <1>0, <3>1
    <3> QED BY <1>1, <2>2, <3>2
  <2> QED BY <1>5, <2>3, <2>4, <2>5, DeletionMoves
<1> QED BY <1>2, <1>3, <1>4, <1>5, OthersFrame DEF Next, vars

LEMMA SerialStep ==
  CloudInvariant /\ CloudInvariant' /\ SerialInvariant /\ [Next /\ OneAtATime']_vars
     => SerialInvariant'
<1>1. ASSUME UNCHANGED vars, OneAtATime PROVE OneAtATime'
  BY <1>1 DEF vars, OneAtATime, At, AssetOf
<1> QED BY <1>1, ConfirmedStep, AgreeStep DEF SerialInvariant

\* While the confirmations of an asset come one after the other, no URL, deletion,
\* failure or crash replaces a published object: it can only be removed, and what is
\* put back is what was there.
THEOREM SerialConfirmationsKeepObjects == SerialSpec => PublishedObjectsAreFinal
<1>1. CloudInvariant /\ [Next /\ OneAtATime']_vars => CloudInvariant'
  BY InvariantStep
<1>2. CloudInvariant /\ SerialInvariant /\ [Next /\ OneAtATime']_vars
        => SerialInvariant' /\ [ObjectsStayFinal]_vars
  BY <1>1, SerialStep, FinalStep
<1> QED BY <1>1, <1>2, InvariantInit, SerialInit, PTL DEF SerialSpec, PublishedObjectsAreFinal

===============================================================================
