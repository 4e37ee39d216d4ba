---------------------------- MODULE LibraryRows ----------------------------
(***************************************************************************)
(* The table library_assets as LibraryService reads and writes it,         *)
(* whichever storage holds the objects.  The modules of the two storages   *)
(* extend this one.                                                        *)
(*                                                                         *)
(* The database is SQLite.  A confirmation reads its row without a         *)
(* transaction (with_for_update means nothing to SQLite) and takes the     *)
(* writer lock only for its final UPDATE; a deletion takes the lock first  *)
(* and keeps it over its file operations.                                  *)
(***************************************************************************)
CONSTANTS Asset,          \* identifiers that POST /library/uploads may draw
          Image,          \* the assets of an image format
          WithThumbnail,  \* the assets created with a thumbnail_key
          Deletion,       \* requests to delete assets, each made once
          Unlocked        \* nobody holds the writer lock

ASSUME RowsAssumption == /\ Image \subseteq Asset
                         /\ WithThumbnail \subseteq Asset
                         /\ Unlocked \notin Deletion

VARIABLES row,     \* the status column; "absent" and "deleted" rows do not exist
          writer   \* the deletion that holds the writer lock

rowVars == <<row, writer>>

Present(a) == row[a] \in {"pending", "ready"}

RowsTypeOK == /\ row \in [Asset -> {"absent", "pending", "ready", "deleted"}]
              /\ writer \in Deletion \cup {Unlocked}

RowsInit == /\ row = [a \in Asset |-> "absent"]
            /\ writer = Unlocked

InsertRow(a) == /\ row[a] = "absent"
                /\ writer = Unlocked
                /\ row' = [row EXCEPT ![a] = "pending"]
                /\ UNCHANGED writer

\* UPDATE ... WHERE id = a; when no row matches, the session raises and the
\* request fails, which each storage module has as a failing confirmation.
MarkReady(a) == /\ Present(a)
                /\ writer = Unlocked
                /\ row' = [row EXCEPT ![a] = "ready"]
                /\ UNCHANGED writer

BeginDeletion_NoLock(d, targets) == /\ \A a \in targets : Present(a)
                                    /\ writer' = d
                                    /\ UNCHANGED row

\* BEGIN IMMEDIATE, then every selected row must be there.
BeginDeletion(d, targets) == /\ writer = Unlocked
                             /\ \A a \in targets : Present(a)
                             /\ writer' = d
                             /\ UNCHANGED row

DeleteRows(targets) ==
    row' = [a \in Asset |-> IF a \in targets THEN "deleted" ELSE row[a]]

CommitDeletion(targets) == DeleteRows(targets) /\ writer' = Unlocked

Rollback == writer' = Unlocked /\ UNCHANGED row
=============================================================================
