--------------------------- MODULE LibraryHistory ---------------------------
(***************************************************************************)
(* LocalLibrary with two history variables, which no action reads.  The    *)
(* upload route accepts any number of PUTs while an asset is pending, so a *)
(* PUT may replace the bytes that a confirmation has already looked at, or *)
(* those of an asset confirmed while the body arrived.  What is promised   *)
(* of published bytes is said relative to these events.                    *)
(***************************************************************************)
EXTENDS LocalLibrary

VARIABLES
  outdated,  \* confirmations whose inspected bytes have been replaced
  replaced   \* ready assets whose bytes are not those of their confirmation

historyVars == <<localVars, outdated, replaced>>

Looked(c) == confirm[c].check \in {"decode", "thumbnail", "update"}

\* New bytes are put over others, by a PUT or by a deletion that puts its
\* files back, or a PUT takes the place of bytes that a deletion has moved.
Overwritten(a) ==
  /\ files'[MainKey(a)] \notin {files[MainKey(a)], None}
  /\ \/ Exists(MainKey(a))
     \/ \E u \in Upload : UploadOf[u] = a /\ upload'[u] # upload[u]

Outdates(c) == c \in outdated \/ Overwritten(confirm[c].asset)

\* A ready asset is overwritten, or an outdated confirmation publishes one.
Replaces(a) ==
  \/ a \in replaced
  \/ row[a] = "ready" /\ Overwritten(a)
  \/ row[a] # "ready" /\ \E c \in outdated : confirm[c].asset = a /\ ~Looked(c)'

HistoryInit == LocalInit /\ outdated = {} /\ replaced = {}

HistoryNext ==
  /\ LocalNext
  /\ outdated' = {c \in Confirmation : Looked(c) /\ Looked(c)' /\ Outdates(c)}
  /\ replaced' = {a \in Asset : row'[a] = "ready" /\ Replaces(a)}

HistorySpec == HistoryInit /\ [][HistoryNext]_historyVars

-----------------------------------------------------------------------------

\* What is listed has passed the checks of its format, unless its bytes were
\* overwritten after a confirmation had looked at them: deletions that move
\* bytes away and back, repeated uploads before the inspection, confirmations
\* that overlap and crashes never publish or uncover bytes that no check has
\* seen (LibraryService.complete, finalize_upload, stage_delete).
ValidFor(a) == IF a \in Image THEN Signed \cap Decodable ELSE Signed
PublishedBytesAreValid ==
  \A a \in Asset \ replaced :
     row[a] = "ready" /\ Exists(MainKey(a)) => files[MainKey(a)] \in ValidFor(a)
=============================================================================
