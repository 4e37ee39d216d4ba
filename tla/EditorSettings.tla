--------------------------- MODULE EditorSettings ---------------------------
(***************************************************************************)
(* The settings of the editor: the renderer, and with the grid those that  *)
(* apply at once (frontend/packages/actions/src/user-settings and          *)
(* frontend/apps/host/src/providers/user-settings-provider.tsx).           *)
(*                                                                         *)
(* What the browser stores wins over the published profile.  A guest       *)
(* changes only what is stored; an editor's change is published too, and   *)
(* a change of the renderer waits for that before it is stored and the     *)
(* document reloads.  Meanwhile the session may end, the guest may change  *)
(* other settings and somebody may sign in: three versions tell which      *)
(* answer still counts.                                                    *)
(***************************************************************************)
EXTENDS Integers, FiniteSets

CONSTANTS
  Absent,          \* a preference that is not stored
  MaxChanges,      \* bound: versions of the edits, which count the user's changes
  MaxSwitches,     \* bound: sign-ins and ends of sessions in one document
  MaxDocuments,    \* bound: documents, the first and those after a reload
  MaxStoreFaults   \* bound: writes that the local storage refuses

ASSUME SettingsAssumption ==
  /\ Absent \notin BOOLEAN
  /\ {MaxChanges, MaxSwitches, MaxDocuments, MaxStoreFaults} \subseteq Nat

VARIABLES
  stored,       \* what localStorage has under the settings' key
  applied,      \* the settings in the store: what the scene is drawn with
  document,     \* whether settings are loaded, may be published, and will be reloaded
  versions,     \* authVersion, editVersion and loadVersion
  documents,    \* how many documents there were
  reads,        \* loads that await the profile
  saves,        \* an editor's changes that await their answer
  lastGrid,     \* history: the user's last choice of the grid that was kept
  storeFaults   \* how many writes were refused

settingsVars == <<stored, applied, document, versions, documents, reads, saves, lastGrid, storeFaults>>

Preferences == [tiles : BOOLEAN, grid : BOOLEAN]

(* The initial state of the store, and the fallback of a viewer offline. *)
Defaults == [tiles |-> FALSE, grid |-> TRUE]

-----------------------------------------------------------------------------
(* A document starts with the defaults, as a guest, and loads.  React's    *)
(* strict mode runs the effect twice: the first load is cancelled.         *)

Opening == [ready |-> FALSE, failed |-> FALSE, reloading |-> FALSE, canEdit |-> FALSE]

OpeningVersions(strict) ==
  IF strict THEN [auth |-> 0, edit |-> 1, load |-> 3] ELSE [auth |-> 0, edit |-> 0, load |-> 1]

OpeningReads(strict) ==
  IF strict THEN {[request |-> 1, version |-> 0], [request |-> 3, version |-> 1]}
  ELSE {[request |-> 1, version |-> 0]}

SettingsInit ==
  /\ stored \in [tiles : BOOLEAN \cup {Absent}, grid : BOOLEAN \cup {Absent}]
  /\ applied = Defaults /\ saves = {} /\ lastGrid = Absent /\ storeFaults = 0
  /\ document = Opening /\ documents = 1
  /\ \E strict \in BOOLEAN : versions = OpeningVersions(strict) /\ reads = OpeningReads(strict)

(* The document is gone, by window.location.reload or by the user: what    *)
(* it waited for reaches nobody.                                           *)
NewDocument ==
  /\ documents < MaxDocuments
  /\ documents' = documents + 1
  /\ document' = Opening /\ versions' = OpeningVersions(FALSE) /\ reads' = OpeningReads(FALSE)
  /\ applied' = Defaults /\ saves' = {}
  /\ UNCHANGED <<stored, lastGrid, storeFaults>>

-----------------------------------------------------------------------------
(* Loading.  A stored preference has priority over the published one. *)

readEditorSettings(fallback) ==
  [tiles |-> IF stored.tiles = Absent THEN fallback.tiles ELSE stored.tiles,
   grid |-> IF stored.grid = Absent THEN fallback.grid ELSE stored.grid]

(* The profile has arrived, or the defaults stand in for it.  A cancelled  *)
(* load ends without a trace; one that an edit overtook applies nothing.   *)
FinishLoad ==
  \E r \in reads, fallback \in Preferences :
    /\ reads' = reads \ {r}
    /\ UNCHANGED <<versions, documents, saves, lastGrid, storeFaults>>
    /\ IF r.request # versions.load THEN UNCHANGED <<stored, applied, document>>
       ELSE /\ document' = [document EXCEPT !.ready = TRUE]
            /\ IF r.version # versions.edit THEN UNCHANGED <<stored, applied>>
               ELSE /\ stored' = readEditorSettings(fallback)
                    /\ applied' = readEditorSettings(fallback)

StoreRefuses == storeFaults < MaxStoreFaults /\ storeFaults' = storeFaults + 1

FailLoad ==
  \E r \in reads :
    /\ StoreRefuses
    /\ r.request = versions.load /\ r.version = versions.edit
    /\ reads' = reads \ {r}
    /\ document' = [document EXCEPT !.failed = TRUE]
    /\ UNCHANGED <<stored, applied, versions, documents, saves, lastGrid>>

(* The button is there while nothing was ever loaded and an error shows. *)
RetryLoad ==
  /\ ~document.ready /\ document.failed
  /\ document' = [document EXCEPT !.failed = FALSE]
  /\ versions' = [versions EXCEPT !.load = @ + 1]
  /\ reads' = reads \cup {[request |-> versions.load + 1, version |-> versions.edit]}
  /\ UNCHANGED <<stored, applied, documents, saves, lastGrid, storeFaults>>

-----------------------------------------------------------------------------
(* Changing.  A checkbox turns one setting over; an editor's changes come  *)
(* one at a time, those of a guest whenever the settings are ready.        *)

MaySave ==
  /\ document.ready /\ ~(document.canEdit /\ saves # {})
  /\ versions.edit < MaxChanges

Edited == [versions EXCEPT !.edit = @ + 1]

Asked(next) ==
  IF document.canEdit
  THEN saves \cup {[next |-> next, version |-> versions.edit + 1, auth |-> versions.auth]}
  ELSE saves

(* The grid applies at once, and is published if an editor changed it. *)
SaveGrid ==
  LET next == [applied EXCEPT !.grid = ~@] IN
  /\ MaySave
  /\ stored' = next /\ applied' = next /\ lastGrid' = next.grid
  /\ versions' = Edited /\ saves' = Asked(next)
  /\ UNCHANGED <<document, documents, reads, storeFaults>>

(* The renderer on the screen stays; the document that follows has the new *)
(* one.  An editor's choice must be published first.                       *)
SaveRenderer ==
  LET next == [applied EXCEPT !.tiles = ~@] IN
  /\ MaySave
  /\ versions' = Edited /\ saves' = Asked(next)
  /\ IF document.canEdit THEN UNCHANGED <<document, stored>>
     ELSE document' = [document EXCEPT !.reloading = TRUE] /\ stored' = next
  /\ UNCHANGED <<applied, documents, reads, lastGrid, storeFaults>>

(* The storage throws before anything is applied or published. *)
FailSave ==
  /\ MaySave /\ StoreRefuses
  /\ versions' = Edited
  /\ UNCHANGED <<stored, applied, document, documents, reads, saves, lastGrid>>

(* Mutant: an answer counts however late it is. *)
StillCounts_Always(s) == TRUE

(* Late editor responses cannot overwrite viewer edits or reload a new session. *)
StillCounts(s) == s.version = versions.edit /\ s.auth = versions.auth

(* Nothing is left to do when the change is refused, its answer is lost or *)
(* late, or it is applied already.  A published renderer is stored, and    *)
(* the document asked to reload.                                           *)
SaveAnswered ==
  \E s \in saves :
    /\ saves' = saves \ {s}
    /\ UNCHANGED <<applied, versions, documents, reads, lastGrid>>
    /\ \/ UNCHANGED <<stored, document, storeFaults>>
       \/ /\ StillCounts(s) /\ s.next.tiles # applied.tiles
          /\ \/ /\ stored' = s.next
                /\ document' = [document EXCEPT !.reloading = TRUE]
                /\ UNCHANGED storeFaults
             \/ StoreRefuses /\ UNCHANGED <<stored, document>>

(* The session is found, signed in, ended or expired (AuthProvider). *)
SetCanEdit ==
  /\ versions.auth < MaxSwitches
  /\ document' = [document EXCEPT !.canEdit = ~@]
  /\ versions' = [versions EXCEPT !.auth = @ + 1]
  /\ UNCHANGED <<stored, applied, documents, reads, saves, lastGrid, storeFaults>>

SettingsNext ==
  \/ NewDocument \/ FinishLoad \/ FailLoad \/ RetryLoad
  \/ SaveGrid \/ SaveRenderer \/ FailSave \/ SaveAnswered \/ SetCanEdit

SettingsSpec == SettingsInit /\ [][SettingsNext]_settingsVars

-----------------------------------------------------------------------------
(* What is drawn is what the next document will be drawn with, but for a   *)
(* renderer that waits for its reload; and the grid is as the user chose   *)
(* it last.  So no late answer, no load and no profile undoes a choice,    *)
(* over sign-ins, sign-outs and documents (create-user-settings-actions,   *)
(* frontend README: local values "survive login/logout and session         *)
(* expiry").                                                               *)
SettingsAreKept ==
  document.ready =>
    /\ stored.grid = applied.grid
    /\ document.reloading \/ stored.tiles = applied.tiles
    /\ lastGrid = Absent \/ applied.grid = lastGrid
=============================================================================
