---------------------------- MODULE ImportAttempt ----------------------------
(***************************************************************************)
(* The import of result files into the library storage                     *)
(* (services/job_completion.py over dev/library_storage.py): an attempt    *)
(* writes a recovery marker, copies its files object by object while a     *)
(* heartbeat renews the marker, publishes the rows in one transaction and  *)
(* cleans up; recovery, run by every consumer of every process, cleans the *)
(* attempts whose marker has expired.  The rows live in the database and   *)
(* the objects in the file system: nothing makes the two change together.  *)
(*                                                                         *)
(* Time is counted in heartbeat periods; a marker stores how many periods  *)
(* it still has to live.  The writer lock is SQLite's BEGIN IMMEDIATE: the *)
(* transactions of recovery, renewal and publication exclude one another,  *)
(* the copying of files takes place outside.                               *)
(***************************************************************************)
EXTENDS Naturals, FiniteSets, Sequences

CONSTANTS
  Job,
  Attempt,         \* attempts to import, each by a live delivery of some message
  JobOf,           \* JobOf[a]: the job that attempt a completes
  NumFiles,        \* files that an attempt copies to keys of its own
  SharedKey,       \* objects a producer put into the library storage itself
  Adopted,         \* Adopted[a]: the shared keys that attempt a's message names
  Recovery,        \* recovery loops
  Lifetime,        \* heartbeat periods until a marker expires (120 s / 15 s)
  MaxPulseFaults,  \* bound on heartbeats that fail
  MaxCleanFaults,  \* bound on cleanings that fail half way
  MaxCrashes       \* bound on processes that stop

ASSUME ImportAssumption ==
  /\ JobOf \in [Attempt -> Job]
  /\ NumFiles \in Nat
  /\ Adopted \in [Attempt -> SUBSET SharedKey]
  /\ SharedKey \cap (Attempt \X (1..NumFiles)) = {}
  /\ Attempt \cap Recovery = {}
  /\ Lifetime \in Nat \ {0, 1}
  /\ MaxPulseFaults \in Nat /\ MaxCleanFaults \in Nat /\ MaxCrashes \in Nat

VARIABLES
  ended,     \* jobs whose completed_at is set
  rows,      \* <<job, key>>: file rows of the job's ready assets
  live,      \* keys whose object exists in the library
  staged,    \* keys whose staged copy exists under _imports/
  marker,    \* marker[a]: periods left, or NoMarker when the file does not exist
  attempt,
  cleaner,   \* cleaner[p]: the cleaning that attempt or recovery p carries out
  lock,      \* the process in a long write transaction, or None
  faults     \* faults so far, by kind

importVars == <<ended, rows, live, staged, marker, attempt, cleaner, lock, faults>>

-----------------------------------------------------------------------------

None == "none"
NoMarker == Lifetime + 1        \* not a number of periods
Process == Attempt \cup Recovery
Key == (Attempt \X (1..NumFiles)) \cup SharedKey
OwnKeys(a) == {a} \X (1..NumFiles)
Targets(a) == OwnKeys(a) \cup Adopted[a]

Running == {"copying", "linking", "leaving"}
AttemptState == [phase : {"idle", "cleaning", "over"} \cup Running,
                 copied : 0..NumFiles,     \* files copied so far
                 pulse : BOOLEAN,          \* the heartbeat task is alive
                 renewed : BOOLEAN]        \* it has run in this period
CleanerState == [target : Attempt \cup {None},
                 done : 0..NumFiles,       \* keys cleaned so far
                 unlinked : BOOLEAN]       \* the destination of the next key is dealt with

IdleCleaner == [target |-> None, done |-> 0, unlinked |-> FALSE]
FaultKind == {"pulse", "clean", "crash"}
Bound == [pulse |-> MaxPulseFaults, clean |-> MaxCleanFaults, crash |-> MaxCrashes]

ImportTypeOK ==
  /\ ended \subseteq Job
  /\ rows \subseteq Job \X Key
  /\ live \subseteq Key
  /\ staged \subseteq Key
  /\ marker \in [Attempt -> 0..Lifetime + 1]
  /\ attempt \in [Attempt -> AttemptState]
  /\ cleaner \in [Process -> CleanerState]
  /\ lock \in Process \cup {None}
  /\ faults \in [FaultKind -> Nat]

Owned == {r[2] : r \in rows}

Init ==
  /\ ended = {}
  /\ rows = {}
  /\ live = SharedKey
  /\ staged = {}
  /\ marker = [a \in Attempt |-> NoMarker]
  /\ attempt = [a \in Attempt |-> [phase |-> "idle", copied |-> 0,
                                   pulse |-> FALSE, renewed |-> FALSE]]
  /\ cleaner = [p \in Process |-> IdleCleaner]
  /\ lock = None
  /\ faults = [f \in FaultKind |-> 0]

Fault(f) ==
  /\ faults[f] < Bound[f]
  /\ faults' = [faults EXCEPT ![f] = @ + 1]

-----------------------------------------------------------------------------
(* An attempt: JobCompletionService._attempt and _complete_pending *)

\* The first marker is written outside any transaction; then the heartbeat starts.
Begin(a) ==
  /\ attempt[a].phase = "idle"
  /\ JobOf[a] \notin ended
  /\ marker' = [marker EXCEPT ![a] = Lifetime]
  /\ attempt' = [attempt EXCEPT ![a] = [phase |-> "copying", copied |-> 0,
                                        pulse |-> TRUE, renewed |-> TRUE]]
  /\ UNCHANGED <<ended, rows, live, staged, cleaner, lock, faults>>

NextKey(a) == <<a, attempt[a].copied + 1>>

\* LocalLibraryStorage.write_import_object: the bytes are staged, then linked to the
\* key.  The link fails when the staged copy is gone.
Stage(a) ==
  /\ attempt[a].phase = "copying"
  /\ attempt[a].copied < NumFiles
  /\ staged' = staged \cup {NextKey(a)}
  /\ attempt' = [attempt EXCEPT ![a].phase = "linking"]
  /\ UNCHANGED <<ended, rows, live, marker, cleaner, lock, faults>>

Link(a) ==
  /\ attempt[a].phase = "linking"
  /\ IF NextKey(a) \in staged
     THEN /\ live' = live \cup {NextKey(a)}
          /\ attempt' = [attempt EXCEPT ![a].phase = "copying", ![a].copied = @ + 1]
     ELSE /\ attempt' = [attempt EXCEPT ![a].phase = "leaving"]
          /\ UNCHANGED live
  /\ UNCHANGED <<ended, rows, staged, marker, cleaner, lock, faults>>

\* A source that is missing, changed or unreadable ends the attempt.
FailCopy(a) ==
  /\ attempt[a].phase \in {"copying", "linking"}
  /\ attempt' = [attempt EXCEPT ![a].phase = "leaving"]
  /\ UNCHANGED <<ended, rows, live, staged, marker, cleaner, lock, faults>>

\* The publishing transaction: nothing for a job that ended meanwhile, nothing
\* without the marker, nothing when a key already belongs to an asset.
Publish(a) ==
  /\ attempt[a].phase = "copying"
  /\ attempt[a].copied = NumFiles
  /\ lock = None
  /\ IF JobOf[a] \notin ended /\ marker[a] # NoMarker /\ Targets(a) \cap Owned = {}
     THEN /\ rows' = rows \cup ({JobOf[a]} \X Targets(a))
          /\ ended' = ended \cup {JobOf[a]}
     ELSE UNCHANGED <<ended, rows>>
  /\ attempt' = [attempt EXCEPT ![a].phase = "leaving"]
  /\ UNCHANGED <<live, staged, marker, cleaner, lock, faults>>

\* GenerationIntegration._fail ends the job while attempts to import it run.
EndJob(j) ==
  /\ lock = None
  /\ ended' = ended \cup {j}
  /\ UNCHANGED <<rows, live, staged, marker, attempt, cleaner, lock, faults>>

\* The finally clause.  Awaiting a heartbeat that has failed raises its error again,
\* and the cleaning below it is skipped.
Leave(a) ==
  /\ attempt[a].phase = "leaving"
  /\ attempt' = [attempt EXCEPT ![a].phase = IF attempt[a].pulse THEN "cleaning" ELSE "over",
                                ![a].pulse = FALSE]
  /\ UNCHANGED <<ended, rows, live, staged, marker, cleaner, lock, faults>>

Alive(a) == attempt[a].pulse /\ attempt[a].phase \in Running

\* The heartbeat reads and renews the marker in one transaction; a missing marker
\* ends it.
Beat(a) ==
  /\ Alive(a)
  /\ ~attempt[a].renewed
  /\ lock = None
  /\ IF marker[a] = NoMarker
     THEN /\ attempt' = [attempt EXCEPT ![a].pulse = FALSE]
          /\ UNCHANGED marker
     ELSE /\ attempt' = [attempt EXCEPT ![a].renewed = TRUE]
          /\ marker' = [marker EXCEPT ![a] = Lifetime]
  /\ UNCHANGED <<ended, rows, live, staged, cleaner, lock, faults>>

\* Any error in the heartbeat ends the task; the attempt hears of it when it leaves.
PulseFault(a) ==
  /\ Alive(a)
  /\ Fault("pulse")
  /\ attempt' = [attempt EXCEPT ![a].pulse = FALSE]
  /\ UNCHANGED <<ended, rows, live, staged, marker, cleaner, lock>>

\* The process stops; an open transaction is rolled back.
Crash(a) ==
  /\ attempt[a].phase \notin {"idle", "over"}
  /\ Fault("crash")
  /\ attempt' = [attempt EXCEPT ![a].phase = "over", ![a].pulse = FALSE]
  /\ cleaner' = [cleaner EXCEPT ![a] = IdleCleaner]
  /\ lock' = IF lock = a THEN None ELSE lock
  /\ UNCHANGED <<ended, rows, live, staged, marker>>

-----------------------------------------------------------------------------
(* Cleaning: JobCompletionService._clean_attempt *)

StartCleaning(p, a) ==
  /\ lock = None
  /\ lock' = p
  /\ cleaner' = [cleaner EXCEPT ![p] = [IdleCleaner EXCEPT !.target = a]]
  /\ UNCHANGED <<ended, rows, live, staged, marker, faults>>

\* An attempt cleans up after itself, unless recovery has taken its marker.
CleanOwn(a) ==
  /\ attempt[a].phase = "cleaning"
  /\ cleaner[a].target = None
  /\ marker[a] # NoMarker
  /\ StartCleaning(a, a)
  /\ UNCHANGED attempt

NothingToClean(a) ==
  /\ attempt[a].phase = "cleaning"
  /\ lock = None
  /\ marker[a] = NoMarker
  /\ attempt' = [attempt EXCEPT ![a].phase = "over"]
  /\ UNCHANGED <<ended, rows, live, staged, marker, cleaner, lock, faults>>

\* Faulty variant: a marker is taken for abandoned before it has expired.
Recover_Eager(r) ==
  /\ cleaner[r].target = None
  /\ \E a \in Attempt : marker[a] # NoMarker /\ StartCleaning(r, a)
  /\ UNCHANGED attempt

\* Recovery looks again, inside its transaction, whether the marker has expired.
Recover(r) ==
  /\ cleaner[r].target = None
  /\ \E a \in Attempt : marker[a] = 0 /\ StartCleaning(r, a)
  /\ UNCHANGED attempt

CleanedKey(p) == <<cleaner[p].target, cleaner[p].done + 1>>
Cleaning(p) == cleaner[p].target # None

\* Faulty variants: committed objects are removed too, or no object is.
UnlinkObject_Committed(p) ==
  /\ Cleaning(p)
  /\ cleaner[p].done < NumFiles
  /\ ~cleaner[p].unlinked
  /\ live' = IF CleanedKey(p) \in staged THEN live \ {CleanedKey(p)} ELSE live
  /\ cleaner' = [cleaner EXCEPT ![p].unlinked = TRUE]
  /\ UNCHANGED <<ended, rows, staged, marker, attempt, lock, faults>>

UnlinkObject_Never(p) ==
  /\ Cleaning(p)
  /\ cleaner[p].done < NumFiles
  /\ ~cleaner[p].unlinked
  /\ cleaner' = [cleaner EXCEPT ![p].unlinked = TRUE]
  /\ UNCHANGED <<ended, rows, live, staged, marker, attempt, lock, faults>>

\* LocalLibraryStorage.clean_import_object: the object goes first, if it is not
\* committed and is the attempt's own copy, then the staged file.
UnlinkObject(p) ==
  /\ Cleaning(p)
  /\ cleaner[p].done < NumFiles
  /\ ~cleaner[p].unlinked
  /\ live' = IF CleanedKey(p) \in staged \ Owned THEN live \ {CleanedKey(p)} ELSE live
  /\ cleaner' = [cleaner EXCEPT ![p].unlinked = TRUE]
  /\ UNCHANGED <<ended, rows, staged, marker, attempt, lock, faults>>

UnlinkStaged(p) ==
  /\ Cleaning(p)
  /\ cleaner[p].unlinked
  /\ staged' = staged \ {CleanedKey(p)}
  /\ cleaner' = [cleaner EXCEPT ![p].unlinked = FALSE, ![p].done = @ + 1]
  /\ UNCHANGED <<ended, rows, live, marker, attempt, lock, faults>>

EndCleaning(p) ==
  /\ cleaner' = [cleaner EXCEPT ![p] = IdleCleaner]
  /\ lock' = None
  /\ attempt' = IF p \in Attempt THEN [attempt EXCEPT ![p].phase = "over"] ELSE attempt
  /\ UNCHANGED <<ended, rows, live, staged>>

RemoveMarker(p) ==
  /\ Cleaning(p)
  /\ cleaner[p].done = NumFiles
  /\ marker' = [marker EXCEPT ![cleaner[p].target] = NoMarker]
  /\ EndCleaning(p)
  /\ UNCHANGED faults

\* An error half way, or the end of the process, keeps the marker for later.
CleanFault(p) ==
  /\ Cleaning(p)
  /\ Fault("clean")
  /\ EndCleaning(p)
  /\ UNCHANGED marker

-----------------------------------------------------------------------------
(* Time and the specification *)

\* A period passes once every live heartbeat has run in it.
Tick ==
  /\ \A a \in Attempt : Alive(a) => attempt[a].renewed
  /\ marker' = [a \in Attempt |-> IF marker[a] \in 1..Lifetime THEN marker[a] - 1
                                  ELSE marker[a]]
  /\ attempt' = [a \in Attempt |-> [attempt[a] EXCEPT !.renewed = FALSE]]
  /\ UNCHANGED <<ended, rows, live, staged, cleaner, lock, faults>>

Clean(p) == UnlinkObject(p) \/ UnlinkStaged(p) \/ RemoveMarker(p)

Run(a) ==
  \/ Stage(a) \/ Link(a) \/ FailCopy(a) \/ Publish(a) \/ Leave(a)
  \/ CleanOwn(a) \/ NothingToClean(a)

ImportNext ==
  \/ \E a \in Attempt : Begin(a) \/ Run(a) \/ Beat(a) \/ PulseFault(a) \/ Crash(a)
  \/ \E j \in Job : EndJob(j)
  \/ \E r \in Recovery : Recover(r)
  \/ \E p \in Process : Clean(p) \/ CleanFault(p)
  \/ Tick

ImportSpec == Init /\ [][ImportNext]_importVars

\* Attempts that run keep running, consumers call recover once a minute, time passes.
ImportFairness ==
  /\ \A a \in Attempt : WF_importVars(Run(a)) /\ WF_importVars(Beat(a))
  /\ \A r \in Recovery : WF_importVars(Recover(r))
  /\ \A p \in Process : WF_importVars(Clean(p))
  /\ WF_importVars(Tick)

FairImportSpec == ImportSpec /\ ImportFairness

-----------------------------------------------------------------------------
(* Properties *)

RowsOf(j) == {r[2] : r \in {q \in rows : q[1] = j}}

\* All or nothing, once: the rows of a job are those of one attempt at it, however
\* many attempts race, no object belongs to two jobs, and every object of a ready
\* asset exists: recovery takes none away from an attempt that publishes.
PublicationsAreWhole ==
  /\ \A j \in Job : RowsOf(j) # {} =>
       \E a \in Attempt : JobOf[a] = j /\ RowsOf(j) = Targets(a)
  /\ \A q, r \in rows : q[2] = r[2] => q[1] = r[1]
  /\ Owned \subseteq live

\* Recovery never takes the marker of an attempt whose heartbeat works, however long
\* the copying lasts.
BeatingAttemptsKeepMarkers ==
  \A a \in Attempt : Alive(a) => marker[a] # NoMarker /\ marker[a] # 0

Leftovers(a) == {k \in OwnKeys(a) : k \in staged \/ (k \in live /\ k \notin Owned)}

\* What an attempt leaves behind when it ends, fails or crashes is removed, by itself
\* or by recovery.  Only a heartbeat that has failed takes the promise with it:
\* recovery then removes the expired marker while the attempt goes on copying.
LeftoversAreRemoved ==
  \A a \in Attempt :
    attempt[a].phase = "over" ~> (faults["pulse"] = 0 => Leftovers(a) = {})
===============================================================================
