-------------------------- MODULE ImportAttemptProofs --------------------------
(***************************************************************************)
(* Theorems about ImportAttempt for every number of jobs, attempts, files, *)
(* recovery loops and faults.                                              *)
(***************************************************************************)
EXTENDS ImportAttempt, TLAPS

\* An attempt that beats has a marker of one period less than its life, at least; its
\* own marker is the first thing it writes.
MarkersFit == \A a \in Attempt :
  /\ attempt[a].phase = "idle" => marker[a] = NoMarker
  /\ Alive(a) => /\ marker[a] \in {Lifetime - 1, Lifetime}
                 /\ attempt[a].renewed => marker[a] = Lifetime

\* Nobody cleans an attempt that beats, or one that will.
CleanersFit == \A p \in Process :
  /\ cleaner[p].unlinked => cleaner[p].done < NumFiles
  /\ Cleaning(p) => /\ attempt[cleaner[p].target].phase # "idle"
                    /\ ~Alive(cleaner[p].target)

\* Who has rows has ended, with the rows of one attempt that nobody else has.
RowsFit ==
  /\ \A r \in rows : r[1] \in ended
  /\ \A j \in Job : RowsOf(j) # {} =>
       \E a \in Attempt : JobOf[a] = j /\ RowsOf(j) = Targets(a)
  /\ \A q, r \in rows : q[2] = r[2] => q[1] = r[1]

\* As long as no heartbeat has failed, what an attempt has copied stays.
PulsesWork == faults["pulse"] = 0
CopiesStay == PulsesWork => \A a \in Attempt : attempt[a].phase \in Running =>
  attempt[a].pulse /\ \A i \in 1 .. attempt[a].copied : <<a, i>> \in live
ObjectsStay == SharedKey \subseteq live /\ (PulsesWork => Owned \subseteq live)

ImportInv == ImportTypeOK /\ MarkersFit /\ CleanersFit /\ RowsFit /\ CopiesStay /\ ObjectsStay

-----------------------------------------------------------------------------

LEMMA KeyFacts ==
  /\ \A a \in Attempt : OwnKeys(a) \subseteq Key /\ Targets(a) \subseteq Key
  /\ \A a \in Attempt : \A i \in 1 .. NumFiles :
       <<a, i>> \in Key /\ <<a, i>> \in OwnKeys(a) /\ <<a, i>> \notin SharedKey
  /\ \A a \in Attempt : Targets(a) \subseteq OwnKeys(a) \cup SharedKey
  /\ NoMarker \in Nat /\ NoMarker \notin {0, Lifetime - 1, Lifetime}
  /\ Lifetime - 1 \in Nat \ {0}
BY ImportAssumption DEF OwnKeys, Targets, Key, NoMarker

\* The target of a cleaning is an attempt and its next key one of that attempt's own.
LEMMA CleanedKeyIsOwn ==
  ASSUME ImportTypeOK, NEW p \in Process, Cleaning(p)
  PROVE  /\ cleaner[p].target \in Attempt
         /\ cleaner[p].done < NumFiles => CleanedKey(p) \in OwnKeys(cleaner[p].target)
         /\ CleanedKey(p) \notin SharedKey \/ ~(cleaner[p].done < NumFiles)
<1>1. cleaner[p].target \in Attempt /\ cleaner[p].done \in 0 .. NumFiles
  BY DEF ImportTypeOK, CleanerState, Cleaning
<1>2. cleaner[p].done < NumFiles => cleaner[p].done + 1 \in 1 .. NumFiles
  BY <1>1, ImportAssumption
<1> QED BY <1>1, <1>2, KeyFacts DEF CleanedKey

LEMMA ImportInitFits == Init => ImportInv
<1> SUFFICES ASSUME Init PROVE ImportInv
  OBVIOUS
<1> USE DEF Init
<1>1. ImportTypeOK
  BY ImportAssumption
  DEF ImportTypeOK, Key, NoMarker, AttemptState, CleanerState, IdleCleaner, Process,
      FaultKind, Running
<1>2. MarkersFit /\ CleanersFit
  BY DEF MarkersFit, CleanersFit, Alive, Cleaning, IdleCleaner, Running
<1>3. RowsFit /\ CopiesStay /\ ObjectsStay
  BY DEF RowsFit, RowsOf, CopiesStay, ObjectsStay, Owned, Running
<1> QED BY <1>1, <1>2, <1>3 DEF ImportInv

-----------------------------------------------------------------------------
(* An attempt: its steps, the heartbeat and the end of its process.        *)

LEMMA FaultsTyped ==
  ASSUME ImportTypeOK, NEW f \in FaultKind, Fault(f)
  PROVE  faults' \in [FaultKind -> Nat] /\ (PulsesWork' => PulsesWork /\ f # "pulse")
<1>1. faults \in [FaultKind -> Nat] /\ faults[f] \in Nat /\ "pulse" \in FaultKind
  BY DEF ImportTypeOK, FaultKind
<1> QED BY <1>1 DEF Fault, PulsesWork

LEMMA StartTyped ==
  ASSUME ImportTypeOK, NEW p \in Process, NEW a \in Attempt, StartCleaning(p, a),
         UNCHANGED attempt
  PROVE  ImportTypeOK'
<1>1. [IdleCleaner EXCEPT !.target = a] \in CleanerState
  <2>1. IdleCleaner \in CleanerState
    BY ImportAssumption DEF IdleCleaner, CleanerState
  <2> QED BY <2>1 DEF CleanerState
<1>2. cleaner' \in [Process -> CleanerState]
  BY <1>1 DEF StartCleaning, ImportTypeOK
<1> QED BY <1>2 DEF StartCleaning, ImportTypeOK

LEMMA AttemptTyped ==
  ASSUME ImportTypeOK, NEW a \in Attempt,
         Begin(a) \/ Stage(a) \/ Link(a) \/ FailCopy(a) \/ Publish(a) \/ Leave(a)
           \/ Beat(a) \/ PulseFault(a) \/ Crash(a) \/ CleanOwn(a) \/ NothingToClean(a)
  PROVE  ImportTypeOK'
<1> USE DEF ImportTypeOK, AttemptState, Running
<1>1. CASE Begin(a)
  BY <1>1, ImportAssumption DEF Begin
<1>2. CASE Stage(a)
  <2>1. attempt[a].copied + 1 \in 1 .. NumFiles
    BY <1>2, ImportAssumption DEF Stage
  <2>2. NextKey(a) \in Key
    BY <2>1, KeyFacts DEF NextKey
  <2> QED BY <1>2, <2>2 DEF Stage
<1>3. CASE Link(a)
  BY <1>3, ImportAssumption DEF Link
<1>4. CASE FailCopy(a) \/ Leave(a) \/ NothingToClean(a)
  BY <1>4 DEF FailCopy, Leave, NothingToClean
<1>5. CASE Publish(a)
  <2>1. JobOf[a] \in Job /\ Targets(a) \subseteq Key
    BY ImportAssumption, KeyFacts
  <2>2. rows' \subseteq Job \X Key /\ ended' \subseteq Job
    BY <1>5, <2>1 DEF Publish
  <2> QED BY <1>5, <2>2 DEF Publish
<1>6. CASE Beat(a)
  <2>1. CASE marker[a] = NoMarker
    BY <1>6, <2>1 DEF Beat
  <2>2. CASE marker[a] # NoMarker
    <3>1. attempt' \in [Attempt -> AttemptState]
      <4>1. attempt' = [attempt EXCEPT ![a].renewed = TRUE]
        BY <1>6, <2>2 DEF Beat
      <4> QED BY <4>1
    <3>2. marker' \in [Attempt -> 0 .. Lifetime + 1]
      BY <1>6, <2>2, ImportAssumption DEF Beat
    <3> QED BY <1>6, <2>2, <3>1, <3>2 DEF Beat
  <2> QED BY <2>1, <2>2
<1>7. CASE PulseFault(a)
  <2>1. faults' \in [FaultKind -> Nat]
    BY <1>7, FaultsTyped DEF PulseFault, FaultKind
  <2> QED BY <1>7, <2>1 DEF PulseFault
<1>8. CASE Crash(a)
  <2>1. faults' \in [FaultKind -> Nat]
    BY <1>8, FaultsTyped DEF Crash, FaultKind
  <2>2. cleaner' \in [Process -> CleanerState]
    <3>1. IdleCleaner \in CleanerState
      BY ImportAssumption DEF CleanerState, IdleCleaner
    <3> QED BY <1>8, <3>1 DEF Crash
  <2>3. attempt' \in [Attempt -> AttemptState] /\ lock' \in Process \cup {None}
    BY <1>8 DEF Crash
  <2> QED BY <1>8, <2>1, <2>2, <2>3 DEF Crash
<1>9. CASE CleanOwn(a)
  <2>1. StartCleaning(a, a) /\ UNCHANGED attempt
    BY <1>9 DEF CleanOwn
  <2> QED BY <2>1, StartTyped DEF Process
<1> QED BY <1>1, <1>2, <1>3, <1>4, <1>5, <1>6, <1>7, <1>8, <1>9

-----------------------------------------------------------------------------
(* Cleaning and time.                                                      *)

LEMMA CleaningTyped ==
  ASSUME ImportTypeOK, CleanersFit, NEW p \in Process,
         UnlinkObject(p) \/ UnlinkStaged(p) \/ RemoveMarker(p) \/ CleanFault(p)
  PROVE  ImportTypeOK'
<1> USE DEF ImportTypeOK
<1>1. Cleaning(p) /\ cleaner[p].target \in Attempt /\ cleaner[p].done \in 0 .. NumFiles
  BY CleanedKeyIsOwn
  DEF CleanerState, Cleaning, UnlinkObject, UnlinkStaged, RemoveMarker, CleanFault
<1>2. ASSUME EndCleaning(p), marker' \in [Attempt -> 0 .. Lifetime + 1],
             faults' \in [FaultKind -> Nat]
      PROVE  ImportTypeOK'
  <2>1. cleaner' \in [Process -> CleanerState]
    <3>1. IdleCleaner \in CleanerState
      BY ImportAssumption DEF CleanerState, IdleCleaner
    <3> QED BY <1>2, <3>1 DEF EndCleaning
  <2>2. attempt' \in [Attempt -> AttemptState]
    BY <1>2 DEF EndCleaning, AttemptState
  <2> QED BY <1>2, <2>1, <2>2 DEF EndCleaning
<1>3. CASE UnlinkObject(p)
  <2>1. cleaner' \in [Process -> CleanerState]
    BY <1>3 DEF UnlinkObject, CleanerState
  <2> QED BY <1>3, <2>1 DEF UnlinkObject
<1>4. CASE UnlinkStaged(p)
  <2>1. cleaner[p].done + 1 \in 0 .. NumFiles
    BY <1>1, <1>4, ImportAssumption DEF UnlinkStaged, CleanersFit
  <2>2. cleaner' \in [Process -> CleanerState]
    BY <1>4, <2>1 DEF UnlinkStaged, CleanerState
  <2> QED BY <1>4, <2>2 DEF UnlinkStaged
<1>5. CASE RemoveMarker(p)
  BY <1>1, <1>2, <1>5, ImportAssumption DEF RemoveMarker, NoMarker
<1>6. CASE CleanFault(p)
  BY <1>2, <1>6, FaultsTyped DEF CleanFault, FaultKind
<1> QED BY <1>3, <1>4, <1>5, <1>6

LEMMA TickTyped == ImportTypeOK /\ Tick => ImportTypeOK'
<1> SUFFICES ASSUME ImportTypeOK, Tick PROVE ImportTypeOK'
  OBVIOUS
<1> USE DEF ImportTypeOK
<1>1. marker' \in [Attempt -> 0 .. Lifetime + 1]
  BY ImportAssumption DEF Tick
<1>2. attempt' \in [Attempt -> AttemptState]
  BY DEF Tick, AttemptState
<1> QED BY <1>1, <1>2 DEF Tick

LEMMA TypedStep == ImportInv /\ ImportNext => ImportTypeOK'
<1> SUFFICES ASSUME ImportInv, ImportNext PROVE ImportTypeOK'
  OBVIOUS
<1> USE DEF ImportInv
<1>1. ASSUME NEW a \in Attempt,
             Begin(a) \/ Run(a) \/ Beat(a) \/ PulseFault(a) \/ Crash(a)
      PROVE  ImportTypeOK'
  BY <1>1, AttemptTyped DEF Run
<1>2. ASSUME NEW j \in Job, EndJob(j) PROVE ImportTypeOK'
  BY <1>2 DEF EndJob, ImportTypeOK
<1>3. ASSUME NEW r \in Recovery, Recover(r) PROVE ImportTypeOK'
  BY <1>3, StartTyped DEF Recover, Process
<1>4. ASSUME NEW p \in Process, Clean(p) \/ CleanFault(p) PROVE ImportTypeOK'
  BY <1>4, CleaningTyped DEF Clean
<1> QED BY <1>1, <1>2, <1>3, <1>4, TickTyped DEF ImportNext

-----------------------------------------------------------------------------
(* Which attempts beat.                                                    *)

\* What most steps do to an attempt: it does not begin, nor renew its marker.
Calm(b) ==
  /\ attempt'[b].phase = "idle" => attempt[b].phase = "idle"
  /\ attempt'[b].phase \in Running => /\ attempt[b].phase \in Running
                                      /\ ~attempt'[b].pulse => ~attempt[b].pulse \/ ~PulsesWork'
  /\ attempt'[b].pulse => attempt[b].pulse
  /\ attempt'[b].renewed = attempt[b].renewed
  /\ attempt'[b].copied = attempt[b].copied \/ NextKey(b) \in live'

\* Only the marker of an attempt that is being cleaned, hence does not beat, goes.
LEMMA CalmSteps ==
  ASSUME ImportInv, ImportNext,
         ~Tick, \A a \in Attempt : ~Begin(a) /\ ~Beat(a)
  PROVE  \A b \in Attempt :
           /\ Calm(b)
           /\ marker'[b] = marker[b] \/ (marker'[b] = NoMarker /\ ~Alive(b)
                                         /\ attempt[b].phase # "idle")
<1> USE DEF ImportInv
<1> TAKE b \in Attempt
<1>1. attempt \in [Attempt -> AttemptState] /\ marker \in [Attempt -> 0 .. Lifetime + 1]
  BY DEF ImportTypeOK
<1>2. ASSUME NEW a \in Attempt, Stage(a) \/ FailCopy(a) \/ Leave(a) \/ NothingToClean(a)
                                \/ CleanOwn(a) \/ Publish(a) \/ Crash(a)
      PROVE  Calm(b) /\ marker' = marker
  <2>1. marker' = marker
    BY <1>2 DEF Stage, FailCopy, Leave, NothingToClean, CleanOwn, StartCleaning, Publish, Crash
  <2>2. attempt[a].phase # "idle"
    BY <1>2 DEF Stage, FailCopy, Leave, NothingToClean, CleanOwn, Publish, Crash
  <2>3. \E ph \in {"linking", "leaving", "cleaning", "over"}, pulse \in BOOLEAN :
          /\ attempt' = [attempt EXCEPT ![a].phase = ph, ![a].pulse = pulse]
          /\ ph \in Running => attempt[a].phase \in Running /\ pulse = attempt[a].pulse
          /\ pulse => attempt[a].pulse
    <3>1. attempt = [attempt EXCEPT ![a].phase = attempt[a].phase, ![a].pulse = attempt[a].pulse]
      BY <1>1 DEF AttemptState
    <3>2. CASE Stage(a)
      BY <1>1, <3>2 DEF Stage, AttemptState, Running
    <3>3. CASE FailCopy(a) \/ Publish(a)
      BY <1>1, <3>3 DEF FailCopy, Publish, AttemptState, Running
    <3>4. CASE Leave(a) \/ Crash(a)
      BY <1>1, <3>4 DEF Leave, Crash, AttemptState, Running
    <3>5. CASE NothingToClean(a) \/ CleanOwn(a)
      BY <1>1, <3>1, <3>5 DEF NothingToClean, CleanOwn, AttemptState, Running
    <3> QED BY <1>2, <3>2, <3>3, <3>4, <3>5
  <2>4. Calm(b)
    BY <1>1, <2>2, <2>3 DEF Calm, AttemptState
  <2> QED BY <2>1, <2>4
<1>3. ASSUME NEW a \in Attempt, Link(a) PROVE Calm(b) /\ marker' = marker
  BY <1>1, <1>3 DEF Link, Calm, Running, AttemptState
<1>4. ASSUME NEW a \in Attempt, PulseFault(a) PROVE Calm(b) /\ marker' = marker
  <2>1. ~PulsesWork'
    BY <1>4, FaultsTyped DEF PulseFault, FaultKind
  <2> QED BY <1>1, <1>4, <2>1 DEF PulseFault, Calm, AttemptState
<1>5. ASSUME NEW p \in Process, UnlinkObject(p) \/ UnlinkStaged(p)
      PROVE  Calm(b) /\ marker' = marker
  BY <1>5 DEF UnlinkObject, UnlinkStaged, Calm
<1>6. ASSUME NEW p \in Process, EndCleaning(p) PROVE Calm(b)
  BY <1>1, <1>6 DEF EndCleaning, Calm, AttemptState, Running
<1>7. ASSUME NEW p \in Process, RemoveMarker(p)
      PROVE  marker'[b] = marker[b] \/ (marker'[b] = NoMarker /\ ~Alive(b)
                                         /\ attempt[b].phase # "idle")
  BY <1>1, <1>7 DEF RemoveMarker, CleanersFit
<1>8. CASE \E r \in Recovery : Recover(r)
  BY <1>8 DEF Recover, StartCleaning, Calm
<1>9. CASE \E j \in Job : EndJob(j)
  BY <1>9 DEF EndJob, Calm
<1>10. ASSUME NEW p \in Process, CleanFault(p) PROVE marker' = marker
  BY <1>10 DEF CleanFault
<1> QED BY <1>2, <1>3, <1>4, <1>5, <1>6, <1>7, <1>8, <1>9, <1>10
        DEF ImportNext, Run, Clean, RemoveMarker, CleanFault

\* The three steps that are not calm.
LEMMA BeginStep ==
  ASSUME ImportInv, NEW a \in Attempt, Begin(a)
  PROVE  /\ attempt[a].phase = "idle" /\ attempt'[a].copied = 0 /\ Alive(a)'
         /\ marker'[a] = Lifetime
         /\ \A b \in Attempt \ {a} : attempt'[b] = attempt[b] /\ marker'[b] = marker[b]
         /\ UNCHANGED <<cleaner, live, rows, faults>>
BY DEF ImportInv, ImportTypeOK, Begin, Alive, Running

LEMMA BeatStep ==
  ASSUME ImportInv, NEW a \in Attempt, Beat(a)
  PROVE  /\ Alive(a) /\ marker'[a] = Lifetime
         /\ attempt' = [attempt EXCEPT ![a].renewed = TRUE]
         /\ \A b \in Attempt \ {a} : attempt'[b] = attempt[b] /\ marker'[b] = marker[b]
         /\ UNCHANGED <<cleaner, live, rows, faults>>
<1>1. Alive(a) /\ marker[a] \in {Lifetime - 1, Lifetime}
  BY DEF Beat, ImportInv, MarkersFit
<1>2. marker[a] # NoMarker
  BY <1>1, KeyFacts
<1>3. attempt' = [attempt EXCEPT ![a].renewed = TRUE] /\ marker' = [marker EXCEPT ![a] = Lifetime]
  BY <1>2 DEF Beat
<1> QED BY <1>1, <1>3 DEF Beat, ImportInv, ImportTypeOK

LEMMA MarkersStep == ImportInv /\ ImportNext => MarkersFit'
<1> SUFFICES ASSUME ImportInv, ImportNext, NEW b \in Attempt
             PROVE  /\ attempt'[b].phase = "idle" => marker'[b] = NoMarker
                    /\ Alive(b)' => /\ marker'[b] \in {Lifetime - 1, Lifetime}
                                    /\ attempt'[b].renewed => marker'[b] = Lifetime
  BY DEF MarkersFit
<1>1. /\ attempt[b].phase = "idle" => marker[b] = NoMarker
      /\ Alive(b) => /\ marker[b] \in {Lifetime - 1, Lifetime}
                     /\ attempt[b].renewed => marker[b] = Lifetime
  BY DEF ImportInv, MarkersFit
<1>2. attempt \in [Attempt -> AttemptState] /\ marker \in [Attempt -> 0 .. Lifetime + 1]
  BY DEF ImportInv, ImportTypeOK
<1>3. ASSUME NEW a \in Attempt, Begin(a)
      PROVE  /\ attempt'[b].phase = "idle" => marker'[b] = NoMarker
             /\ Alive(b)' => /\ marker'[b] \in {Lifetime - 1, Lifetime}
                             /\ attempt'[b].renewed => marker'[b] = Lifetime
  BY <1>1, <1>3, BeginStep DEF Alive, Running
<1>4. ASSUME NEW a \in Attempt, Beat(a)
      PROVE  /\ attempt'[b].phase = "idle" => marker'[b] = NoMarker
             /\ Alive(b)' => /\ marker'[b] \in {Lifetime - 1, Lifetime}
                             /\ attempt'[b].renewed => marker'[b] = Lifetime
  <2>1. CASE b = a
    BY <1>2, <1>4, <2>1, BeatStep DEF Alive, Running, AttemptState
  <2>2. CASE b # a
    BY <1>1, <1>4, <2>2, BeatStep DEF Alive
  <2> QED BY <2>1, <2>2
<1>5. CASE Tick
  <2>1. attempt'[b] = [attempt[b] EXCEPT !.renewed = FALSE]
    BY <1>5 DEF Tick
  <2>2. /\ attempt'[b].phase = attempt[b].phase /\ attempt'[b].pulse = attempt[b].pulse
        /\ ~attempt'[b].renewed
    BY <1>2, <2>1 DEF AttemptState
  <2>3. marker'[b] = IF marker[b] \in 1 .. Lifetime THEN marker[b] - 1 ELSE marker[b]
    BY <1>5 DEF Tick
  <2>4. Alive(b)' => marker[b] = Lifetime
    BY <1>1, <1>5, <2>2 DEF Alive, Tick
  <2> QED BY <1>1, <2>2, <2>3, <2>4, ImportAssumption DEF NoMarker
<1>6. CASE ~Tick /\ \A a \in Attempt : ~Begin(a) /\ ~Beat(a)
  <2>1. /\ Calm(b)
        /\ marker'[b] = marker[b] \/ (marker'[b] = NoMarker /\ ~Alive(b)
                                      /\ attempt[b].phase # "idle")
    BY <1>6, CalmSteps
  <2> QED BY <1>1, <2>1 DEF Calm, Alive
<1> QED BY <1>3, <1>4, <1>5, <1>6

\* A cleaning begins with an attempt that has ended, or whose marker has expired.
LEMMA NewTargetsRest ==
  ASSUME ImportInv, ImportNext, NEW p \in Process, Cleaning(p)'
  PROVE  \/ Cleaning(p) /\ cleaner'[p].target = cleaner[p].target
         \/ /\ cleaner'[p].target \in Attempt
            /\ attempt[cleaner'[p].target].phase # "idle"
            /\ ~Alive(cleaner'[p].target)
            /\ UNCHANGED attempt
<1> USE DEF ImportInv
<1>1. cleaner \in [Process -> CleanerState] /\ attempt \in [Attempt -> AttemptState]
  BY DEF ImportTypeOK
<1>2. ASSUME NEW q \in Process, NEW a \in Attempt, StartCleaning(q, a),
             a \in Attempt, attempt[a].phase # "idle", ~Alive(a), UNCHANGED attempt
      PROVE  \/ Cleaning(p) /\ cleaner'[p].target = cleaner[p].target
             \/ /\ cleaner'[p].target \in Attempt
                /\ attempt[cleaner'[p].target].phase # "idle"
                /\ ~Alive(cleaner'[p].target)
                /\ UNCHANGED attempt
  <2>1. cleaner'[q].target = a
    BY <1>1, <1>2 DEF StartCleaning, IdleCleaner
  <2>2. p # q => cleaner'[p] = cleaner[p]
    BY <1>1, <1>2 DEF StartCleaning
  <2> QED BY <1>2, <2>1, <2>2 DEF Cleaning
<1>3. ASSUME NEW a \in Attempt, CleanOwn(a)
      PROVE  a \in Process /\ StartCleaning(a, a) /\ attempt[a].phase # "idle" /\ ~Alive(a)
             /\ UNCHANGED attempt
  BY <1>3 DEF CleanOwn, Process, Alive, Running
<1>4. ASSUME NEW r \in Recovery, Recover(r)
      PROVE  r \in Process /\ \E a \in Attempt :
               StartCleaning(r, a) /\ attempt[a].phase # "idle" /\ ~Alive(a)
               /\ UNCHANGED attempt
  <2>1. PICK a \in Attempt : marker[a] = 0 /\ StartCleaning(r, a) /\ UNCHANGED attempt
    BY <1>4 DEF Recover
  <2>2. attempt[a].phase # "idle" /\ ~Alive(a)
    BY <2>1, KeyFacts, ImportAssumption DEF MarkersFit
  <2> QED BY <2>1, <2>2 DEF Process
<1>5. ASSUME NEW q \in Process, UnlinkObject(q) \/ UnlinkStaged(q) \/ EndCleaning(q)
      PROVE  Cleaning(p) /\ cleaner'[p].target = cleaner[p].target
  <2>1. p # q => cleaner'[p] = cleaner[p]
    BY <1>1, <1>5 DEF UnlinkObject, UnlinkStaged, EndCleaning
  <2>2. ~EndCleaning(q) => cleaner'[q].target = cleaner[q].target
    BY <1>1, <1>5 DEF UnlinkObject, UnlinkStaged, CleanerState
  <2>3. EndCleaning(q) => cleaner'[q].target = None
    BY <1>1 DEF EndCleaning, IdleCleaner
  <2> QED BY <1>5, <2>1, <2>2, <2>3 DEF Cleaning
<1>6. ASSUME NEW a \in Attempt, Crash(a)
      PROVE  Cleaning(p) /\ cleaner'[p].target = cleaner[p].target
  <2>1. p # a => cleaner'[p] = cleaner[p]
    BY <1>1, <1>6 DEF Crash
  <2>2. cleaner'[a].target = None
    BY <1>1, <1>6 DEF Crash, IdleCleaner, Process
  <2> QED BY <2>1, <2>2 DEF Cleaning
<1>7. ASSUME UNCHANGED cleaner PROVE Cleaning(p) /\ cleaner'[p].target = cleaner[p].target
  BY <1>7 DEF Cleaning
<1>8. ASSUME NEW a \in Attempt,
             Begin(a) \/ Stage(a) \/ Link(a) \/ FailCopy(a) \/ Publish(a) \/ Leave(a)
               \/ NothingToClean(a) \/ Beat(a) \/ PulseFault(a)
      PROVE  UNCHANGED cleaner
  BY <1>8 DEF Begin, Stage, Link, FailCopy, Publish, Leave, NothingToClean, Beat, PulseFault
<1>9. Tick \/ (\E j \in Job : EndJob(j)) => UNCHANGED cleaner
  BY DEF Tick, EndJob
<1> QED BY <1>2, <1>3, <1>4, <1>5, <1>6, <1>7, <1>8, <1>9
        DEF ImportNext, Run, Clean, RemoveMarker, CleanFault

\* After the step attempt b neither beats nor will.
Rests(b) == /\ attempt'[b].phase # "idle"
            /\ attempt'[b].pulse => attempt'[b].phase \notin Running

LEMMA CleanersStep == ImportInv /\ ImportNext => CleanersFit'
<1> SUFFICES ASSUME ImportInv, ImportNext, NEW p \in Process
             PROVE  /\ cleaner'[p].unlinked => cleaner'[p].done < NumFiles
                    /\ Cleaning(p)' => Rests(cleaner'[p].target)
  BY DEF CleanersFit, Cleaning, Alive, Rests
<1>1. cleaner \in [Process -> CleanerState] /\ attempt \in [Attempt -> AttemptState]
  BY DEF ImportInv, ImportTypeOK
<1>2. cleaner[p].unlinked => cleaner[p].done < NumFiles
  BY DEF ImportInv, CleanersFit
<1>3. cleaner'[p].unlinked => cleaner'[p].done < NumFiles
  <2>1. ASSUME NEW q \in Process, UnlinkObject(q)
        PROVE  cleaner'[p].unlinked => cleaner'[p].done < NumFiles
    BY <1>1, <1>2, <2>1 DEF UnlinkObject, CleanerState
  <2>2. ASSUME NEW q \in Process, UnlinkStaged(q)
        PROVE  cleaner'[p].unlinked => cleaner'[p].done < NumFiles
    BY <1>1, <1>2, <2>2 DEF UnlinkStaged, CleanerState
  <2>3. ASSUME NEW q \in Process, NEW a \in Attempt, StartCleaning(q, a)
        PROVE  cleaner'[p].unlinked => cleaner'[p].done < NumFiles
    BY <1>1, <1>2, <2>3 DEF StartCleaning, CleanerState, IdleCleaner
  <2>4. ASSUME NEW q \in Process, EndCleaning(q)
        PROVE  cleaner'[p].unlinked => cleaner'[p].done < NumFiles
    BY <1>1, <1>2, <2>4 DEF EndCleaning, CleanerState, IdleCleaner
  <2>5. ASSUME NEW a \in Attempt, Crash(a)
        PROVE  cleaner'[p].unlinked => cleaner'[p].done < NumFiles
    BY <1>1, <1>2, <2>5 DEF Crash, CleanerState, IdleCleaner
  <2>6. ASSUME NEW a \in Attempt,
               Begin(a) \/ Stage(a) \/ Link(a) \/ FailCopy(a) \/ Publish(a) \/ Leave(a)
                 \/ NothingToClean(a) \/ Beat(a) \/ PulseFault(a)
        PROVE  UNCHANGED cleaner
    BY <2>6 DEF Begin, Stage, Link, FailCopy, Publish, Leave, NothingToClean, Beat, PulseFault
  <2>7. Tick \/ (\E j \in Job : EndJob(j)) => UNCHANGED cleaner
    BY DEF Tick, EndJob
  <2>8. ASSUME NEW a \in Attempt, CleanOwn(a) PROVE a \in Process /\ StartCleaning(a, a)
    BY <2>8 DEF CleanOwn, Process
  <2>9. ASSUME NEW r \in Recovery, Recover(r)
        PROVE  r \in Process /\ \E a \in Attempt : StartCleaning(r, a)
    BY <2>9 DEF Recover, Process
  <2> QED BY <1>2, <2>1, <2>2, <2>3, <2>4, <2>5, <2>6, <2>7, <2>8, <2>9
          DEF ImportNext, Run, Clean, RemoveMarker, CleanFault
<1>4. ASSUME Cleaning(p)'
      PROVE  Rests(cleaner'[p].target)
  <2> DEFINE b == cleaner'[p].target
  <2>1. CASE b \in Attempt /\ attempt[b].phase # "idle" /\ ~Alive(b) /\ UNCHANGED attempt
    BY <2>1 DEF Alive, Rests
  <2>2. CASE Cleaning(p) /\ b = cleaner[p].target
    <3>1. b \in Attempt /\ attempt[b].phase # "idle" /\ ~Alive(b)
      BY <2>2, CleanedKeyIsOwn DEF ImportInv, CleanersFit
    <3>2. ASSUME NEW a \in Attempt, Begin(a)
          PROVE  Rests(b)
      BY <3>1, <3>2, BeginStep DEF Alive, Rests
    <3>3. ASSUME NEW a \in Attempt, Beat(a)
          PROVE  Rests(b)
      BY <3>1, <3>3, BeatStep DEF Alive, Rests
    <3>4. CASE Tick
      <4>1. attempt'[b] = [attempt[b] EXCEPT !.renewed = FALSE]
        BY <3>1, <3>4 DEF Tick
      <4> QED BY <1>1, <3>1, <4>1 DEF Alive, Rests, AttemptState
    <3>5. CASE ~Tick /\ \A a \in Attempt : ~Begin(a) /\ ~Beat(a)
      BY <3>1, <3>5, CalmSteps DEF Calm, Alive, Rests
    <3> QED BY <3>2, <3>3, <3>4, <3>5
  <2> QED BY <1>4, <2>1, <2>2, NewTargetsRest
<1> QED BY <1>3, <1>4

-----------------------------------------------------------------------------
(* What is published.                                                      *)

LEMMA RowsStep == ImportInv /\ ImportNext => RowsFit'
<1> SUFFICES ASSUME ImportInv, ImportNext PROVE RowsFit'
  OBVIOUS
<1>1. RowsFit /\ rows \subseteq Job \X Key
  BY DEF ImportInv, ImportTypeOK
<1>2. ASSUME UNCHANGED rows, ended \subseteq ended' PROVE RowsFit'
  BY <1>1, <1>2 DEF RowsFit, RowsOf
<1>3. ASSUME NEW a \in Attempt, Publish(a) PROVE RowsFit'
  <2> DEFINE i == JobOf[a]
             Writes == /\ i \notin ended /\ Targets(a) \cap Owned = {}
                       /\ rows' = rows \cup ({i} \X Targets(a))
                       /\ ended' = ended \cup {i}
  <2>1. Writes \/ UNCHANGED <<rows, ended>>
    BY <1>3 DEF Publish
  <2>2. CASE Writes
    <3>1. i \in Job /\ \A r \in rows : r[1] # i /\ r[2] \notin Targets(a)
      BY <1>1, <2>2, ImportAssumption DEF RowsFit, Owned
    <3>2. \A r \in rows' : r \in rows \/ (r[1] = i /\ r[2] \in Targets(a))
      BY <2>2
    <3>3. \A k \in Targets(a) : <<i, k>> \in rows'
      BY <2>2
    <3>4. rows \subseteq rows'
      BY <2>2
    <3>5. RowsOf(i)' = Targets(a)
      <4>1. ASSUME NEW k \in Targets(a) PROVE k \in RowsOf(i)'
        <5>1. <<i, k>> \in rows' /\ <<i, k>>[1] = i /\ <<i, k>>[2] = k
          BY <3>3, <4>1
        <5> QED BY <5>1 DEF RowsOf
      <4>2. ASSUME NEW r \in rows', r[1] = i PROVE r[2] \in Targets(a)
        BY <3>1, <3>2, <4>2
      <4> QED BY <4>1, <4>2 DEF RowsOf
    <3>6. \A j \in Job \ {i} : RowsOf(j)' = RowsOf(j)
      BY <3>1, <3>2, <3>4 DEF RowsOf
    <3>7. \A r \in rows' : r[1] \in ended'
      BY <1>1, <2>2, <3>2 DEF RowsFit
    <3>8. \A j \in Job : RowsOf(j)' # {} =>
            \E b \in Attempt : JobOf[b] = j /\ RowsOf(j)' = Targets(b)
      BY <1>1, <3>5, <3>6 DEF RowsFit
    <3>9. \A q, r \in rows' : q[2] = r[2] => q[1] = r[1]
      BY <1>1, <3>1, <3>2 DEF RowsFit
    <3> QED BY <3>7, <3>8, <3>9 DEF RowsFit, RowsOf, Targets, OwnKeys
  <2> QED BY <1>2, <2>1, <2>2
<1>4. ASSUME NEW a \in Attempt,
             Begin(a) \/ Stage(a) \/ Link(a) \/ FailCopy(a) \/ Leave(a) \/ CleanOwn(a)
               \/ NothingToClean(a) \/ Beat(a) \/ PulseFault(a) \/ Crash(a)
      PROVE  UNCHANGED <<rows, ended>>
  BY <1>4 DEF Begin, Stage, Link, FailCopy, Leave, CleanOwn, StartCleaning, NothingToClean,
              Beat, PulseFault, Crash
<1>5. ASSUME NEW p \in Process,
             UnlinkObject(p) \/ UnlinkStaged(p) \/ RemoveMarker(p) \/ CleanFault(p)
      PROVE  UNCHANGED <<rows, ended>>
  BY <1>5 DEF UnlinkObject, UnlinkStaged, RemoveMarker, CleanFault, EndCleaning
<1>6. Tick \/ (\E r \in Recovery : Recover(r)) => UNCHANGED <<rows, ended>>
  BY DEF Tick, Recover, StartCleaning
<1>7. (\E j \in Job : EndJob(j)) => UNCHANGED rows /\ ended \subseteq ended'
  BY DEF EndJob
<1> QED BY <1>2, <1>3, <1>4, <1>5, <1>6, <1>7 DEF ImportNext, Run, Clean

-----------------------------------------------------------------------------
(* The objects, while no heartbeat fails.                                  *)

\* An object goes only by a cleaning of its attempt, and only if it has no row.
LEMMA ObjectsGoByCleaning ==
  ASSUME ImportInv, ImportNext
  PROVE  \A k \in live \ live' :
           /\ k \notin Owned
           /\ \E a \in Attempt : k \in OwnKeys(a) /\ attempt[a].phase # "idle" /\ ~Alive(a)
           /\ UNCHANGED <<attempt, rows>>
<1> TAKE k \in live \ live'
<1>1. ASSUME NEW p \in Process, UnlinkObject(p)
      PROVE  /\ k \notin Owned
             /\ \E a \in Attempt : k \in OwnKeys(a) /\ attempt[a].phase # "idle" /\ ~Alive(a)
             /\ UNCHANGED <<attempt, rows>>
  <2>1. k = CleanedKey(p) /\ k \notin Owned /\ UNCHANGED <<attempt, rows>>
    BY <1>1 DEF UnlinkObject
  <2>2. cleaner[p].target \in Attempt /\ k \in OwnKeys(cleaner[p].target)
    BY <1>1, <2>1, CleanedKeyIsOwn DEF UnlinkObject, ImportInv
  <2>3. /\ attempt[cleaner[p].target].phase # "idle"
        /\ ~Alive(cleaner[p].target)
    BY <1>1 DEF UnlinkObject, ImportInv, CleanersFit
  <2> QED BY <2>1, <2>2, <2>3
<1>2. ASSUME NEW a \in Attempt,
             Begin(a) \/ Run(a) \/ Beat(a) \/ PulseFault(a) \/ Crash(a)
      PROVE  live \subseteq live'
  BY <1>2 DEF Run, Begin, Stage, Link, FailCopy, Publish, Leave, CleanOwn, StartCleaning,
              NothingToClean, Beat, PulseFault, Crash
<1>3. ASSUME NEW p \in Process, UnlinkStaged(p) \/ RemoveMarker(p) \/ CleanFault(p)
      PROVE  live \subseteq live'
  BY <1>3 DEF UnlinkStaged, RemoveMarker, CleanFault, EndCleaning
<1>4. Tick \/ (\E r \in Recovery : Recover(r)) \/ (\E j \in Job : EndJob(j)) =>
        live \subseteq live'
  BY DEF Tick, Recover, StartCleaning, EndJob
<1> QED BY <1>1, <1>2, <1>3, <1>4 DEF ImportNext, Clean

LEMMA PulsesWorkedBefore == ImportInv /\ ImportNext /\ PulsesWork' => PulsesWork
<1> SUFFICES ASSUME ImportInv, ImportNext PROVE PulsesWork' => PulsesWork
  OBVIOUS
<1>1. ASSUME NEW f \in FaultKind, Fault(f) PROVE PulsesWork' => PulsesWork
  BY <1>1, FaultsTyped DEF ImportInv
<1>2. ASSUME UNCHANGED faults PROVE PulsesWork' => PulsesWork
  BY <1>2 DEF PulsesWork
<1>3. ASSUME NEW a \in Attempt, PulseFault(a) \/ Crash(a)
      PROVE  Fault("pulse") \/ Fault("crash")
  BY <1>3 DEF PulseFault, Crash
<1>4. ASSUME NEW p \in Process, CleanFault(p) PROVE Fault("clean")
  BY <1>4 DEF CleanFault
<1>5. ASSUME NEW a \in Attempt, Begin(a) \/ Run(a) \/ Beat(a) PROVE UNCHANGED faults
  BY <1>5 DEF Run, Begin, Stage, Link, FailCopy, Publish, Leave, CleanOwn, StartCleaning,
              NothingToClean, Beat
<1>6. ASSUME NEW p \in Process, Clean(p) PROVE UNCHANGED faults
  BY <1>6 DEF Clean, UnlinkObject, UnlinkStaged, RemoveMarker
<1>7. Tick \/ (\E r \in Recovery : Recover(r)) \/ (\E j \in Job : EndJob(j)) =>
        UNCHANGED faults
  BY DEF Tick, Recover, StartCleaning, EndJob
<1> QED BY <1>1, <1>2, <1>3, <1>4, <1>5, <1>6, <1>7 DEF ImportNext, FaultKind

\* How far an attempt has copied.
LEMMA CopiedSteps ==
  ASSUME ImportInv, ImportNext, NEW b \in Attempt, attempt'[b].phase \in Running
  PROVE  \/ attempt'[b].copied = 0
         \/ attempt'[b].copied = attempt[b].copied
         \/ attempt'[b].copied = attempt[b].copied + 1 /\ NextKey(b) \in live'
<1>1. attempt \in [Attempt -> AttemptState]
  BY DEF ImportInv, ImportTypeOK
<1>2. ASSUME NEW a \in Attempt, Begin(a) \/ Beat(a)
      PROVE  attempt'[b].copied = 0 \/ attempt'[b].copied = attempt[b].copied
  <2>1. CASE Begin(a)
    BY <2>1, BeginStep
  <2>2. CASE Beat(a)
    BY <1>1, <2>2, BeatStep DEF AttemptState
  <2> QED BY <1>2, <2>1, <2>2
<1>3. ASSUME NEW a \in Attempt, Link(a)
      PROVE  \/ attempt'[b].copied = attempt[b].copied
             \/ attempt'[b].copied = attempt[b].copied + 1 /\ NextKey(b) \in live'
  BY <1>1, <1>3 DEF Link, AttemptState
<1>4. ASSUME NEW a \in Attempt,
             Stage(a) \/ FailCopy(a) \/ Publish(a) \/ Leave(a) \/ NothingToClean(a)
               \/ PulseFault(a) \/ Crash(a)
      PROVE  attempt'[b].copied = attempt[b].copied
  BY <1>1, <1>4 DEF Stage, FailCopy, Publish, Leave, NothingToClean, PulseFault, Crash,
                    AttemptState
<1>5. ASSUME NEW p \in Process, EndCleaning(p) PROVE attempt'[b].copied = attempt[b].copied
  BY <1>1, <1>5 DEF EndCleaning, AttemptState
<1>6. ASSUME NEW p \in Process, UnlinkObject(p) \/ UnlinkStaged(p) PROVE UNCHANGED attempt
  BY <1>6 DEF UnlinkObject, UnlinkStaged
<1>7. ASSUME NEW a \in Attempt, CleanOwn(a) PROVE UNCHANGED attempt
  BY <1>7 DEF CleanOwn
<1>8. (\E r \in Recovery : Recover(r)) \/ (\E j \in Job : EndJob(j)) => UNCHANGED attempt
  BY DEF Recover, EndJob
<1>9. CASE Tick
  BY <1>1, <1>9 DEF Tick, AttemptState
<1> QED BY <1>2, <1>3, <1>4, <1>5, <1>6, <1>7, <1>8, <1>9
        DEF ImportNext, Run, Clean, RemoveMarker, CleanFault

LEMMA CopiesStep == ImportInv /\ ImportNext => CopiesStay'
<1> SUFFICES ASSUME ImportInv, ImportNext, PulsesWork', NEW b \in Attempt,
                    attempt'[b].phase \in Running
             PROVE  /\ attempt'[b].pulse
                    /\ \A i \in 1 .. attempt'[b].copied : <<b, i>> \in live'
  BY DEF CopiesStay
<1> USE DEF ImportInv
<1>1. PulsesWork
  BY PulsesWorkedBefore
<1>2. attempt[b].phase \in Running =>
        attempt[b].pulse /\ \A i \in 1 .. attempt[b].copied : <<b, i>> \in live
  BY <1>1 DEF CopiesStay
<1>3. attempt \in [Attempt -> AttemptState] /\ attempt[b].copied \in 0 .. NumFiles
  BY DEF ImportTypeOK, AttemptState
<1>4. /\ attempt'[b].pulse
      /\ attempt[b].phase \notin Running => attempt'[b].copied = 0
  <2>1. ASSUME NEW a \in Attempt, Begin(a) PROVE
          /\ attempt'[b].pulse
          /\ attempt[b].phase \notin Running => attempt'[b].copied = 0
    <3>1. CASE b = a
      BY <2>1, <3>1, BeginStep DEF Alive
    <3>2. CASE b # a
      BY <1>2, <2>1, <3>2, BeginStep
    <3> QED BY <3>1, <3>2
  <2>2. ASSUME NEW a \in Attempt, Beat(a) PROVE
          /\ attempt'[b].pulse
          /\ attempt[b].phase \in Running
    BY <1>2, <1>3, <2>2, BeatStep DEF AttemptState
  <2>3. CASE Tick
    <3>1. attempt'[b] = [attempt[b] EXCEPT !.renewed = FALSE]
      BY <2>3 DEF Tick
    <3> QED BY <1>2, <1>3, <3>1 DEF AttemptState
  <2>4. CASE ~Tick /\ \A a \in Attempt : ~Begin(a) /\ ~Beat(a)
    BY <1>2, <2>4, CalmSteps DEF Calm
  <2> QED BY <2>1, <2>2, <2>3, <2>4
<1>5. ASSUME NEW i \in 1 .. attempt[b].copied, attempt[b].phase \in Running
      PROVE  <<b, i>> \in live'
  <2>1. <<b, i>> \in live /\ Alive(b)
    BY <1>2, <1>5 DEF Alive
  <2>2. \A a \in Attempt : <<b, i>> \in OwnKeys(a) => a = b
    BY DEF OwnKeys
  <2> QED BY <2>1, <2>2, ObjectsGoByCleaning
<1>6. CASE attempt[b].phase \in Running
  <2>1. ASSUME NEW i \in 1 .. attempt'[b].copied PROVE <<b, i>> \in live'
    <3>1. CASE i \in 1 .. attempt[b].copied
      BY <1>5, <1>6, <3>1
    <3>2. CASE i \notin 1 .. attempt[b].copied
      <4>1. i = attempt[b].copied + 1 /\ NextKey(b) \in live'
        BY <1>3, <2>1, <3>2, CopiedSteps
      <4> QED BY <4>1 DEF NextKey
    <3> QED BY <3>1, <3>2
  <2> QED BY <1>4, <2>1
<1>7. CASE attempt[b].phase \notin Running
  BY <1>4, <1>7
<1> QED BY <1>6, <1>7

LEMMA ObjectsStep == ImportInv /\ ImportNext => ObjectsStay'
<1> SUFFICES ASSUME ImportInv, ImportNext PROVE ObjectsStay'
  OBVIOUS
<1>1. SharedKey \subseteq live'
  <2>1. \A a \in Attempt : OwnKeys(a) \cap SharedKey = {}
    BY KeyFacts, ImportAssumption DEF OwnKeys
  <2> QED BY <2>1, ObjectsGoByCleaning DEF ImportInv, ObjectsStay
<1>2. ASSUME PulsesWork' PROVE Owned' \subseteq live'
  <2>1. Owned \subseteq live
    BY <1>2, PulsesWorkedBefore DEF ImportInv, ObjectsStay
  <2>2. CASE UNCHANGED rows
    BY <2>1, <2>2, ObjectsGoByCleaning DEF Owned
  <2>3. ASSUME NEW a \in Attempt, Publish(a) PROVE Owned' \subseteq live'
    <3>1. attempt[a].phase \in Running /\ attempt[a].copied = NumFiles /\ live' = live
      BY <2>3 DEF Publish, Running
    <3>2. Targets(a) \subseteq live
      <4>1. OwnKeys(a) \subseteq live
        BY <1>2, <3>1, PulsesWorkedBefore DEF ImportInv, CopiesStay, OwnKeys
      <4> QED BY <4>1, KeyFacts DEF ImportInv, ObjectsStay
    <3>3. \A r \in rows' : r \in rows \/ r[2] \in Targets(a)
      BY <2>3 DEF Publish
    <3> QED BY <2>1, <3>1, <3>2, <3>3 DEF Owned
  <2>4. UNCHANGED rows \/ \E a \in Attempt : Publish(a)
    <3>1. ASSUME NEW a \in Attempt,
                 Begin(a) \/ Stage(a) \/ Link(a) \/ FailCopy(a) \/ Leave(a) \/ CleanOwn(a)
                   \/ NothingToClean(a) \/ Beat(a) \/ PulseFault(a) \/ Crash(a)
          PROVE  UNCHANGED rows
      BY <3>1 DEF Begin, Stage, Link, FailCopy, Leave, CleanOwn, StartCleaning,
                  NothingToClean, Beat, PulseFault, Crash
    <3>2. ASSUME NEW p \in Process,
                 UnlinkObject(p) \/ UnlinkStaged(p) \/ RemoveMarker(p) \/ CleanFault(p)
          PROVE  UNCHANGED rows
      BY <3>2 DEF UnlinkObject, UnlinkStaged, RemoveMarker, CleanFault, EndCleaning
    <3>3. Tick \/ (\E r \in Recovery : Recover(r)) \/ (\E j \in Job : EndJob(j)) =>
            UNCHANGED rows
      BY DEF Tick, Recover, StartCleaning, EndJob
    <3> QED BY <3>1, <3>2, <3>3 DEF ImportNext, Run, Clean
  <2> QED BY <2>2, <2>3, <2>4
<1> QED BY <1>1, <1>2 DEF ObjectsStay

-----------------------------------------------------------------------------
(* The theorems.                                                           *)

(* The inductive invariant of the imports (JobCompletionService).          *)
THEOREM ImportInvariantHolds == ImportSpec => []ImportInv
<1>1. ImportInv /\ UNCHANGED importVars => ImportInv'
  BY DEF importVars, ImportInv, ImportTypeOK, MarkersFit, CleanersFit, Cleaning, Alive,
         RowsFit, RowsOf, CopiesStay, ObjectsStay, Owned, PulsesWork
<1>2. ImportInv /\ [ImportNext]_importVars => ImportInv'
  BY <1>1, TypedStep, MarkersStep, CleanersStep, RowsStep, CopiesStep, ObjectsStep
  DEF ImportInv
<1> QED BY ImportInitFits, <1>2, PTL DEF ImportSpec

(* Recovery never takes the marker of an attempt whose heartbeat works,    *)
(* however long it copies and whatever else fails                          *)
(* (JobCompletionService.recover, _attempt.heartbeat).                     *)
THEOREM BeatingAttemptsAreSpared == ImportSpec => []BeatingAttemptsKeepMarkers
<1>1. ImportInv => BeatingAttemptsKeepMarkers
  BY KeyFacts, ImportAssumption DEF ImportInv, MarkersFit, BeatingAttemptsKeepMarkers
<1> QED BY <1>1, ImportInvariantHolds, PTL

(* Where no heartbeat fails, the rows of a job are those of one attempt,   *)
(* no object has two owners, and the objects of ready assets exist,        *)
(* whatever crashes and whichever cleaning fails                           *)
(* (JobCompletionService._complete_pending, _clean_attempt).               *)
THEOREM PublishedResultsAreWhole ==
  ASSUME MaxPulseFaults = 0
  PROVE  ImportSpec => []PublicationsAreWhole
<1>1. ImportInv /\ PulsesWork => PublicationsAreWhole
  BY DEF ImportInv, RowsFit, ObjectsStay, PublicationsAreWhole
<1>2. Init => PulsesWork
  BY DEF Init, PulsesWork, FaultKind
<1>3. ImportInv /\ PulsesWork /\ [ImportNext]_importVars => PulsesWork'
  <2> SUFFICES ASSUME ImportInv, PulsesWork, [ImportNext]_importVars PROVE PulsesWork'
    OBVIOUS
  <2>1. ~Fault("pulse")
    BY DEF Fault, Bound, PulsesWork
  <2>2. ASSUME NEW f \in {"crash", "clean"}, Fault(f) PROVE PulsesWork'
    BY <2>2 DEF ImportInv, ImportTypeOK, Fault, FaultKind, PulsesWork
  <2>3. ASSUME UNCHANGED faults PROVE PulsesWork'
    BY <2>3 DEF PulsesWork
  <2>4. ASSUME NEW a \in Attempt, Begin(a) \/ Run(a) \/ Beat(a) PROVE UNCHANGED faults
    BY <2>4 DEF Run, Begin, Stage, Link, FailCopy, Publish, Leave, CleanOwn, StartCleaning,
                NothingToClean, Beat
  <2>5. ASSUME NEW p \in Process, Clean(p) PROVE UNCHANGED faults
    BY <2>5 DEF Clean, UnlinkObject, UnlinkStaged, RemoveMarker
  <2>6. Tick \/ (\E r \in Recovery : Recover(r)) \/ (\E j \in Job : EndJob(j))
          \/ UNCHANGED importVars => UNCHANGED faults
    BY DEF Tick, Recover, StartCleaning, EndJob, importVars
  <2> QED BY <2>1, <2>2, <2>3, <2>4, <2>5, <2>6
          DEF ImportNext, PulseFault, Crash, CleanFault
<1> QED BY <1>1, <1>2, <1>3, ImportInvariantHolds, PTL DEF ImportSpec
===============================================================================
