---------------------------- MODULE MCImportAttempt ----------------------------
(***************************************************************************)
(* Instances of ImportAttempt for TLC, explored in one run: two deliveries *)
(* of one message with a heartbeat that may fail, and two jobs whose       *)
(* messages adopt the same object with a cleaning that may fail half way.  *)
(***************************************************************************)
EXTENDS ImportAttempt, TLC

CONSTANTS a1, a2, a3, j1, j2, s1

VARIABLE scenario   \* "twice" or "jobs": constant in a behaviour

TwiceAndOnce == (a1 :> j1) @@ (a2 :> j1) @@ (a3 :> j2)
AdoptShared == [a \in {a1, a2, a3} |-> {s1}]

Twice == /\ attempt[a3].phase = "idle" /\ j2 \notin ended
         /\ faults["clean"] = 0

TwoJobs == /\ attempt[a2].phase = "idle"
           /\ faults["pulse"] = 0

InScenario == IF scenario = "twice" THEN Twice ELSE TwoJobs

\* What a scenario leaves out are first steps and faults, which have no fairness.
MCInit == Init /\ scenario \in {"twice", "jobs"} /\ InScenario
MCNext == ImportNext /\ UNCHANGED scenario /\ InScenario'
MCSpec == MCInit /\ [][MCNext]_<<importVars, scenario>> /\ ImportFairness
===============================================================================
