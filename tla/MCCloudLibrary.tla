---------------------------- MODULE MCCloudLibrary ----------------------------
(***************************************************************************)
(* Instances of CloudLibrary for TLC, explored in one run: one image with  *)
(* two confirmations and two deletions in any interleaving, and one cloud  *)
(* with a thumbnail, one confirmation at a time, one deletion and a crash. *)
(***************************************************************************)
EXTENDS CloudLibrary, FiniteSets, TLC

CONSTANTS a1, a2, c1, c2, d1, d2, junk

VARIABLE scenario   \* "race" or "serial": constant in a behaviour

RequestSymmetry == Permutations({c1, c2}) \cup Permutations({d1, d2})

Race == /\ row[a2] = "absent" /\ ~Exists(Thumbnail(a2))
        /\ crashes = 0

Serial == /\ row[a1] = "absent"
          /\ \A o \in Object : bucket[o] # junk
          /\ Cardinality({c \in Confirmation : ~At(c, "idle")}) <= 1
          /\ Cardinality({d \in Deletion : ~InStep(d, "idle")}) <= 1

InScenario == IF scenario = "race" THEN Race ELSE Serial

MCInit == CloudInit /\ scenario \in {"race", "serial"} /\ InScenario
MCNext == Next /\ UNCHANGED scenario /\ InScenario'
MCSpec == MCInit /\ [][MCNext]_<<vars, scenario>>

\* The promise of PublishedObjectsAreFinal, kept while the confirmations of an
\* asset come one after the other.
SerialObjectsAreFinal == [][scenario = "serial" => ObjectsStayFinal]_vars
===============================================================================
