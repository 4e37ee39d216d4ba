------------------------------ MODULE MCProject ------------------------------
(***************************************************************************)
(* Instances of ProjectRevision and of SceneTree for TLC, explored in one  *)
(* run: two requests of any kind in two processes with two library         *)
(* deletions; three requests of any kind but resets in one process without *)
(* a deletion; and the trees of two projects, while no request comes.      *)
(***************************************************************************)
EXTENDS ProjectRevision, SceneTree

CONSTANTS r1, r2, r3, d1, d2, p1,
          o1, o2, o3,
          far          \* the project with at most one object

VARIABLE scenario   \* "shared", "locked" or "trees": constant in a behaviour

mcVars == <<vars, treeVars, scenario>>

\* Requests, processes and deletions are interchangeable: one order of each stands
\* for the others (a SYMMETRY would not be sound with the liveness property).
Turn == [legacy |-> 0, edit |-> 1, reset |-> 2, delete |-> 3, scene |-> 4, agent |-> 5]
Before(r, s) == Turn[kind[r]] <= Turn[kind[s]]
InOrder == /\ Before(r1, r2) /\ via[r1] = p1
           /\ d2 \in deleted => d1 \in deleted

Shared == at[r3] = "new" /\ kind[r3] = "edit" /\ via[r3] = p1

Locked == /\ deleted = {} /\ Before(r2, r3)
          /\ \A r \in Request : kind[r] # "reset" /\ via[r] = p1

Trees == deleted = {} /\ \A r \in Request : kind[r] = "edit" /\ via[r] = p1

InScenario == InOrder /\ CASE scenario = "shared" -> Shared
                           [] scenario = "locked" -> Locked
                           [] scenario = "trees"  -> Trees

\* Objects are interchangeable: a new one is the lowest that there is not.
LowestFirst == ~busy => /\ o2 \in DOMAIN rows' \ DOMAIN objects => o1 \in DOMAIN objects
                        /\ o3 \in DOMAIN rows' \ DOMAIN objects => {o1, o2} \subseteq DOMAIN objects

\* One add is under way before its transaction, and one project is small.
FewObjects == Cardinality(checked') <= 1 /\ Cardinality(Scene(rows', far)) <= 1

\* What a scenario leaves out are requests and deletions, which have no fairness.
MCInit == /\ Init /\ TreeInit
          /\ scenario \in {"shared", "locked", "trees"} /\ InScenario
MCNext ==
  /\ UNCHANGED scenario
  /\ \/ scenario # "trees" /\ Next /\ InScenario' /\ UNCHANGED treeVars
     \/ scenario = "trees" /\ TreeNext /\ LowestFirst /\ FewObjects /\ UNCHANGED vars
MCSpec == MCInit /\ [][MCNext]_mcVars /\ Fairness
=============================================================================
