---------------------------- MODULE SharedClouds ----------------------------
(***************************************************************************)
(* What the viewport promises about the clouds that its surfaces share:    *)
(* each cloud that is wanted is loaded once, however many surfaces want it *)
(* and however often they ask, a load that failed is tried again when it   *)
(* is asked for again, whoever holds a loaded cloud draws it, and all that *)
(* nobody holds is given up at once.                                       *)
(***************************************************************************)
CONSTANT Resource  \* what can be loaded

VARIABLES held,     \* what the mounted surfaces hold
          loading,  \* what is being loaded
          ready,    \* what is loaded
          drawn     \* what some surface draws

vars == <<held, loading, ready, drawn>>

Init == held = {} /\ loading = {} /\ ready = {} /\ drawn = {}

\* All surfaces ask anew.
Lease == /\ held' \subseteq Resource
         /\ loading' = loading \cup (held' \ ready)
         /\ drawn' = held' \cap ready
         /\ UNCHANGED ready

Load(r) == /\ loading' = loading \ {r}
           /\ ready' = ready \cup {r}
           /\ drawn' = drawn \cup ({r} \cap held)
           /\ UNCHANGED held

Fail(r) == /\ loading' = loading \ {r}
           /\ UNCHANGED <<held, ready, drawn>>

GiveUp == /\ loading' = loading \cap held
          /\ ready' = ready \cap held
          /\ UNCHANGED <<held, drawn>>

Next == Lease \/ (\E r \in loading : Load(r) \/ Fail(r)) \/ GiveUp

Spec == Init /\ [][Next]_vars
=============================================================================
