--------------------------- MODULE AssetLifecycle ---------------------------
(***************************************************************************)
(* What the library promises about an asset, whatever storage holds its    *)
(* bytes: it is reserved, confirmed and removed in this order, a removal   *)
(* of several assets happens at once, and from its confirmation to its     *)
(* removal the bytes of an asset exist somewhere, be it at its key or in   *)
(* the place where a deletion keeps them until it is certain.              *)
(***************************************************************************)
CONSTANT Asset

VARIABLES status,  \* the row of every asset
          stored   \* the assets all of whose bytes exist somewhere

vars == <<status, stored>>

Status == {"absent", "pending", "ready", "deleted"}

Ready == {a \in Asset : status[a] = "ready"}

TypeOK == /\ status \in [Asset -> Status]
          /\ stored \subseteq Asset

Init == /\ status = [a \in Asset |-> "absent"]
        /\ stored \subseteq Asset

Reserve(a) == /\ status[a] = "absent"
              /\ status' = [status EXCEPT ![a] = "pending"]
              /\ UNCHANGED stored

Confirm(a) == /\ status[a] \in {"pending", "ready"}
              /\ a \in stored
              /\ status' = [status EXCEPT ![a] = "ready"]
              /\ UNCHANGED stored

Remove(removed) ==
    /\ \A a \in removed : status[a] \in {"pending", "ready"}
    /\ status' = [a \in Asset |-> IF a \in removed THEN "deleted" ELSE status[a]]
    /\ UNCHANGED stored

\* Bytes come and go, those of a ready asset only come.
MoveBytes == /\ stored' \subseteq Asset
             /\ Ready \subseteq stored'
             /\ UNCHANGED status

Next == \/ \E a \in Asset : Reserve(a) \/ Confirm(a)
        \/ \E removed \in SUBSET Asset : Remove(removed)
        \/ MoveBytes

Spec == Init /\ [][Next]_vars

\* What follows for a client: a listed asset can be delivered or recovered.
ReadyIsStored == Ready \subseteq stored
=============================================================================
