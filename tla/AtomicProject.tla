---------------------------- MODULE AtomicProject ----------------------------
(***************************************************************************)
(* What the backend promises about a project to several editors: one       *)
(* register, whose every change is made on the content it replaces and     *)
(* advances the revision by one.                                           *)
(***************************************************************************)
EXTENDS Naturals

CONSTANTS Part,    \* the resources of a project
          Writer,  \* those who change it, each at most once in a part
          Gone     \* the revision of a deleted project

VARIABLES revision,  \* the revision of the project
          content    \* content[p]: the writers whose change p shows

vars == <<revision, content>>

Blank == [p \in Part |-> {}]

Init == revision = 0 /\ content = Blank

Write(parts, w) ==
    /\ revision # Gone
    /\ revision' = revision + 1
    /\ content' = [p \in Part |-> IF p \in parts THEN content[p] \cup {w} ELSE content[p]]

Clear == /\ revision # Gone
         /\ revision' = revision + 1
         /\ content' = Blank

Remove == /\ revision # Gone
          /\ revision' = Gone
          /\ content' = Blank

Next == \/ \E parts \in SUBSET Part, w \in Writer : Write(parts, w)
        \/ Clear
        \/ Remove

Spec == Init /\ [][Next]_vars
=============================================================================
