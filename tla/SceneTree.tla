------------------------------ MODULE SceneTree ------------------------------
(***************************************************************************)
(* The table scene_objects: one tree with an order for each project, whose *)
(* nodes show assets of the library.  The edits of one project             *)
(* (services/scene_objects.py, services/projects.py) and the deletion of   *)
(* library assets, which takes nodes out of the trees of many projects,    *)
(* change it in transactions of several statements.                        *)
(*                                                                         *)
(* Every transaction begins with an UPDATE or with BEGIN IMMEDIATE and so  *)
(* holds SQLite's writer lock to its end; the others see only what has     *)
(* been committed.  Whether the If-Match of an edit is current is the      *)
(* matter of ProjectRevision.                                              *)
(***************************************************************************)
EXTENDS Integers, FiniteSets

CONSTANTS Project, Object, Asset,
          None   \* the parent of a root

ASSUME TreeAssumption == /\ None \notin Object
                         /\ IsFiniteSet(Object)

VARIABLES
  objects,   \* the committed rows of scene_objects, by id
  assets,    \* the library assets that are ready
  checked    \* assets that an add has found ready before its transaction

VARIABLES    \* the transaction that holds the lock
  busy,      \* there is one
  rows,      \* scene_objects as it sees it
  target,    \* the orders that its UPDATEs have still to set, by id
  left,      \* the projects from which a deletion has still to take objects
  going,     \* the assets that it deletes
  advanced   \* the projects whose revision it has advanced

treeTables == <<objects, assets, checked>>
treeTx == <<busy, rows, target, left, going, advanced>>
treeVars == <<objects, assets, checked, busy, rows, target, left, going, advanced>>

-----------------------------------------------------------------------------

Row == [project : Project, parent : Object \cup {None}, asset : Asset, order : Int]

Empty == [o \in {} |-> 0]

IsTable(rs) == DOMAIN rs \subseteq Object /\ rs \in [DOMAIN rs -> Row]

TreeTypeOK ==
  /\ IsTable(objects) /\ IsTable(rows)
  /\ assets \subseteq Asset /\ checked \subseteq Asset /\ going \subseteq Asset
  /\ busy \in BOOLEAN
  /\ DOMAIN target \subseteq Object /\ target \in [DOMAIN target -> Nat]
  /\ left \subseteq Project /\ advanced \subseteq Project

Scene(rs, p) == {o \in DOMAIN rs : rs[o].project = p}

\* SELECT ... ORDER BY sort_order: the index of object o in the list of S.
Rank(rs, S, o) == Cardinality({x \in S : rs[x].order < rs[o].order})

\* Mutant: the list is read after the rows have been moved away.
Ranks_AfterShift(rs, S) ==
  [o \in S |-> Cardinality({x \in S : rs[x].order > rs[o].order})]

Ranks(rs, S) == [o \in S |-> Rank(rs, S, o)]

\* list.remove, list.insert: the list of scene S with o moved to index k.
Moved(rs, S, o, k) ==
  [x \in S |-> IF x = o THEN k
               ELSE LET i == Rank(rs, S \ {o}, x) IN IF i < k THEN i ELSE i + 1]

Without(rs, S) == [o \in DOMAIN rs \ S |-> rs[o]]

\* UPDATE scene_objects SET sort_order = -sort_order - 1 WHERE project_id = p
Shifted(rs, p) == [o \in DOMAIN rs |-> IF rs[o].project = p
                                       THEN [rs[o] EXCEPT !.order = -@ - 1] ELSE rs[o]]

\* Mutant: only the parent itself is compared with o.
ValidParent_Shallow(rs, p, o, q) == q \in (Scene(rs, p) \ {o}) \cup {None}

\* The walk up from q ends at a root of the project and does not meet o.
ValidParent(rs, p, o, q) ==
  \/ q = None
  \/ \E S \in SUBSET (Scene(rs, p) \ {o}) :
       q \in S /\ \A x \in S : rs[x].parent \in S \cup {None}

\* What the database checks of a transaction: UNIQUE (project_id, sort_order) and the
\* key of the asset at each statement, the deferred key of the parent at its end.
OrdersDiffer(rs) == \A o, x \in DOMAIN rs :
  o # x /\ rs[o].project = rs[x].project => rs[o].order # rs[x].order

AssetsExist(rs, as) == \A o \in DOMAIN rs : rs[o].asset \in as

ParentsExist(rs) == \A o \in DOMAIN rs :
  rs[o].parent # None => rs[o].parent \in Scene(rs, rs[o].project) \ {o}

TreeInit ==
  /\ objects = Empty /\ assets = Asset /\ checked = {}
  /\ busy = FALSE /\ rows = Empty /\ target = Empty
  /\ left = {} /\ going = {} /\ advanced = {}

BeginEdit(rs, t, p) ==
  /\ ~busy /\ busy' = TRUE
  /\ rows' = rs /\ target' = t /\ advanced' = {p}
  /\ UNCHANGED <<objects, assets, left, going>>

-----------------------------------------------------------------------------
(* The edits of one project.                                               *)

\* SceneObjectService.add reads the asset before its first UPDATE takes the lock.
CheckAsset(a) ==
  /\ a \in assets \ checked
  /\ checked' = checked \cup {a}
  /\ UNCHANGED <<objects, assets, treeTx>>

\* The INSERT finds no such asset, or the parent or the If-Match is refused.
RefuseAdd(a) ==
  /\ a \in checked
  /\ checked' = checked \ {a}
  /\ UNCHANGED <<objects, assets, treeTx>>

Add(p, o, q, a) ==
  /\ a \in checked /\ a \in assets
  /\ o \in Object \ DOMAIN objects /\ ValidParent(objects, p, o, q)
  /\ BeginEdit([x \in DOMAIN objects \cup {o} |->
              IF x = o THEN [project |-> p, parent |-> q, asset |-> a,
                             order |-> Cardinality(Scene(objects, p))]
                       ELSE objects[x]], Empty, p)
  /\ checked' = checked \ {a}

\* A new parent, or other values that this model leaves out.
MoveUnder(p, o, q) ==
  /\ o \in Scene(objects, p) /\ ValidParent(objects, p, o, q)
  /\ BeginEdit([objects EXCEPT ![o].parent = q], Empty, p)
  /\ UNCHANGED checked

\* A new place in the list, perhaps with a new parent.
MoveTo(p, o, q, k) ==
  /\ o \in Scene(objects, p) /\ ValidParent(objects, p, o, q)
  /\ k \in 0 .. Cardinality(Scene(objects, p)) - 1
  /\ BeginEdit(Shifted([objects EXCEPT ![o].parent = q], p),
           Moved(objects, Scene(objects, p), o, k), p)
  /\ UNCHANGED checked

Remove(p, o) ==
  /\ o \in Scene(objects, p)
  /\ \A x \in Scene(objects, p) : objects[x].parent # o
  /\ LET rest == Without(objects, {o}) IN
       BeginEdit(Shifted(rest, p), Ranks(rest, Scene(rest, p)), p)
  /\ UNCHANGED checked

\* reset_project, and delete_project with ON DELETE CASCADE.
Clear(p) ==
  /\ BeginEdit(Without(objects, Scene(objects, p)), Empty, p)
  /\ UNCHANGED checked

-----------------------------------------------------------------------------
(* The deletion of library assets.                                         *)

Showing(rs, as) == {o \in DOMAIN rs : rs[o].asset \in as}

\* Mutant: the survivors are not asked.
RemoveAssets_Unasked(as) ==
  /\ as \subseteq assets /\ as # {}
  /\ ~busy /\ busy' = TRUE
  /\ rows' = objects /\ going' = as
  /\ left' = {p \in Project : Scene(objects, p) \cap Showing(objects, as) # {}}
  /\ UNCHANGED <<treeTables, target, advanced>>

\* All projects are asked first: a surviving child refuses the whole deletion.
RemoveAssets(as) ==
  /\ as \subseteq assets /\ as # {}
  /\ \A o \in DOMAIN objects :
       objects[o].parent \in Showing(objects, as) => o \in Showing(objects, as)
  /\ ~busy /\ busy' = TRUE
  /\ rows' = objects /\ going' = as
  /\ left' = {p \in Project : Scene(objects, p) \cap Showing(objects, as) # {}}
  /\ UNCHANGED <<treeTables, target, advanced>>

\* The turn of project p: its revision, the DELETE, the start of the renumbering.
ClearProject(p) ==
  /\ p \in left /\ DOMAIN target = {}
  /\ left' = left \ {p} /\ advanced' = advanced \cup {p}
  /\ LET rest == Without(rows, Scene(rows, p) \cap Showing(rows, going)) IN
       /\ rows' = Shifted(rest, p)
       /\ target' = Ranks(rest, Scene(rest, p))
  /\ UNCHANGED <<treeTables, busy, going>>

-----------------------------------------------------------------------------
(* The statements that all of them end with.  After one that has broken a  *)
(* constraint there is only the rollback.                                  *)

\* UPDATE scene_objects SET sort_order = index WHERE id = o, in the order of the list.
Place(o) ==
  /\ o \in DOMAIN target /\ OrdersDiffer(rows)
  /\ \A x \in DOMAIN target : target[o] <= target[x]
  /\ rows' = [rows EXCEPT ![o].order = target[o]]
  /\ target' = Without(target, {o})
  /\ UNCHANGED <<treeTables, busy, left, going, advanced>>

Finished == busy /\ DOMAIN target = {} /\ left = {}

End == /\ busy' = FALSE /\ rows' = Empty /\ target' = Empty
       /\ left' = {} /\ going' = {} /\ advanced' = {}
       /\ UNCHANGED checked

CommitScene ==
  /\ Finished
  /\ OrdersDiffer(rows) /\ ParentsExist(rows) /\ AssetsExist(rows, assets \ going)
  /\ objects' = rows /\ assets' = assets \ going
  /\ End

\* An error, a request that is cancelled, or a process that stops.
RollBackScene == busy /\ End /\ UNCHANGED <<objects, assets>>

EditScene(p) ==
  \/ \E o \in Object, q \in Object \cup {None} :
       \/ \E a \in Asset : Add(p, o, q, a)
       \/ MoveUnder(p, o, q)
       \/ \E k \in 0 .. Cardinality(Object) : MoveTo(p, o, q, k)
  \/ \E o \in Object : Remove(p, o)
  \/ Clear(p)

TreeNext ==
  \/ \E a \in Asset : CheckAsset(a) \/ RefuseAdd(a)
  \/ \E p \in Project : EditScene(p) \/ ClearProject(p)
  \/ \E as \in SUBSET Asset : RemoveAssets(as)
  \/ \E o \in Object : Place(o)
  \/ CommitScene \/ RollBackScene

TreeSpec == TreeInit /\ [][TreeNext]_treeVars

-----------------------------------------------------------------------------
(* Properties.                                                             *)

(* No set of objects has all its parents within itself.                    *)
Acyclic(rs) == \A S \in SUBSET DOMAIN rs :
  S # {} => \E o \in S : rs[o].parent \notin S

(* The orders of a scene are the indices of a list.                        *)
OrdersAreDense(rs) == \A p \in Project :
  {rs[o].order : o \in Scene(rs, p)} = 0 .. Cardinality(Scene(rs, p)) - 1

(* Whatever is committed is a forest of objects of one project, numbered   *)
(* without gaps, whose assets are in the library (SceneObjectRepository:   *)
(* the database itself checks neither cycles nor gaps, and an add checks   *)
(* its asset before it holds the lock).                                    *)
ScenesAreWhole ==
  /\ Acyclic(objects) /\ ParentsExist(objects)
  /\ OrdersDiffer(objects) /\ OrdersAreDense(objects)
  /\ AssetsExist(objects, assets)

(* No statement of a transaction fails on a constraint: the checks and the *)
(* order of the statements in SceneObjectRepository see to it, in all      *)
(* projects that a deletion from the library reaches.  And whatever        *)
(* changes a scene has advanced its revision, so that clients find out.    *)
StatementsSucceed ==
  busy => /\ OrdersDiffer(rows)
          /\ Finished => /\ ParentsExist(rows)
                         /\ AssetsExist(rows, assets \ going)
                         /\ \A p \in Project \ advanced :
                              Scene(rows, p) = Scene(objects, p)

(* A commit moves at most one object past others, and none if it removes   *)
(* any: those that survive, in whatever project, keep their order          *)
(* (SceneObjectRepository._reorder).                                       *)
OthersKeepTheirOrder == [][
  \E moved \in Object \cup {None} :
    /\ moved # None => DOMAIN objects \subseteq DOMAIN objects'
    /\ \A o, x \in (DOMAIN objects \cap DOMAIN objects') \ {moved} :
         /\ objects'[o].project = objects[o].project
         /\ objects[o].project = objects[x].project =>
              (objects[o].order < objects[x].order <=> objects'[o].order < objects'[x].order)
  ]_objects
=============================================================================
