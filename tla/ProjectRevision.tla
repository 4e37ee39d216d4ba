--------------------------- MODULE ProjectRevision ---------------------------
(***************************************************************************)
(* Editing one project by several clients: the If-Match guard and its lock *)
(* (routers/dependencies.py), the load of a draft in several SELECTs, the  *)
(* conditional advance of the revision, the turn of the agent around an    *)
(* external model, and the deletion of library assets, which changes the   *)
(* scene of a project without the guard.                                   *)
(*                                                                         *)
(* Every process has its own locks; the deployments run one process. A     *)
(* SELECT is a step, and so is a transaction that begins with an UPDATE:   *)
(* SQLite holds the write lock from that UPDATE to the commit, and none    *)
(* before it.                                                              *)
(***************************************************************************)
EXTENDS Naturals

CONSTANTS
  Request,   \* mutations, each sent once
  Deletion,  \* deletions of library assets that the scene of the project shows
  Kind,      \* the kinds of mutation to consider
  Process,   \* processes of the backend
  Gone       \* the revision of a deleted project

Part == {"anchors", "chat", "scene"}
AllKinds == {"edit", "legacy", "reset", "delete", "scene", "agent"}
Writer == Request \cup Deletion

ASSUME ProjectAssumption == /\ Kind \subseteq AllKinds
                            /\ Gone \notin Nat
                            /\ Request \cap Deletion = {}

VARIABLES
  revision,  \* projects.revision
  content,   \* content[p]: whose changes the rows of part p show
  lock,      \* the requests that hold the lock of the project, one a process
  kind,      \* kind[r]: what request r asks for
  via,       \* via[r]: the process that serves r
  at,        \* at[r]: how far r has come
  seen,      \* seen[r]: what its client last read or was answered
  draft,     \* draft[r]: the project that its handler works on
  deleted    \* the library deletions that have committed

vars == <<revision, content, lock, kind, via, at, seen, draft, deleted>>
project == <<revision, content>>

-----------------------------------------------------------------------------

Inside == {"checked", "loading", "asking"}
Answered == {"done", "conflict", "missing", "failed"}
Progress == {"new", "reading", "ready"} \cup Inside \cup Answered

\* A project as read: its revision, then part after part.
View == [revision : Nat \cup {Gone}, parts : UNION {[S -> SUBSET Writer] : S \in SUBSET Part}]
Unread == [revision |-> Gone, parts |-> [p \in {} |-> {}]]

\* GET /scene-objects reads the scene, every other read loads the project.
Read(k) == IF k = "scene" THEN {"scene"} ELSE {"anchors", "chat"}

Begin(view) == [revision |-> revision, parts |-> [p \in {} |-> {}]]

\* Mutant: the revision is read after the parts.
ReadOn_RevisionLast(view, p) ==
    [revision |-> revision,
     parts |-> [q \in DOMAIN view.parts \cup {p} |->
                    IF q = p THEN content[p] ELSE view.parts[q]]]

ReadOn(view, p) ==
    [view EXCEPT !.parts = [q \in DOMAIN view.parts \cup {p} |->
                                IF q = p THEN content[p] ELSE view.parts[q]]]

Complete(view, k) == DOMAIN view.parts = Read(k)

\* A handler is inside the guard exactly while it holds the lock.
LockHeld == /\ \A r \in Request : at[r] \in Inside <=> r \in lock
            /\ \A r, s \in lock : via[r] = via[s] => r = s

\* Types, and who holds the lock.
TypeOK ==
    /\ revision \in Nat \cup {Gone}
    /\ content \in [Part -> SUBSET Writer]
    /\ lock \subseteq Request
    /\ kind \in [Request -> Kind]
    /\ via \in [Request -> Process]
    /\ at \in [Request -> Progress]
    /\ seen \in [Request -> View]
    /\ draft \in [Request -> View]
    /\ deleted \subseteq Deletion
    /\ LockHeld

Init == /\ revision = 0
        /\ content = [p \in Part |-> {}]
        /\ lock = {}
        /\ kind \in [Request -> Kind]
        /\ via \in [Request -> Process]
        /\ at = [r \in Request |-> "new"]
        /\ seen = [r \in Request |-> Unread]
        /\ draft = [r \in Request |-> Unread]
        /\ deleted = {}

Goto(r, step) == at' = [at EXCEPT ![r] = step]

\* The lock is released when the request ends.
Answer(r, status) == Goto(r, status) /\ lock' = lock \ {r}

Free(r) == \A s \in lock : via[s] # via[r]

-----------------------------------------------------------------------------
(* The client.                                                             *)

StartRead(r) ==
    /\ at[r] = "new" /\ kind[r] # "legacy"
    /\ revision # Gone
    /\ seen' = [seen EXCEPT ![r] = Begin(@)]
    /\ Goto(r, "reading")
    /\ UNCHANGED <<project, lock, kind, via, draft, deleted>>

ReadPart(r) ==
    /\ at[r] = "reading"
    /\ \E p \in Read(kind[r]) \ DOMAIN seen[r].parts :
           seen' = [seen EXCEPT ![r] = ReadOn(@, p)]
    /\ UNCHANGED <<project, lock, kind, via, at, draft, deleted>>

\* An unversioned URL needs no If-Match, and its client need not have read.
Send(r) ==
    /\ \/ at[r] = "new" /\ kind[r] = "legacy"
       \/ at[r] = "reading" /\ Complete(seen[r], kind[r])
    /\ Goto(r, "ready")
    /\ UNCHANGED <<project, lock, kind, via, seen, draft, deleted>>

-----------------------------------------------------------------------------
(* The guard and the load of a draft.                                      *)

Accepted(r) == \/ kind[r] = "legacy"
               \/ revision # Gone /\ seen[r].revision = revision

\* Mutant: the guard compares revisions and takes no lock.
Enter_NoLock(r) ==
    /\ at[r] = "ready" /\ Accepted(r)
    /\ Goto(r, "checked")
    /\ UNCHANGED <<project, lock, kind, via, seen, draft, deleted>>

Enter(r) ==
    /\ at[r] = "ready" /\ Free(r)
    /\ Accepted(r)
    /\ Goto(r, "checked") /\ lock' = lock \cup {r}
    /\ UNCHANGED <<project, kind, via, seen, draft, deleted>>

RefuseEntry(r) ==
    /\ at[r] = "ready" /\ Free(r)
    /\ ~Accepted(r)
    /\ Goto(r, IF revision = Gone THEN "missing" ELSE "conflict")
    /\ UNCHANGED <<project, lock, kind, via, seen, draft, deleted>>

\* Services load the project again: they do not use the revision of If-Match.
LoadRevision(r) ==
    /\ at[r] = "checked" /\ kind[r] \in {"edit", "legacy", "reset", "agent"}
    /\ \/ /\ revision # Gone
          /\ draft' = [draft EXCEPT ![r] = Begin(@)]
          /\ Goto(r, "loading") /\ UNCHANGED lock
       \/ /\ revision = Gone
          /\ Answer(r, "missing") /\ UNCHANGED draft
    /\ UNCHANGED <<project, kind, via, seen, deleted>>

LoadPart(r) ==
    /\ at[r] = "loading"
    /\ \E p \in Read(kind[r]) \ DOMAIN draft[r].parts :
           draft' = [draft EXCEPT ![r] = ReadOn(@, p)]
    /\ UNCHANGED <<project, lock, kind, via, at, seen, deleted>>

-----------------------------------------------------------------------------
(* The transaction that ends a mutation.                                   *)

\* The chat already shows the message of this turn.
Recorded(r) == kind[r] = "agent" /\ r \in draft[r].parts["chat"]

Committing(r) ==
    \/ at[r] = "loading" /\ Complete(draft[r], kind[r]) /\ ~Recorded(r)
    \/ at[r] = "asking"
    \/ at[r] = "checked" /\ kind[r] = "scene"

Expected(r) == IF kind[r] = "scene" THEN seen[r].revision ELSE draft[r].revision

\* Mutant: the UPDATE of the revision has no WHERE on the revision.
Advance_Unconditional(r, parts) ==
    /\ Committing(r) /\ revision # Gone
    /\ revision' = revision + 1
    /\ content' = [p \in Part |-> IF p \in DOMAIN parts THEN parts[p] ELSE content[p]]

\* The rows of the parts in DOMAIN parts are replaced, the others stay.
Advance(r, parts) ==
    /\ Committing(r)
    /\ revision = Expected(r) /\ revision # Gone
    /\ revision' = Expected(r) + 1
    /\ content' = [p \in Part |-> IF p \in DOMAIN parts THEN parts[p] ELSE content[p]]

WithChange(r, changed) ==
    [p \in DOMAIN draft[r].parts |->
         IF p \in changed THEN draft[r].parts[p] \cup {r} ELSE draft[r].parts[p]]

Written(r, changed) == [p \in changed |-> draft[r].parts[p] \cup {r}]

Respond(r, parts) ==
    seen' = [seen EXCEPT ![r] = [revision |-> Expected(r) + 1, parts |-> parts]]

Edit(r) ==
    /\ kind[r] \in {"edit", "legacy"}
    /\ \E p \in Read(kind[r]) : /\ Advance(r, Written(r, {p}))
                                /\ Respond(r, WithChange(r, {p}))
    /\ Answer(r, "done")
    /\ UNCHANGED <<kind, via, draft, deleted>>

Reset(r) ==
    /\ kind[r] = "reset"
    /\ Advance(r, [p \in Part |-> {}])
    /\ Respond(r, [p \in Read(kind[r]) |-> {}])
    /\ Answer(r, "done")
    /\ UNCHANGED <<kind, via, draft, deleted>>

\* Scene objects are changed row by row, on what the transaction itself reads.
ChangeScene(r) ==
    /\ kind[r] = "scene"
    /\ Advance(r, [p \in {"scene"} |-> content[p] \cup {r}])
    /\ Answer(r, "done")
    /\ UNCHANGED <<kind, via, seen, draft, deleted>>

\* DELETE compares no revision.
DeleteProject(r) ==
    /\ at[r] = "checked" /\ kind[r] = "delete"
    /\ revision' = Gone /\ content' = [p \in Part |-> {}]
    /\ Answer(r, IF revision = Gone THEN "missing" ELSE "done")
    /\ UNCHANGED <<kind, via, seen, draft, deleted>>

\* The message is saved first; a streamed turn then loads the project again.
SaveMessage(r) ==
    /\ kind[r] = "agent" /\ at[r] = "loading"
    /\ Advance(r, Written(r, {"chat"}))
    /\ draft' = [draft EXCEPT ![r] = [revision |-> Expected(r) + 1,
                                      parts |-> WithChange(r, {"chat"})]]
    /\ \E next \in {"asking", "checked"} : Goto(r, next)
    /\ UNCHANGED <<lock, kind, via, seen, deleted>>

FindMessage(r) ==
    /\ at[r] = "loading" /\ Complete(draft[r], kind[r]) /\ Recorded(r)
    /\ Goto(r, "asking")
    /\ UNCHANGED <<project, lock, kind, via, seen, draft, deleted>>

SaveTurn(r) ==
    /\ kind[r] = "agent" /\ at[r] = "asking"
    /\ Advance(r, Written(r, {"anchors", "chat"}))
    /\ Respond(r, WithChange(r, {"anchors", "chat"}))
    /\ Answer(r, "done")
    /\ UNCHANGED <<kind, via, draft, deleted>>

Conflict(r) ==
    /\ Committing(r) /\ revision # Expected(r)
    /\ Answer(r, IF revision = Gone THEN "missing" ELSE "conflict")
    /\ UNCHANGED <<project, kind, via, seen, draft, deleted>>

\* Mutant: an error leaves the lock held.
Fail_KeepsLock(r) ==
    /\ Committing(r)
    /\ Goto(r, "failed")
    /\ UNCHANGED <<project, lock, kind, via, seen, draft, deleted>>

\* The draft is invalid, or the model fails, answers nothing or is not configured.
Fail(r) ==
    /\ Committing(r)
    /\ Answer(r, "failed")
    /\ UNCHANGED <<project, kind, via, seen, draft, deleted>>

-----------------------------------------------------------------------------

\* Deleting assets advances the projects that show them, whoever edits them.
DeleteAssets(d) ==
    /\ d \notin deleted /\ revision # Gone
    /\ revision' = revision + 1
    /\ content' = [content EXCEPT !["scene"] = @ \cup {d}]
    /\ deleted' = deleted \cup {d}
    /\ UNCHANGED <<lock, kind, via, at, seen, draft>>

\* The locks and the requests are in memory.
Restart(q) ==
    /\ \E r \in lock : via[r] = q
    /\ at' = [r \in Request |-> IF r \in lock /\ via[r] = q THEN "failed" ELSE at[r]]
    /\ lock' = {r \in lock : via[r] # q}
    /\ UNCHANGED <<project, kind, via, seen, draft, deleted>>

Client(r) == StartRead(r) \/ ReadPart(r) \/ Send(r)

Load(r) == Enter(r) \/ RefuseEntry(r) \/ LoadRevision(r) \/ LoadPart(r)

Commit(r) == \/ Edit(r) \/ Reset(r) \/ ChangeScene(r) \/ DeleteProject(r)
             \/ SaveMessage(r) \/ FindMessage(r) \/ SaveTurn(r)
             \/ Conflict(r) \/ Fail(r)

Server(r) == Load(r) \/ Commit(r)

Next == \/ \E r \in Request : Client(r) \/ Server(r)
        \/ \E d \in Deletion : DeleteAssets(d)
        \/ \E q \in Process : Restart(q)

Spec == Init /\ [][Next]_vars

\* The event loop runs the handlers, and the calls of the model time out.
Fairness == \A r \in Request : WF_vars(Server(r))

FairSpec == Spec /\ Fairness

-----------------------------------------------------------------------------
(* Properties.                                                             *)

IsCurrent(view) == view.revision = revision =>
                       \A p \in DOMAIN view.parts : view.parts[p] = content[p]

(* The revision is read first, so a client that holds the current ETag has *)
(* seen the current content, whatever committed between its SELECTs.       *)
EtagPromisesContent == \A r \in Request : IsCurrent(seen[r])

(* The same of the draft of a handler: when its conditional update finds   *)
(* the revision it loaded, what it replaces is what it loaded.             *)
DraftsAreCurrent == \A r \in Request : IsCurrent(draft[r])

(* No update is lost: every commit is made on the content it replaces and  *)
(* advances the revision by one (test_two_simultaneous_writes_cannot_      *)
(* lose_an_update), with the library deletions in between.                 *)
Atomic == INSTANCE AtomicProject
ImplementsRegister == Atomic!Spec

(* One process serves every request and no library deletion has committed. *)
Alone == deleted = {} /\ \A r, s \in Request : via[r] = via[s]

(* In one process only a library deletion makes a handler's update fail:   *)
(* the lock covers it from the load to the commit, so requests without     *)
(* If-Match wait for each other and are not refused.                       *)
HandlersNeverConflict ==
    \A r \in Request : at[r] \in Inside => at'[r] # "conflict"

(* "Send that value in If-Match when mutating the canonical API; a stale   *)
(* value returns 409": a mutation that succeeds replaced the revision that *)
(* its client named.  It holds while no library deletion steps in between. *)
EditsNameTheRevision ==
    \A r \in Request :
        /\ kind[r] \in {"edit", "reset", "scene", "delete"}
        /\ at[r] \in Inside /\ at'[r] = "done"
        => seen[r].revision = revision
StaleIsRefused == [][EditsNameTheRevision]_vars

(* The guard is exact while it is alone: what passes it is neither stale   *)
(* nor refused later (guard_project_mutation holds the lock over the load, *)
(* the awaits of the handler and the commit).                              *)
LockIsExact == [][Alone => HandlersNeverConflict /\ EditsNameTheRevision]_vars

(* Every request that is sent is answered.                                 *)
EveryoneIsAnswered == \A r \in Request : at[r] = "ready" ~> at[r] \in Answered
=============================================================================
