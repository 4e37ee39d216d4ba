---------------------------- MODULE ProjectCache ----------------------------
(***************************************************************************)
(* The editor's view of one project: the queries of its resources, each    *)
(* cached with the revision that its ETag named, the one revision that the *)
(* client remembers for If-Match (client/orval-fetch.ts), the effect that  *)
(* fetches older responses again (project/use-project-query.ts), and the   *)
(* hooks that edit the project and then invalidate what they changed       *)
(* (packages/actions).  Answers arrive in any order.                       *)
(*                                                                         *)
(* The server is what ProjectRevision shows it to be: a register with a    *)
(* revision, whose reads are current when they are made and whose changes  *)
(* are refused when If-Match is not its revision.  The content of a        *)
(* response is therefore its revision.                                     *)
(***************************************************************************)
EXTENDS ApiClient, Naturals

CONSTANTS
  Edit,         \* slots for the edits of this tab, one edit each
  Pages,        \* the sets of queries that a page may mount
  MaxRevision,  \* bound on the revision that the edits of others lead to
  MaxFaults     \* bound on failed requests

-----------------------------------------------------------------------------

\* The cache keys of a project, and the request that fills each.
projectKeys ==
    [project |-> getProject, anchors |-> listAnchors, scenePoints |-> listScenePoints,
     segments |-> getTrajectory, speed |-> getSpeedTimeline, aim |-> getAimTimeline,
     orientation |-> getOrientationTimeline, depthOfField |-> getDepthOfFieldTimeline,
     lidar |-> getLidarTimeline, chat |-> listChatMessages,
     compiled |-> getCompiledTrajectory, sceneObjects |-> listSceneObjects]

Key == DOMAIN projectKeys

\* The resources that useProjectQuery reads and compares.
Compared == Key \ {"compiled", "sceneObjects"}

Timelines == {"segments", "speed", "aim", "orientation", "depthOfField", "lidar"}

\* A page that lists the scene objects has mounted the other resources too
\* (useProjectQuery); of these the metadata is enough.
ASSUME CacheAssumption == /\ Pages \subseteq SUBSET Key
                          /\ \A p \in Pages : "sceneObjects" \in p => "project" \in p
                          /\ MaxRevision \in Nat
                          /\ MaxFaults \in Nat

\* invalidateProjectResource: what each class of edits makes stale.
Affected(class) ==
    (IF class = "all" THEN Compared
     ELSE IF class = "trajectory" THEN Timelines ELSE {class})
    \cup (IF class = "chat" THEN {} ELSE {"compiled"})

\* The resources whose rows a request replaces.
Rows(request) ==
    IF request = createChatMessage THEN Compared
    ELSE IF request = clearTrajectory THEN Timelines
    ELSE {request.resource}

\* What the compiler reads.
CompilerInputs == Compared \ {"project", "lidar", "chat"}

\* The responses that a change alters: every one moves the revision in the metadata.
Changes(request) ==
    Rows(request) \cup {"project"}
    \cup (IF Rows(request) \cap CompilerInputs = {} THEN {} ELSE {"compiled"})

\* By how much it may move it: what is recorded already is not recorded again.
Advances(request) ==
    IF request \in {saveUserChatMessage, createDepthOfFieldTimeline} THEN {0, 1} ELSE {1}

-----------------------------------------------------------------------------
(* The hooks: the request each sends and what it invalidates when that     *)
(* has been answered or has failed.                                        *)

Hook(request, refetches) ==
    [resource |-> request.resource, changes |-> Changes(request),
     advances |-> Advances(request), refetches |-> refetches]

useAddAnchor == Hook(createAnchor, Affected("anchors"))
useUpdateAnchor == Hook(updateAnchor, Affected("anchors"))
useDeleteAnchor == Hook(deleteAnchor, Affected("anchors"))
useDeleteSpeedKeyframe == Hook(deleteSpeedKeyframe, Affected("speed"))
useDeleteSpeedTimeline == Hook(deleteSpeedTimeline, Affected("speed"))
useDeleteCameraKeyframe == Hook(deleteCameraAimKeyframe, Affected("aim"))
useDeleteAimTimeline == Hook(deleteAimTimeline, Affected("aim"))
useUpdateDefaultCameraOrientation == Hook(updateCameraOrientation, Affected("orientation"))
useAddCameraOrientationKeyframe ==
    Hook(createCameraOrientationKeyframe, Affected("orientation"))
useUpdateCameraOrientationKeyframe ==
    Hook(updateCameraOrientationKeyframe, Affected("orientation"))
useDeleteCameraOrientationKeyframe ==
    Hook(deleteCameraOrientationKeyframe, Affected("orientation"))
useDeleteOrientationTimeline == Hook(deleteOrientationTimeline, Affected("orientation"))
useCreateDepthOfFieldTimeline == Hook(createDepthOfFieldTimeline, Affected("depthOfField"))
useDeleteDepthOfFieldTimeline == Hook(deleteDepthOfFieldTimeline, Affected("depthOfField"))
useAddDepthOfFieldKeyframe == Hook(createDepthOfFieldKeyframe, Affected("depthOfField"))
useDeleteDepthOfFieldKeyframe == Hook(deleteDepthOfFieldKeyframe, Affected("depthOfField"))
useLidarTimeline ==
    {Hook(request, Affected("lidar")) : request \in {setLidarTimeline, deleteLidarTimeline}}
useClearTrajectory ==
    [Hook(clearTrajectory, Affected("trajectory")) EXCEPT !.resource = "segments"]
useSceneObjectActions ==
    {Hook(request, {"sceneObjects", "project"}) :
        request \in {createSceneObject, updateSceneObject, deleteSceneObject}}

\* A message to the agent is two requests: it is saved, then answered.
useSendChatMessage ==
    [save |-> Hook(saveUserChatMessage, Affected("all")),
     answer |-> Hook(createChatMessage, Affected("all"))]

Hooks ==
    {useAddAnchor, useUpdateAnchor, useDeleteAnchor, useDeleteSpeedKeyframe,
     useDeleteSpeedTimeline, useDeleteCameraKeyframe, useDeleteAimTimeline,
     useUpdateDefaultCameraOrientation, useAddCameraOrientationKeyframe,
     useUpdateCameraOrientationKeyframe, useDeleteCameraOrientationKeyframe,
     useDeleteOrientationTimeline, useCreateDepthOfFieldTimeline,
     useDeleteDepthOfFieldTimeline, useAddDepthOfFieldKeyframe,
     useDeleteDepthOfFieldKeyframe, useClearTrajectory, useSendChatMessage.save}
    \cup useLidarTimeline \cup useSceneObjectActions

-----------------------------------------------------------------------------

VARIABLES
  shown,     \* the queries that the page has mounted
  revision,  \* the revision of the project on the server
  known,     \* revisions: the highest revision seen, 0 when there is none
  cache,     \* cache[k]: the ETag of the data of query k, 0 when it has none
  fetch,     \* fetch[k]: the request of query k
  failed,    \* the queries whose last fetch failed
  effectDue, \* the signature has changed since the effect of useProjectQuery ran
  edit,      \* edit[e]: a mutation of this tab
  owed,      \* owed[k]: the last revision in which an edit of this tab changed k
  refused,   \* the revision at which the server last refused an edit of this tab
  faults     \* requests that failed

vars == <<shown, revision, known, cache, fetch, failed, effectDue, edit, owed, refused, faults>>
queries == <<cache, fetch, failed, effectDue>>
promises == <<owed, refused>>

\* etag: what the response names; again: it is the second request of one fetch;
\* retried: it is the second fetch of the query.
Fetches == [stage : {"idle", "sent", "back", "reading"}, etag : Nat,
            again : BOOLEAN, retried : BOOLEAN]
Idle == [stage |-> "idle", etag |-> 0, again |-> FALSE, retried |-> FALSE]
Sent == [Idle EXCEPT !.stage = "sent"]

\* base: the If-Match it was sent with.
Steps == {"none", "sent", "answered", "reading", "following", "done"}
NoEdit == [step |-> "none", hook |-> useSendChatMessage.save, base |-> 0, etag |-> 0, ok |-> FALSE]

InFlight(k) == fetch[k].stage # "idle"
Pending(e) == edit[e].step \notin {"none", "done"}

Init ==
    /\ shown \in Pages
    /\ revision = 1
    /\ known \in {0, 1}
    /\ cache = [k \in shown |-> 0]
    /\ fetch = [k \in shown |-> Sent]
    /\ failed = {}
    /\ effectDue = FALSE
    /\ edit = [e \in Edit |-> NoEdit]
    /\ owed = [k \in shown |-> 0]
    /\ refused = 0
    /\ faults = 0

Raised(a, b) == IF a < b THEN b ELSE a

\* Mutant: a fetch that is under way is kept although it may be of an older state.
Refetched_Joined(keys) ==
    [k \in shown |-> IF k \in keys /\ ~InFlight(k) THEN Sent ELSE fetch[k]]

\* invalidateQueries: a query with data starts over, one without joins its fetch.
Refetched(keys) ==
    [k \in shown |->
        IF k \in keys /\ (cache[k] # 0 \/ ~InFlight(k)) THEN Sent ELSE fetch[k]]

-----------------------------------------------------------------------------
(* A query                                                                 *)

ServerRead(k) ==
    /\ fetch[k].stage = "sent"
    /\ fetch' = [fetch EXCEPT ![k].stage = "back", ![k].etag = revision]
    /\ UNCHANGED <<shown, revision, known, cache, failed, effectDue, edit, promises, faults>>

\* A response older than what is known is asked for again, once.
AskAgain(k) ==
    /\ fetch[k].stage = "back" /\ fetch[k].etag < known /\ ~fetch[k].again
    /\ fetch' = [fetch EXCEPT ![k].stage = "sent", ![k].etag = 0, ![k].again = TRUE]
    /\ UNCHANGED <<shown, revision, known, cache, failed, effectDue, edit, promises, faults>>

\* Mutant: the ETags of answers to reads are not remembered.
Receive_NotRemembered(k) ==
    /\ fetch[k].stage = "back"
    /\ fetch[k].etag >= known \/ fetch[k].again
    /\ fetch' = [fetch EXCEPT ![k].stage = "reading"]
    /\ UNCHANGED <<shown, revision, known, cache, failed, effectDue, edit, promises, faults>>

Receive(k) ==
    /\ fetch[k].stage = "back"
    /\ fetch[k].etag >= known \/ fetch[k].again
    /\ known' = Raised(known, fetch[k].etag)
    /\ fetch' = [fetch EXCEPT ![k].stage = "reading"]
    /\ UNCHANGED <<shown, revision, cache, failed, effectDue, edit, promises, faults>>

\* The body has arrived; the signature of useProjectQuery may change.
Store(k) ==
    /\ fetch[k].stage = "reading"
    /\ cache' = [cache EXCEPT ![k] = fetch[k].etag]
    /\ fetch' = [fetch EXCEPT ![k] = Idle]
    /\ failed' = failed \ {k}
    /\ effectDue' = (effectDue \/ (k \in Compared /\ cache[k] # fetch[k].etag))
    /\ UNCHANGED <<shown, revision, known, edit, promises, faults>>

\* The query is fetched once more, then its error is shown.
FetchFails(k) ==
    /\ faults < MaxFaults
    /\ fetch[k].stage \in {"sent", "back", "reading"}
    /\ faults' = faults + 1
    /\ IF fetch[k].retried
         THEN /\ fetch' = [fetch EXCEPT ![k] = Idle]
              /\ failed' = failed \cup {k}
         ELSE /\ fetch' = [fetch EXCEPT ![k] = [Sent EXCEPT !.retried = TRUE]]
              /\ UNCHANGED failed
    /\ UNCHANGED <<shown, revision, known, cache, effectDue, edit, promises>>

Loaded(k) == k \in shown \cap Compared /\ cache[k] # 0

\* Mutant: only the metadata is compared with the others.
Older_OnlyMetadata ==
    {k \in {"project"} : Loaded(k) /\ \E j \in Key : Loaded(j) /\ cache[k] < cache[j]}

\* The responses older than the newest that useProjectQuery has.
Older == {k \in Key : Loaded(k) /\ \E j \in Key : Loaded(j) /\ cache[k] < cache[j]}

Effect ==
    /\ effectDue
    /\ effectDue' = FALSE
    /\ \E latest \in {cache[k] : k \in shown \cap Compared} :
         /\ \A k \in shown \cap Compared : cache[k] <= latest
         /\ known' = Raised(known, latest)
    /\ fetch' = Refetched(Older)
    /\ UNCHANGED <<shown, revision, cache, failed, edit, promises, faults>>

-----------------------------------------------------------------------------
(* An edit of this tab                                                     *)

\* The page shows the project: everything has loaded and nothing compared has failed.
Ready == /\ \A k \in shown : cache[k] # 0
         /\ failed \cap Compared = {}

Submit(e, hook) ==
    /\ edit[e].step = "none"
    /\ Ready
    /\ hook.resource \in shown
    /\ edit' = [edit EXCEPT ![e] = [NoEdit EXCEPT !.step = "sent", !.hook = hook, !.base = known]]
    /\ UNCHANGED <<shown, revision, known, queries, promises, faults>>

\* The guard admits the request: its transaction commits.
ServerEdit(e) ==
    /\ edit[e].step = "sent" /\ edit[e].base = revision
    /\ \E n \in edit[e].hook.advances :
         /\ revision' = revision + n
         /\ owed' = [k \in shown |-> IF n = 1 /\ k \in edit[e].hook.changes
                                       THEN revision + n ELSE owed[k]]
         /\ edit' = [edit EXCEPT ![e].step = "answered", ![e].etag = revision + n, ![e].ok = TRUE]
    /\ UNCHANGED <<shown, known, queries, refused, faults>>

ServerRefuses(e) ==
    /\ edit[e].step = "sent" /\ edit[e].base # revision
    /\ refused' = revision
    /\ edit' = [edit EXCEPT ![e].step = "answered", ![e].ok = FALSE]
    /\ UNCHANGED <<shown, revision, known, queries, owed, faults>>

\* The request never arrives, fails on the server, or its answer is lost.
EditFails(e) ==
    /\ faults < MaxFaults
    /\ edit[e].step \in {"sent", "answered"}
    /\ faults' = faults + 1
    /\ edit' = [edit EXCEPT ![e].step = "reading", ![e].ok = FALSE]
    /\ UNCHANGED <<shown, revision, known, queries, promises>>

ReceiveEdit(e) ==
    /\ edit[e].step = "answered"
    /\ edit' = [edit EXCEPT ![e].step = "reading"]
    /\ known' = IF edit[e].ok THEN Raised(known, edit[e].etag) ELSE known
    /\ UNCHANGED <<shown, revision, queries, promises, faults>>

\* onSuccess, onError or onSettled: what the edit affects is invalidated.
Settle(e) ==
    /\ edit[e].step = "reading"
    /\ ~(edit[e].ok /\ edit[e].hook = useSendChatMessage.save)
    /\ fetch' = Refetched(edit[e].hook.refetches)
    /\ edit' = [edit EXCEPT ![e] = [NoEdit EXCEPT !.step = "done"]]
    /\ UNCHANGED <<shown, revision, known, cache, failed, effectDue, promises, faults>>

\* The message is saved: the chat is refetched before the agent is asked.
MessageSaved(e) ==
    /\ edit[e].step = "reading" /\ edit[e].ok /\ edit[e].hook = useSendChatMessage.save
    /\ fetch' = Refetched(Affected("chat"))
    /\ edit' = [edit EXCEPT ![e].step = "following"]
    /\ UNCHANGED <<shown, revision, known, cache, failed, effectDue, promises, faults>>

\* Mutant: the agent is asked only when the chat has been read.
AskAgent_AfterRead(e) ==
    /\ edit[e].step = "following"
    /\ ~InFlight("chat") /\ "chat" \notin failed
    /\ edit' = [edit EXCEPT ![e] = [NoEdit EXCEPT !.step = "sent",
                                                  !.hook = useSendChatMessage.answer,
                                                  !.base = known]]
    /\ UNCHANGED <<shown, revision, known, queries, promises, faults>>

AskAgent(e) ==
    /\ edit[e].step = "following"
    /\ ~InFlight("chat")
    /\ edit' = [edit EXCEPT ![e] = [NoEdit EXCEPT !.step = "sent",
                                                  !.hook = useSendChatMessage.answer,
                                                  !.base = known]]
    /\ UNCHANGED <<shown, revision, known, queries, promises, faults>>

-----------------------------------------------------------------------------

\* Another tab or user edits the project, or deletes a library asset that it shows.
RemoteEdit ==
    /\ revision < MaxRevision
    /\ revision' = revision + 1
    /\ UNCHANGED <<shown, known, queries, edit, promises, faults>>

QueryStep(k) == ServerRead(k) \/ AskAgain(k) \/ Receive(k) \/ Store(k)

EditStep(e) == \/ ServerEdit(e) \/ ServerRefuses(e) \/ ReceiveEdit(e)
               \/ Settle(e) \/ MessageSaved(e) \/ AskAgent(e)

Next == \/ \E k \in shown : QueryStep(k) \/ FetchFails(k)
        \/ Effect
        \/ \E e \in Edit : \/ EditStep(e) \/ EditFails(e)
                           \/ \E hook \in Hooks : Submit(e, hook)
        \/ RemoteEdit

Spec == Init /\ [][Next]_vars

\* Requests are answered and React runs its effects.
Fairness == /\ \A k \in Key : WF_vars(k \in shown /\ QueryStep(k))
            /\ \A e \in Edit : WF_vars(EditStep(e))
            /\ WF_vars(Effect)

FairSpec == Spec /\ Fairness

-----------------------------------------------------------------------------

TypeOK ==
    /\ shown \in Pages
    /\ revision \in Nat \ {0}
    /\ known \in Nat
    /\ cache \in [shown -> Nat]
    /\ fetch \in [shown -> Fetches]
    /\ failed \subseteq shown
    /\ effectDue \in BOOLEAN
    /\ edit \in [Edit -> [step : Steps, hook : Hooks \cup {useSendChatMessage.answer},
                          base : Nat, etag : Nat, ok : BOOLEAN]]
    /\ owed \in [shown -> Nat]
    /\ refused \in Nat
    /\ faults \in 0..MaxFaults

\* Nothing is under way in this tab.
AtRest == /\ \A k \in shown : ~InFlight(k)
          /\ ~effectDue
          /\ \A e \in Edit : ~Pending(e)

Settled == AtRest /\ failed = {}

\* However the answers of reads and edits overtake each other, a page at rest
\* shows the resources of its project in one revision.
QuietPageConverged ==
    Settled => \A j, k \in shown \cap Compared : cache[j] = cache[k]

\* Every response that an edit of this tab has altered is read again after it:
\* the classes of invalidateProjectResource and the effect leave none out, also
\* when the answer of the edit is lost after its commit.  After a 409 the page
\* comes to show at least the revision that the edit was refused at, so that the
\* user can decide again and the next If-Match is newer.
OwnEditsAreShown ==
    Settled => /\ \A k \in shown : cache[k] >= owed[k]
               /\ \A k \in shown \cap Compared : cache[k] >= refused

\* If-Match is never older than anything shown when the edit is made, and never
\* a revision that the server has not had.
EditsNameTheNewestShown ==
    [][\A e \in Edit :
          edit[e].step \in {"none", "following"} /\ edit'[e].step = "sent" =>
             /\ edit'[e].base <= revision
             /\ \A k \in shown : cache[k] <= edit'[e].base]_vars

\* Refetching and following up ends: the effect does not chase its own answers,
\* and an edit whose refetch fails is finished all the same.
ComesToRest == []<>AtRest

\* "When parallel reads return different revisions, refetch only responses whose
\* ETag is older than the highest observed value" (src/backend/README.md:233-234):
\* a page at rest holds no response older than the highest revision observed.
OlderResponsesAreRefetched == Settled => \A k \in shown : cache[k] >= known
=============================================================================
