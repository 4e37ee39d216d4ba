--------------------------- MODULE FrontendProofs ---------------------------
(***************************************************************************)
(* What holds of ProjectCache for every set of pages, any number of edits, *)
(* and any bounds on the edits of others and on failures; of               *)
(* EditorSettings for any number of changes, sessions and documents; and   *)
(* of SiftSession for any video, settings and number of clicks.            *)
(***************************************************************************)
EXTENDS ProjectCache, EditorSettings, SiftSession, SequenceTheorems, TLAPS

\* What an edit may do to the revision, whatever its hook.
LEMMA AdvanceBounds == ASSUME NEW request PROVE Advances(request) \subseteq {0, 1}
BY DEF Advances

\* Every hook is made by Hook, so it advances the revision by at most one.
LEMMA HookAdvances ==
    \A hook \in Hooks \cup {useSendChatMessage.answer} : hook.advances \subseteq {0, 1}
<1>1. ASSUME NEW request, NEW refetches
      PROVE  Hook(request, refetches).advances \subseteq {0, 1}
  BY AdvanceBounds DEF Hook
<1>2. useSendChatMessage.answer.advances \subseteq {0, 1}
  BY <1>1 DEF useSendChatMessage
<1>3. useSendChatMessage.save.advances \subseteq {0, 1}
  BY <1>1 DEF useSendChatMessage
<1>4. useClearTrajectory.advances \subseteq {0, 1}
  BY <1>1 DEF useClearTrajectory, Hook
<1>5. \A hook \in useLidarTimeline \cup useSceneObjectActions : hook.advances \subseteq {0, 1}
  BY <1>1 DEF useLidarTimeline, useSceneObjectActions
<1>6. \A hook \in {useAddAnchor, useUpdateAnchor, useDeleteAnchor, useDeleteSpeedKeyframe,
                   useDeleteSpeedTimeline, useDeleteCameraKeyframe, useDeleteAimTimeline,
                   useUpdateDefaultCameraOrientation} : hook.advances \subseteq {0, 1}
  BY <1>1 DEF useAddAnchor, useUpdateAnchor, useDeleteAnchor, useDeleteSpeedKeyframe,
              useDeleteSpeedTimeline, useDeleteCameraKeyframe, useDeleteAimTimeline,
              useUpdateDefaultCameraOrientation
<1>7. \A hook \in {useAddCameraOrientationKeyframe, useUpdateCameraOrientationKeyframe,
                   useDeleteCameraOrientationKeyframe, useDeleteOrientationTimeline,
                   useCreateDepthOfFieldTimeline, useDeleteDepthOfFieldTimeline,
                   useAddDepthOfFieldKeyframe, useDeleteDepthOfFieldKeyframe} :
         hook.advances \subseteq {0, 1}
  BY <1>1 DEF useAddCameraOrientationKeyframe, useUpdateCameraOrientationKeyframe,
              useDeleteCameraOrientationKeyframe, useDeleteOrientationTimeline,
              useCreateDepthOfFieldTimeline, useDeleteDepthOfFieldTimeline,
              useAddDepthOfFieldKeyframe, useDeleteDepthOfFieldKeyframe
<1> QED
  BY <1>2, <1>3, <1>4, <1>5, <1>6, <1>7 DEF Hooks

LEMMA RaisedBounds ==
    ASSUME NEW a \in Nat, NEW b \in Nat
    PROVE  Raised(a, b) \in Nat /\ Raised(a, b) >= a /\ Raised(a, b) >= b
           /\ \A c \in Nat : a <= c /\ b <= c => Raised(a, b) <= c
BY DEF Raised

\* A fetch that starts is a fetch.
LEMMA FetchTypes ==
    Sent \in Fetches /\ Idle \in Fetches /\ [Sent EXCEPT !.retried = TRUE] \in Fetches
BY DEF Sent, Idle, Fetches

EditType == [step : Steps, hook : Hooks \cup {useSendChatMessage.answer},
             base : Nat, etag : Nat, ok : BOOLEAN]

\* A new edit is an edit, whatever its hook and its If-Match.
LEMMA EditTypes ==
    /\ NoEdit \in EditType
    /\ [NoEdit EXCEPT !.step = "done"] \in EditType
    /\ \A hook \in Hooks \cup {useSendChatMessage.answer}, base \in Nat :
          [NoEdit EXCEPT !.step = "sent", !.hook = hook, !.base = base] \in EditType
<1>1. useSendChatMessage.save \in Hooks
  BY DEF Hooks
<1> QED
  BY <1>1 DEF NoEdit, EditType, Steps

\* What a query does keeps the types.
LEMMA QueryTypes ==
    ASSUME TypeOK, NEW k \in shown, QueryStep(k) \/ FetchFails(k)
    PROVE  TypeOK'
<1> USE FetchTypes DEF TypeOK, queries, promises
<1>0. fetch[k] \in Fetches
  OBVIOUS
<1>1. CASE ServerRead(k)
  <2>1. fetch' \in [shown -> Fetches]
    BY <1>1 DEF ServerRead, Fetches
  <2> QED BY <1>1, <2>1 DEF ServerRead
<1>2. CASE AskAgain(k)
  <2>1. fetch' \in [shown -> Fetches]
    BY <1>2 DEF AskAgain, Fetches
  <2> QED BY <1>2, <2>1 DEF AskAgain
<1>3. CASE Receive(k)
  <2>1. fetch' \in [shown -> Fetches]
    BY <1>3 DEF Receive, Fetches
  <2>2. known' \in Nat
    BY <1>3, <1>0, RaisedBounds DEF Receive, Fetches
  <2> QED BY <1>3, <2>1, <2>2 DEF Receive
<1>4. CASE Store(k)
  <2>1. cache' \in [shown -> Nat]
    BY <1>4, <1>0 DEF Store, Fetches
  <2> QED BY <1>4, <2>1 DEF Store
<1>5. CASE FetchFails(k)
  <2>1. fetch' \in [shown -> Fetches] /\ failed' \subseteq shown
    BY <1>5 DEF FetchFails
  <2>2. faults' \in 0..MaxFaults
    BY <1>5, CacheAssumption DEF FetchFails
  <2> QED BY <1>5, <2>1, <2>2 DEF FetchFails
<1> QED
  BY <1>1, <1>2, <1>3, <1>4, <1>5 DEF QueryStep

LEMMA RefetchedTypes ==
    ASSUME TypeOK, NEW keys PROVE Refetched(keys) \in [shown -> Fetches]
BY FetchTypes DEF TypeOK, Refetched

\* What an edit does keeps the types.
LEMMA EditStepTypes ==
    ASSUME TypeOK, NEW e \in Edit,
           \/ EditStep(e) \/ EditFails(e)
           \/ \E hook \in Hooks : Submit(e, hook)
    PROVE  TypeOK'
<1>a. edit \in [Edit -> EditType] /\ edit[e] \in EditType
  BY DEF TypeOK, EditType
<1> USE DEF queries, promises
<1>1. CASE ServerEdit(e)
  <2>1. PICK n \in edit[e].hook.advances :
          /\ revision' = revision + n
          /\ owed' = [k \in shown |-> IF n = 1 /\ k \in edit[e].hook.changes
                                        THEN revision + n ELSE owed[k]]
          /\ edit' = [edit EXCEPT ![e].step = "answered", ![e].etag = revision + n, ![e].ok = TRUE]
    BY <1>1 DEF ServerEdit
  <2>2. n \in {0, 1}
    BY <1>a, <2>1, HookAdvances DEF EditType
  <2>3. revision + n \in Nat \ {0}
    BY <2>2 DEF TypeOK
  <2>4. edit' \in [Edit -> EditType]
    BY <1>a, <2>1, <2>3 DEF EditType, Steps
  <2>5. owed' \in [shown -> Nat]
    BY <2>1, <2>3 DEF TypeOK
  <2> QED BY <1>1, <2>1, <2>3, <2>4, <2>5 DEF ServerEdit, TypeOK, EditType
<1>2. CASE ServerRefuses(e)
  <2>1. edit' \in [Edit -> EditType]
    BY <1>a, <1>2 DEF ServerRefuses, EditType, Steps
  <2> QED BY <1>2, <2>1 DEF ServerRefuses, TypeOK, EditType
<1>3. CASE EditFails(e)
  <2>1. edit' \in [Edit -> EditType]
    BY <1>a, <1>3 DEF EditFails, EditType, Steps
  <2>2. faults' \in 0..MaxFaults
    BY <1>3, CacheAssumption DEF EditFails, TypeOK
  <2> QED BY <1>3, <2>1, <2>2 DEF EditFails, TypeOK, EditType
<1>4. CASE ReceiveEdit(e)
  <2>1. edit' \in [Edit -> EditType]
    BY <1>a, <1>4 DEF ReceiveEdit, EditType, Steps
  <2>2. known' \in Nat
    BY <1>a, <1>4, RaisedBounds DEF ReceiveEdit, TypeOK, EditType
  <2> QED BY <1>4, <2>1, <2>2 DEF ReceiveEdit, TypeOK, EditType
<1>5. CASE Settle(e)
  <2>1. edit' \in [Edit -> EditType]
    BY <1>a, <1>5, EditTypes DEF Settle
  <2>2. fetch' \in [shown -> Fetches]
    BY <1>5, RefetchedTypes DEF Settle
  <2> QED BY <1>5, <2>1, <2>2 DEF Settle, TypeOK, EditType
<1>6. CASE MessageSaved(e)
  <2>1. edit' \in [Edit -> EditType]
    BY <1>a, <1>6 DEF MessageSaved, EditType, Steps
  <2>2. fetch' \in [shown -> Fetches]
    BY <1>6, RefetchedTypes DEF MessageSaved
  <2> QED BY <1>6, <2>1, <2>2 DEF MessageSaved, TypeOK, EditType
<1>7. CASE AskAgent(e)
  <2>1. edit' \in [Edit -> EditType]
    BY <1>a, <1>7, EditTypes DEF AskAgent, TypeOK
  <2> QED BY <1>7, <2>1 DEF AskAgent, TypeOK, EditType
<1>8. CASE \E hook \in Hooks : Submit(e, hook)
  <2>1. PICK hook \in Hooks : Submit(e, hook)
    BY <1>8
  <2> DEFINE new == [NoEdit EXCEPT !.step = "sent", !.hook = hook, !.base = known]
  <2>2. new \in EditType
    BY EditTypes DEF TypeOK
  <2>3. edit' = [edit EXCEPT ![e] = new]
    BY <2>1 DEF Submit
  <2>4. edit' \in [Edit -> EditType]
    BY <1>a, <2>2, <2>3
  <2> QED BY <2>1, <2>4 DEF Submit, TypeOK, EditType
<1> QED
  BY <1>1, <1>2, <1>3, <1>4, <1>5, <1>6, <1>7, <1>8 DEF EditStep

\* A mutation of others moves the revision forward.
LEMMA RemoteAdvances ==
    ASSUME TypeOK, RemoteEdit
    PROVE  revision' \in Nat \ {0} /\ revision' >= revision
BY DEF RemoteEdit, TypeOK

LEMMA InitTypes == Init => TypeOK
<1> SUFFICES ASSUME Init PROVE TypeOK
  OBVIOUS
<1>1. cache \in [shown -> Nat] /\ owed \in [shown -> Nat]
  BY DEF Init
<1>2. fetch \in [shown -> Fetches]
  BY FetchTypes DEF Init
<1>3. edit \in [Edit -> EditType]
  BY EditTypes DEF Init
<1>4. faults \in 0..MaxFaults
  BY CacheAssumption DEF Init
<1>5. shown \in Pages /\ failed \subseteq shown /\ effectDue \in BOOLEAN
  BY DEF Init
<1>6. revision \in Nat \ {0} /\ known \in Nat /\ refused \in Nat
  BY DEF Init
<1> QED
  BY <1>1, <1>2, <1>3, <1>4, <1>5, <1>6 DEF TypeOK, EditType

LEMMA TypesStep == TypeOK /\ [Next]_vars => TypeOK'
<1> SUFFICES ASSUME TypeOK, [Next]_vars PROVE TypeOK'
  OBVIOUS
<1>1. ASSUME NEW k \in shown, QueryStep(k) \/ FetchFails(k) PROVE TypeOK'
  BY <1>1, QueryTypes
<1>2. CASE Effect
  <2>1. known' \in Nat
    BY <1>2, RaisedBounds DEF Effect, TypeOK
  <2>2. fetch' \in [shown -> Fetches]
    BY <1>2, RefetchedTypes DEF Effect
  <2> QED BY <1>2, <2>1, <2>2 DEF Effect, TypeOK, promises
<1>3. ASSUME NEW e \in Edit, EditStep(e) \/ EditFails(e) \/ \E hook \in Hooks : Submit(e, hook)
      PROVE  TypeOK'
  BY <1>3, EditStepTypes
<1>4. CASE RemoteEdit
  BY <1>4, RemoteAdvances DEF RemoteEdit, TypeOK, queries, promises
<1>5. CASE UNCHANGED vars
  BY <1>5 DEF TypeOK, vars
<1> QED
  BY <1>1, <1>2, <1>3, <1>4, <1>5 DEF Next

\* Types: every query that the page mounts has an entry, and no other has.
THEOREM CacheTypeCorrect == Spec => []TypeOK
BY InitTypes, TypesStep, PTL DEF Spec

-----------------------------------------------------------------------------
(* If-Match names something seen: nothing cached is newer than what is     *)
(* remembered, and nothing remembered is newer than the server.            *)

QueryBounds(k) ==
    /\ cache[k] <= known
    /\ fetch[k].etag <= revision
    /\ fetch[k].stage \in {"back", "reading"} => fetch[k].etag # 0
    /\ fetch[k].stage = "reading" => fetch[k].etag <= known

EditBounds(e) == edit[e].ok => edit[e].etag <= revision

Bounds == /\ known <= revision
          /\ \A k \in shown : QueryBounds(k)
          /\ \A e \in Edit : EditBounds(e)

LEMMA FetchFields == ASSUME NEW f \in Fetches
                     PROVE  f.etag \in Nat /\ f.stage \in {"idle", "sent", "back", "reading"}
BY DEF Fetches

LEMMA StartedFields == /\ Sent.stage = "sent" /\ Sent.etag = 0
                       /\ Idle.stage = "idle" /\ Idle.etag = 0
                       /\ [Sent EXCEPT !.retried = TRUE].stage = "sent"
                       /\ [Sent EXCEPT !.retried = TRUE].etag = 0
BY DEF Sent, Idle

\* A fetch that starts over is bounded by anything.
LEMMA RefetchedBounds ==
    ASSUME TypeOK, Bounds, NEW keys, fetch' = Refetched(keys), NEW k \in shown,
           cache'[k] = cache[k], shown' = shown, revision' = revision,
           known' \in Nat, known <= known'
    PROVE  QueryBounds(k)'
<1>1. CASE fetch'[k] = Sent
  BY <1>1, StartedFields DEF TypeOK, Bounds, QueryBounds
<1>2. CASE fetch'[k] = fetch[k]
  BY <1>2, FetchFields DEF TypeOK, Bounds, QueryBounds
<1> QED
  BY <1>1, <1>2 DEF Refetched

LEMMA QueryStepBounds ==
    ASSUME TypeOK, TypeOK', Bounds, NEW k \in shown, QueryStep(k) \/ FetchFails(k)
    PROVE  Bounds'
<1>0. fetch[k] \in Fetches /\ fetch[k].etag \in Nat /\ QueryBounds(k)
  BY FetchFields DEF TypeOK, Bounds
<1>1. known' \in Nat /\ known <= known' /\ known' <= revision /\ revision' = revision
      /\ shown' = shown /\ edit' = edit
  BY <1>0, RaisedBounds
     DEF QueryStep, ServerRead, AskAgain, Receive, Store, FetchFails, TypeOK, Bounds, QueryBounds
<1>2. \A e \in Edit : EditBounds(e)'
  BY <1>1 DEF Bounds, EditBounds
<1>3. ASSUME NEW j \in shown, j # k PROVE QueryBounds(j)'
  <2>1. fetch'[j] = fetch[j] /\ cache'[j] = cache[j]
    BY <1>3 DEF QueryStep, ServerRead, AskAgain, Receive, Store, FetchFails, TypeOK
  <2> QED
    BY <1>1, <2>1, FetchFields DEF TypeOK, Bounds, QueryBounds
<1>4. QueryBounds(k)'
  <2>1. CASE ServerRead(k)
    BY <1>0, <2>1 DEF ServerRead, TypeOK, QueryBounds, Bounds
  <2>2. CASE AskAgain(k)
    BY <1>0, <2>2 DEF AskAgain, TypeOK, QueryBounds
  <2>3. CASE Receive(k)
    BY <1>0, <2>3, RaisedBounds DEF Receive, TypeOK, QueryBounds
  <2>4. CASE Store(k)
    BY <1>0, <2>4, StartedFields DEF Store, TypeOK, QueryBounds
  <2>5. CASE FetchFails(k)
    <3>1. fetch'[k] \in {Idle, [Sent EXCEPT !.retried = TRUE]}
      BY <2>5 DEF FetchFails, TypeOK
    <3>2. fetch'[k].etag = 0 /\ fetch'[k].stage \in {"idle", "sent"}
      BY <3>1, StartedFields
    <3> QED BY <1>0, <1>1, <2>5, <3>2 DEF FetchFails, TypeOK, QueryBounds
  <2> QED
    BY <2>1, <2>2, <2>3, <2>4, <2>5 DEF QueryStep
<1> QED
  BY <1>1, <1>2, <1>3, <1>4 DEF Bounds

LEMMA EditStepBounds ==
    ASSUME TypeOK, TypeOK', Bounds, NEW e \in Edit,
           \/ EditStep(e) \/ EditFails(e)
           \/ \E hook \in Hooks : Submit(e, hook)
    PROVE  Bounds'
<1> USE DEF queries, promises
<1>a. edit \in [Edit -> EditType] /\ edit' \in [Edit -> EditType]
  BY DEF TypeOK, EditType
<1>b. edit[e].etag \in Nat /\ NoEdit.ok = FALSE
  BY <1>a DEF EditType, NoEdit
<1>1. \A d \in Edit \ {e} : edit'[d] = edit[d]
  BY <1>a DEF EditStep, ServerEdit, ServerRefuses, ReceiveEdit, Settle, MessageSaved, AskAgent,
              EditFails, Submit
<1>2. revision' >= revision /\ shown' = shown /\ cache' = cache
  <2>1. CASE ServerEdit(e)
    <3>1. PICK n \in edit[e].hook.advances : revision' = revision + n
      BY <2>1 DEF ServerEdit
    <3>2. n \in {0, 1}
      BY <1>a, <3>1, HookAdvances DEF EditType
    <3> QED BY <2>1, <3>1, <3>2 DEF ServerEdit, TypeOK
  <2>2. CASE ~ServerEdit(e)
    <3>1. revision' = revision /\ shown' = shown /\ cache' = cache
      BY <2>2 DEF EditStep, ServerRefuses, ReceiveEdit, Settle, MessageSaved, AskAgent,
                  EditFails, Submit
    <3> QED BY <3>1 DEF TypeOK
  <2> QED BY <2>1, <2>2
<1>3. known <= known' /\ known' <= revision
  <2>1. CASE ReceiveEdit(e)
    BY <1>b, <2>1, RaisedBounds DEF ReceiveEdit, TypeOK, Bounds, EditBounds
  <2>2. CASE ~ReceiveEdit(e)
    <3>1. known' = known
      BY <2>2 DEF EditStep, ServerEdit, ServerRefuses, Settle, MessageSaved, AskAgent,
                  EditFails, Submit
    <3> QED BY <3>1 DEF TypeOK, Bounds
  <2> QED BY <2>1, <2>2
<1>4. EditBounds(e)'
  <2>1. CASE ServerEdit(e)
    <3>1. PICK n \in edit[e].hook.advances :
            /\ revision' = revision + n
            /\ edit' = [edit EXCEPT ![e].step = "answered", ![e].etag = revision + n,
                                   ![e].ok = TRUE]
      BY <2>1 DEF ServerEdit
    <3>2. edit'[e].etag = revision'
      BY <1>a, <3>1 DEF EditType
    <3> QED BY <3>2 DEF EditBounds, TypeOK
  <2>2. CASE ServerRefuses(e) \/ EditFails(e)
    <3>1. edit'[e].ok = FALSE
      BY <1>a, <2>2 DEF ServerRefuses, EditFails, EditType
    <3> QED BY <3>1 DEF EditBounds
  <2>3. CASE ReceiveEdit(e) \/ MessageSaved(e)
    <3>1. edit'[e].ok = edit[e].ok /\ edit'[e].etag = edit[e].etag
      BY <1>a, <2>3 DEF ReceiveEdit, MessageSaved, EditType
    <3>2. edit[e].ok => edit[e].etag <= revision
      BY DEF Bounds, EditBounds
    <3>3. revision \in Nat /\ revision' \in Nat
      BY DEF TypeOK
    <3> QED BY <1>2, <1>b, <3>1, <3>2, <3>3 DEF EditBounds
  <2>4. CASE Settle(e) \/ AskAgent(e) \/ \E hook \in Hooks : Submit(e, hook)
    <3>1. edit'[e].ok = FALSE
      BY <1>a, <1>b, <2>4 DEF Settle, AskAgent, Submit, EditType, NoEdit
    <3> QED BY <3>1 DEF EditBounds
  <2> QED BY <2>1, <2>2, <2>3, <2>4 DEF EditStep
<1>5. ASSUME NEW d \in Edit, d # e PROVE EditBounds(d)'
  <2>1. edit'[d] = edit[d] /\ edit[d].etag \in Nat
    BY <1>1, <1>5, <1>a DEF EditType
  <2> QED BY <1>2, <2>1 DEF EditBounds, Bounds, TypeOK
<1>6. ASSUME NEW k \in shown PROVE QueryBounds(k)'
  <2>1. CASE Settle(e)
    BY <1>2, <1>3, <2>1, RefetchedBounds DEF Settle, TypeOK
  <2>2. CASE MessageSaved(e)
    BY <1>2, <1>3, <2>2, RefetchedBounds DEF MessageSaved, TypeOK
  <2>3. CASE fetch' = fetch
    BY <1>2, <1>3, <2>3, FetchFields DEF TypeOK, Bounds, QueryBounds
  <2> QED
    BY <2>1, <2>2, <2>3
       DEF EditStep, ServerEdit, ServerRefuses, ReceiveEdit, AskAgent, EditFails, Submit
<1>7. known' <= revision'
  BY <1>2, <1>3 DEF TypeOK
<1> QED
  BY <1>2, <1>4, <1>5, <1>6, <1>7 DEF Bounds

LEMMA BoundsStep == TypeOK /\ TypeOK' /\ Bounds /\ [Next]_vars => Bounds'
<1> SUFFICES ASSUME TypeOK, TypeOK', Bounds, [Next]_vars PROVE Bounds'
  OBVIOUS
<1>1. ASSUME NEW k \in shown, QueryStep(k) \/ FetchFails(k) PROVE Bounds'
  BY <1>1, QueryStepBounds
<1>2. CASE Effect
  <2>1. PICK latest \in {cache[k] : k \in shown \cap Compared} : known' = Raised(known, latest)
    BY <1>2 DEF Effect
  <2>2. latest \in Nat /\ latest <= known
    BY <2>1 DEF TypeOK, Bounds, QueryBounds
  <2>3. known' = known
    BY <2>1, <2>2 DEF Raised, TypeOK
  <2>4. \A k \in shown : QueryBounds(k)'
    BY <1>2, <2>3, RefetchedBounds DEF Effect, TypeOK
  <2> QED BY <1>2, <2>3, <2>4 DEF Effect, Bounds, EditBounds
<1>3. ASSUME NEW e \in Edit, EditStep(e) \/ EditFails(e) \/ \E hook \in Hooks : Submit(e, hook)
      PROVE  Bounds'
  BY <1>3, EditStepBounds
<1>4. CASE RemoteEdit
  <2>1. revision' >= revision
    BY <1>4, RemoteAdvances
  <2>2. \A k \in shown : QueryBounds(k)'
    BY <1>4, <2>1, FetchFields DEF RemoteEdit, queries, TypeOK, Bounds, QueryBounds
  <2>3. \A e \in Edit : edit[e].etag \in Nat
    BY DEF TypeOK
  <2> QED BY <1>4, <2>1, <2>2, <2>3 DEF RemoteEdit, TypeOK, Bounds, EditBounds
<1>5. CASE UNCHANGED vars
  BY <1>5 DEF Bounds, QueryBounds, EditBounds, vars
<1> QED
  BY <1>1, <1>2, <1>3, <1>4, <1>5 DEF Next

LEMMA InitBounds == Init => Bounds
BY StartedFields DEF Init, Bounds, QueryBounds, EditBounds, NoEdit

\* If-Match of an edit is the remembered revision, which the bounds place.
LEMMA NamesStep ==
    TypeOK /\ Bounds /\ [Next]_vars =>
        \A e \in Edit : edit[e].step \in {"none", "following"} /\ edit'[e].step = "sent" =>
                          /\ edit'[e].base <= revision
                          /\ \A k \in shown : cache[k] <= edit'[e].base
<1> SUFFICES ASSUME TypeOK, Bounds, [Next]_vars, NEW e \in Edit,
                    edit[e].step \in {"none", "following"}, edit'[e].step = "sent"
             PROVE  edit'[e].base = known
  BY DEF Bounds, QueryBounds
<1>a. edit \in [Edit -> EditType]
  BY DEF TypeOK, EditType
<1>1. edit' # edit
  OBVIOUS
<1>2. ~UNCHANGED vars /\ ~RemoteEdit /\ ~Effect
      /\ \A k \in shown : ~(QueryStep(k) \/ FetchFails(k))
  BY <1>1 DEF vars, RemoteEdit, Effect, QueryStep, ServerRead, AskAgain, Receive, Store, FetchFails
<1>3. PICK d \in Edit : EditStep(d) \/ EditFails(d) \/ \E hook \in Hooks : Submit(d, hook)
  BY <1>2 DEF Next
<1>4. d = e
  BY <1>3, <1>a, <1>1
     DEF EditStep, ServerEdit, ServerRefuses, ReceiveEdit, Settle, MessageSaved, AskAgent,
         EditFails, Submit
<1>5. CASE AskAgent(e)
  BY <1>5, <1>a DEF AskAgent, EditType, NoEdit
<1>6. CASE \E hook \in Hooks : Submit(e, hook)
  BY <1>6, <1>a DEF Submit, EditType, NoEdit
<1>7. CASE ~AskAgent(e) /\ ~\E hook \in Hooks : Submit(e, hook)
  BY <1>3, <1>4, <1>7, <1>a
     DEF EditStep, ServerEdit, ServerRefuses, ReceiveEdit, Settle, MessageSaved, EditFails, EditType
<1> QED
  BY <1>5, <1>6, <1>7

\* If-Match is never older than anything shown and never ahead of the server, in
\* whatever order the answers of reads and edits arrive.
THEOREM EditsNameTheNewest == Spec => EditsNameTheNewestShown
<1>1. Init => TypeOK /\ Bounds
  BY InitTypes, InitBounds
<1>2. TypeOK /\ Bounds /\ [Next]_vars => TypeOK' /\ Bounds'
  BY TypesStep, BoundsStep
<1>3. TypeOK /\ Bounds /\ [Next]_vars =>
        [\A e \in Edit : edit[e].step \in {"none", "following"} /\ edit'[e].step = "sent" =>
                           /\ edit'[e].base <= revision
                           /\ \A k \in shown : cache[k] <= edit'[e].base]_vars
  BY NamesStep
<1> QED
  BY <1>1, <1>2, <1>3, PTL DEF Spec, EditsNameTheNewestShown

-----------------------------------------------------------------------------
(* A page at rest shows one revision: a response older than another one is *)
(* about to be replaced, has failed, or the effect is due.                 *)

\* The fetch of j can only bring what is at least as new as the revision r.
Catching(j, r) == \/ fetch[j].stage = "sent"
                  \/ fetch[j].stage \in {"back", "reading"} /\ fetch[j].etag >= r

Following(j, k) == cache[j] # 0 /\ cache[j] < cache[k] =>
                     \/ Catching(j, cache[k])
                     \/ fetch[j].stage = "idle" /\ j \in failed

Loading(k) == cache[k] = 0 => fetch[k].stage # "idle" \/ k \in failed

Converging == /\ \A k \in shown : Loading(k)
              /\ effectDue \/ \A j, k \in shown \cap Compared : Following(j, k)

LEMMA InitConverging == Init => Converging
BY StartedFields DEF Init, Converging, Loading, Following

LEMMA QueryStepConverging ==
    ASSUME TypeOK, Bounds, Converging, NEW x \in shown, QueryStep(x) \/ FetchFails(x)
    PROVE  Converging'
<1>0. fetch[x] \in Fetches /\ fetch[x].etag \in Nat /\ shown' = shown
  BY FetchFields DEF TypeOK, QueryStep, ServerRead, AskAgain, Receive, Store, FetchFails
<1>1. \A j \in shown \ {x} : fetch'[j] = fetch[j] /\ cache'[j] = cache[j]
                              /\ (j \in failed <=> j \in failed')
  BY DEF TypeOK, QueryStep, ServerRead, AskAgain, Receive, Store, FetchFails
<1>2. ASSUME NEW k \in shown PROVE Loading(k)'
  <2>1. CASE k # x
    BY <1>1, <2>1 DEF Converging, Loading
  <2>2. CASE k = x /\ Store(x)
    <3>1. cache'[x] # 0
      BY <2>2 DEF Store, TypeOK, Bounds, QueryBounds
    <3> QED BY <2>2, <3>1 DEF Loading
  <2>3. CASE k = x /\ FetchFails(x)
    <3>1. fetch'[x].stage = "sent" \/ x \in failed'
      BY <2>3, StartedFields DEF FetchFails, TypeOK
    <3> QED BY <2>3, <3>1 DEF Loading
  <2>4. CASE k = x /\ (ServerRead(x) \/ AskAgain(x) \/ Receive(x))
    <3>1. fetch'[x].stage \in {"back", "sent", "reading"}
      BY <2>4, <1>0 DEF ServerRead, AskAgain, Receive, TypeOK, Fetches
    <3> QED BY <2>4, <3>1 DEF Loading
  <2> QED BY <2>1, <2>2, <2>3, <2>4 DEF QueryStep
<1>3. ASSUME NEW j \in shown \cap Compared, NEW k \in shown \cap Compared, ~effectDue'
      PROVE  Following(j, k)'
  <2>1. ~effectDue /\ Following(j, k)
    <3>1. effectDue => effectDue'
      BY DEF QueryStep, ServerRead, AskAgain, Receive, Store, FetchFails
    <3> QED BY <1>3, <3>1 DEF Converging
  <2>2. cache'[j] = cache[j] /\ cache'[k] = cache[k]
    <3>1. CASE Store(x)
      <4>1. x \in Compared => cache[x] = fetch[x].etag
        BY <1>3, <3>1 DEF Store
      <4>2. cache' = [cache EXCEPT ![x] = fetch[x].etag]
        BY <3>1 DEF Store
      <4> QED BY <4>1, <4>2 DEF TypeOK
    <3>2. CASE ~Store(x)
      BY <3>2 DEF QueryStep, ServerRead, AskAgain, Receive, FetchFails
    <3> QED BY <3>1, <3>2
  <2>3. CASE j # x
    <3>1. fetch'[j] = fetch[j] /\ (j \in failed <=> j \in failed')
      BY <1>1, <2>3
    <3> QED BY <2>1, <2>2, <3>1 DEF Following, Catching
  <2>4. CASE j = x /\ ServerRead(x)
    <3>1. fetch'[x].stage = "back" /\ fetch'[x].etag = revision /\ cache[k] <= revision
      BY <2>4 DEF ServerRead, TypeOK, Bounds, QueryBounds
    <3>2. revision >= cache[k]
      BY <3>1 DEF TypeOK
    <3> QED BY <2>2, <2>4, <3>1, <3>2 DEF Following, Catching
  <2>5. CASE j = x /\ AskAgain(x)
    <3>1. fetch'[x].stage = "sent"
      BY <2>5 DEF AskAgain, TypeOK
    <3> QED BY <2>5, <3>1 DEF Following, Catching
  <2>6. CASE j = x /\ Receive(x)
    <3>1. fetch'[x].stage = "reading" /\ fetch'[x].etag = fetch[x].etag /\ fetch[x].stage = "back"
      BY <2>6, <1>0 DEF Receive, TypeOK, Fetches
    <3> QED BY <2>1, <2>2, <2>6, <3>1 DEF Following, Catching
  <2>7. CASE j = x /\ Store(x)
    <3>1. cache[x] = fetch[x].etag /\ fetch[x].stage = "reading"
      BY <1>3, <2>7 DEF Store
    <3>2. ~(cache[x] # 0 /\ cache[x] < cache[k])
      BY <2>1, <2>7, <3>1 DEF Following, Catching, TypeOK
    <3> QED BY <2>2, <2>7, <3>2 DEF Following
  <2>8. CASE j = x /\ FetchFails(x)
    <3>1. \/ fetch'[x].stage = "sent"
          \/ fetch'[x].stage = "idle" /\ x \in failed'
      BY <2>8, StartedFields DEF FetchFails, TypeOK
    <3> QED BY <2>8, <3>1 DEF Following, Catching
  <2> QED BY <2>3, <2>4, <2>5, <2>6, <2>7, <2>8 DEF QueryStep
<1> QED
  BY <1>0, <1>2, <1>3 DEF Converging

\* Starting queries over does not leave an older response behind.
LEMMA RefetchedConverging ==
    ASSUME TypeOK, Converging, NEW keys, fetch' = Refetched(keys),
           shown' = shown, cache' = cache, failed' = failed, effectDue' = effectDue
    PROVE  Converging'
<1>1. \A k \in shown : fetch'[k] = fetch[k] \/ fetch'[k].stage = "sent"
  BY StartedFields DEF Refetched
<1>2. \A k \in shown : Loading(k)'
  BY <1>1 DEF Converging, Loading
<1>3. ASSUME NEW j \in shown \cap Compared, NEW k \in shown \cap Compared, Following(j, k)
      PROVE  Following(j, k)'
  BY <1>1, <1>3 DEF Following, Catching
<1> QED
  BY <1>2, <1>3 DEF Converging

LEMMA ConvergingStep == TypeOK /\ Bounds /\ Converging /\ [Next]_vars => Converging'
<1> SUFFICES ASSUME TypeOK, Bounds, Converging, [Next]_vars PROVE Converging'
  OBVIOUS
<1>1. ASSUME NEW k \in shown, QueryStep(k) \/ FetchFails(k) PROVE Converging'
  BY <1>1, QueryStepConverging
<1>2. CASE Effect
  <2>1. shown' = shown /\ cache' = cache /\ failed' = failed /\ fetch' = Refetched(Older)
    BY <1>2 DEF Effect
  <2>2. \A k \in shown : fetch'[k] = fetch[k] \/ fetch'[k].stage = "sent"
    BY <2>1, StartedFields DEF Refetched
  <2>3. \A k \in shown : Loading(k)'
    BY <2>1, <2>2 DEF Converging, Loading
  <2>4. ASSUME NEW j \in shown \cap Compared, NEW k \in shown \cap Compared,
               cache[j] # 0, cache[j] < cache[k]
        PROVE  fetch'[j].stage = "sent"
    <3>1. j \in Older
      <4>1. cache[k] # 0
        BY <2>4 DEF TypeOK
      <4>2. j \in Key /\ k \in Key /\ Loaded(j) /\ Loaded(k)
        BY <2>4, <4>1 DEF Compared, Loaded
      <4> QED BY <2>4, <4>2 DEF Older
    <3> QED BY <2>1, <2>4, <3>1, StartedFields DEF Refetched
  <2> QED BY <2>1, <2>3, <2>4 DEF Converging, Following, Catching
<1>3. ASSUME NEW e \in Edit, EditStep(e) \/ EditFails(e) \/ \E hook \in Hooks : Submit(e, hook)
      PROVE  Converging'
  <2>1. shown' = shown /\ cache' = cache /\ failed' = failed /\ effectDue' = effectDue
    BY <1>3 DEF EditStep, ServerEdit, ServerRefuses, ReceiveEdit, Settle, MessageSaved, AskAgent,
                EditFails, Submit, queries
  <2>2. CASE Settle(e)
    BY <2>1, <2>2, RefetchedConverging DEF Settle
  <2>3. CASE MessageSaved(e)
    BY <2>1, <2>3, RefetchedConverging DEF MessageSaved
  <2>4. CASE fetch' = fetch
    BY <2>1, <2>4 DEF Converging, Loading, Following, Catching
  <2> QED
    BY <1>3, <2>2, <2>3, <2>4
       DEF EditStep, ServerEdit, ServerRefuses, ReceiveEdit, AskAgent, EditFails, Submit, queries
<1>4. CASE RemoteEdit
  BY <1>4 DEF RemoteEdit, queries, Converging, Loading, Following, Catching
<1>5. CASE UNCHANGED vars
  BY <1>5 DEF vars, Converging, Loading, Following, Catching
<1> QED
  BY <1>1, <1>2, <1>3, <1>4, <1>5 DEF Next

LEMMA ConvergingSuffices == TypeOK /\ Converging => QuietPageConverged
<1> SUFFICES ASSUME TypeOK, Converging, Settled PROVE QuietPageConverged
  BY DEF QuietPageConverged
<1>1. ASSUME NEW j \in shown \cap Compared, NEW k \in shown \cap Compared
      PROVE  ~(cache[j] < cache[k])
  <2>1. ~effectDue /\ fetch[j].stage = "idle" /\ j \notin failed
    BY DEF Settled, AtRest, InFlight
  <2>2. cache[j] # 0
    BY <2>1 DEF Converging, Loading
  <2> QED BY <2>1, <2>2 DEF Converging, Following, Catching
<1>2. \A k \in shown : cache[k] \in Nat
  BY DEF TypeOK
<1> QED
  BY <1>1, <1>2 DEF QuietPageConverged

\* A page at rest whose queries have not failed shows one revision of the project.
THEOREM QuietPagesConverge == Spec => []QuietPageConverged
<1>1. Init => TypeOK /\ Bounds /\ Converging
  BY InitTypes, InitBounds, InitConverging
<1>2. TypeOK /\ Bounds /\ Converging /\ [Next]_vars => TypeOK' /\ Bounds' /\ Converging'
  BY TypesStep, BoundsStep, ConvergingStep
<1>3. TypeOK /\ Converging => QuietPageConverged
  BY ConvergingSuffices
<1> QED
  BY <1>1, <1>2, <1>3, PTL DEF Spec
-----------------------------------------------------------------------------
(* What the edits of this tab changed is read again.                       *)

\* The keys whose next answer shows that k is as new as it has to be.
Kin(k) == IF k \in Compared THEN shown \cap Compared ELSE {k}

\* What the next step of an edit that the server has answered reads again.
Rereads(hook) == IF hook = useSendChatMessage.save THEN {"chat"} ELSE hook.refetches

Redeems(e, j) == edit[e].step \in {"answered", "reading"} /\ j \in Rereads(edit[e].hook)

\* The data of j is of the revision r or newer, is coming, or has failed to come.
Awaited(j, r) == \/ cache[j] >= r
                 \/ Catching(j, r)
                 \/ fetch[j].stage = "idle" /\ j \in failed

Promised(j, r) == Awaited(j, r) \/ \E e \in Edit : Redeems(e, j)

\* No answer that is read is older than what it replaces.
Forward == \A k \in shown : fetch[k].stage \in {"back", "reading"} => cache[k] <= fetch[k].etag

\* A hook reads again something compared with the others, and all that it changes
\* beside that.
Covers(hook) == /\ shown \cap Compared \cap Rereads(hook) # {}
                /\ hook.changes \ Compared \subseteq Rereads(hook)

Editing(e) == Pending(e) =>
                /\ \A k \in shown : cache[k] # 0
                /\ Covers(edit[e].hook)
                /\ edit[e].step = "following" => edit[e].hook = useSendChatMessage.save

Owing == /\ refused <= revision
         /\ shown \cap Compared # {} => \E j \in shown \cap Compared : Promised(j, refused)
         /\ \A k \in shown : /\ owed[k] <= revision
                             /\ \E j \in Kin(k) : Promised(j, owed[k])

Promises == Forward /\ (\A e \in Edit : Editing(e)) /\ Owing

-----------------------------------------------------------------------------

LEMMA ComparedKeys ==
    Compared = {"project", "anchors", "scenePoints", "segments", "speed", "aim",
                "orientation", "depthOfField", "lidar", "chat"}
BY DEF Compared, Key, projectKeys

\* What the hooks read again: enough for Covers where their resource is mounted.
Complete(hook) ==
    /\ hook.changes \ Compared \subseteq Rereads(hook)
    /\ Rereads(hook) \subseteq hook.refetches
    /\ hook.resource \in Rereads(hook)
    /\ \/ hook.resource \in Compared
       \/ hook.resource = "sceneObjects" /\ "project" \in Rereads(hook)

SpecialRequests == {createChatMessage, clearTrajectory}

LEMMA SavedMessage ==
    /\ useSendChatMessage.save = Hook(saveUserChatMessage, Affected("all"))
    /\ useSendChatMessage.save.resource = "chat"
    /\ useSendChatMessage.save.refetches = Compared \cup {"compiled"}
    /\ useSendChatMessage.save.changes \subseteq {"chat", "project"}
<1>1. useSendChatMessage.save = Hook(saveUserChatMessage, Affected("all"))
  BY DEF useSendChatMessage
<1>2. saveUserChatMessage.resource = "chat" /\ saveUserChatMessage \notin SpecialRequests
  BY DEF saveUserChatMessage, SpecialRequests, createChatMessage, clearTrajectory, Post, Delete
<1>3. Rows(saveUserChatMessage) = {"chat"}
  BY <1>2 DEF Rows, SpecialRequests
<1>4. Changes(saveUserChatMessage) \subseteq {"chat", "project"}
  BY <1>3 DEF Changes, CompilerInputs
<1>5. Affected("all") = Compared \cup {"compiled"}
  BY DEF Affected
<1> QED
  BY <1>1, <1>2, <1>4, <1>5 DEF Hook

LEMMA SavedComplete == Complete(useSendChatMessage.save)
BY SavedMessage, ComparedKeys DEF Complete, Rereads

\* The answer of the agent may change everything and everything is read again.
LEMMA AnswerComplete ==
    /\ Compared \subseteq Rereads(useSendChatMessage.answer)
    /\ useSendChatMessage.answer.changes \ Compared \subseteq Rereads(useSendChatMessage.answer)
    /\ Rereads(useSendChatMessage.answer) \subseteq useSendChatMessage.answer.refetches
<1>1. useSendChatMessage.answer = Hook(createChatMessage, Affected("all"))
  BY DEF useSendChatMessage
<1>2. useSendChatMessage.answer.resource = "agent"
  BY <1>1 DEF Hook, createChatMessage, Post
<1>3. Rereads(useSendChatMessage.answer) = Affected("all")
  BY <1>1, <1>2, SavedMessage DEF Rereads, Hook
<1>4. Rows(createChatMessage) = Compared
  BY DEF Rows
<1>5. Changes(createChatMessage) \subseteq Compared \cup {"project", "compiled"}
  BY <1>4 DEF Changes
<1> QED
  BY <1>1, <1>3, <1>5, ComparedKeys DEF Hook, Affected

\* A hook that invalidates the class of its resource.
LEMMA ClassComplete ==
    ASSUME NEW request, request.resource \in Compared, request \notin SpecialRequests
    PROVE  Complete(Hook(request, Affected(request.resource)))
<1> DEFINE hook == Hook(request, Affected(request.resource))
<1>1. hook.resource = request.resource /\ hook.changes = Changes(request)
      /\ hook.refetches = Affected(request.resource)
  BY DEF Hook
<1>2. Rows(request) = {request.resource}
  BY DEF Rows, SpecialRequests
<1>3. request.resource \notin {"all", "trajectory"}
  BY ComparedKeys
<1>4. Affected(request.resource)
        = {request.resource} \cup (IF request.resource = "chat" THEN {} ELSE {"compiled"})
  BY <1>3 DEF Affected
<1>5. Changes(request) \ Compared \subseteq IF request.resource = "chat" THEN {} ELSE {"compiled"}
  BY <1>2, ComparedKeys DEF Changes, CompilerInputs
<1>6. CASE hook = useSendChatMessage.save
  BY <1>6, SavedComplete
<1>7. CASE hook # useSendChatMessage.save
  <2>1. Rereads(hook) = Affected(request.resource)
    BY <1>1, <1>7 DEF Rereads
  <2> QED BY <1>1, <1>4, <1>5, <2>1 DEF Complete
<1> QED
  BY <1>6, <1>7

LEMMA RequestComplete ==
    ASSUME NEW method, NEW class \in Compared \ {"scenePoints"}
    PROVE  Complete(Hook([method |-> method, resource |-> class], Affected(class)))
<1> DEFINE request == [method |-> method, resource |-> class]
<1>1. request.resource = class /\ request.resource \in Compared
  OBVIOUS
<1>2. request \notin SpecialRequests
  <2>1. \A special \in SpecialRequests :
           special.resource \in {"agent", "trajectory"}
    BY DEF SpecialRequests, createChatMessage, clearTrajectory, Post, Delete
  <2> QED BY <1>1, <2>1, ComparedKeys
<1> HIDE DEF request
<1>3. Complete(Hook(request, Affected(request.resource)))
  BY <1>1, <1>2, ClassComplete
<1> QED
  BY <1>1, <1>3 DEF request

LEMMA ClearComplete == Complete(useClearTrajectory)
<1> DEFINE hook == useClearTrajectory
<1>1. hook.resource = "segments" /\ hook.changes = Changes(clearTrajectory)
      /\ hook.refetches = Affected("trajectory")
  BY DEF useClearTrajectory, Hook
<1>2. Affected("trajectory") = Timelines \cup {"compiled"}
  BY DEF Affected
<1>3. Rows(clearTrajectory) = Timelines
  BY DEF Rows, clearTrajectory, createChatMessage, Post, Delete
<1>4. Changes(clearTrajectory) \ Compared \subseteq {"compiled"}
  BY <1>3, ComparedKeys DEF Changes, Timelines
<1>5. Rereads(hook) = hook.refetches
  BY <1>1, SavedMessage DEF Rereads
<1> QED
  BY <1>1, <1>2, <1>4, <1>5, ComparedKeys DEF Complete, Timelines

LEMMA SceneObjectsComplete == \A hook \in useSceneObjectActions : Complete(hook)
<1> SUFFICES ASSUME NEW request \in {createSceneObject, updateSceneObject, deleteSceneObject}
             PROVE  Complete(Hook(request, {"sceneObjects", "project"}))
  BY DEF useSceneObjectActions
<1> DEFINE hook == Hook(request, {"sceneObjects", "project"})
<1>1. request.resource = "sceneObjects"
  BY DEF createSceneObject, updateSceneObject, deleteSceneObject, Post, Patch, Delete
<1>2. Rows(request) = {"sceneObjects"}
  <2>1. \A special \in SpecialRequests : special.resource # "sceneObjects"
    BY DEF SpecialRequests, createChatMessage, clearTrajectory, Post, Delete
  <2>2. request \notin SpecialRequests
    BY <1>1, <2>1
  <2> QED BY <1>1, <2>2 DEF Rows, SpecialRequests
<1>3. Changes(request) = {"sceneObjects", "project"}
  BY <1>2 DEF Changes, CompilerInputs, Compared
<1>4. hook.resource = "sceneObjects" /\ hook.changes = Changes(request)
      /\ hook.refetches = {"sceneObjects", "project"}
  BY <1>1 DEF Hook
<1>5. Rereads(hook) = hook.refetches
  BY <1>4, SavedMessage DEF Rereads
<1> QED
  BY <1>3, <1>4, <1>5 DEF Complete

LEMMA HooksComplete == \A hook \in Hooks : Complete(hook)
<1> USE ComparedKeys DEF Post, Patch, Delete
<1>1. \A hook \in {useAddAnchor, useUpdateAnchor, useDeleteAnchor} : Complete(hook)
  BY RequestComplete
     DEF useAddAnchor, useUpdateAnchor, useDeleteAnchor, createAnchor, updateAnchor, deleteAnchor
<1>2. \A hook \in {useDeleteSpeedKeyframe, useDeleteSpeedTimeline, useDeleteCameraKeyframe,
                   useDeleteAimTimeline} : Complete(hook)
  BY RequestComplete
     DEF useDeleteSpeedKeyframe, useDeleteSpeedTimeline, useDeleteCameraKeyframe,
         useDeleteAimTimeline, deleteSpeedKeyframe, deleteSpeedTimeline,
         deleteCameraAimKeyframe, deleteAimTimeline
<1>3. \A hook \in {useUpdateDefaultCameraOrientation, useAddCameraOrientationKeyframe,
                   useUpdateCameraOrientationKeyframe} : Complete(hook)
  BY RequestComplete
     DEF useUpdateDefaultCameraOrientation, useAddCameraOrientationKeyframe,
         useUpdateCameraOrientationKeyframe, updateCameraOrientation,
         createCameraOrientationKeyframe, updateCameraOrientationKeyframe
<1>4. \A hook \in {useDeleteCameraOrientationKeyframe, useDeleteOrientationTimeline,
                   useCreateDepthOfFieldTimeline} : Complete(hook)
  BY RequestComplete
     DEF useDeleteCameraOrientationKeyframe, useDeleteOrientationTimeline,
         useCreateDepthOfFieldTimeline, deleteCameraOrientationKeyframe,
         deleteOrientationTimeline, createDepthOfFieldTimeline
<1>5. \A hook \in {useDeleteDepthOfFieldTimeline, useAddDepthOfFieldKeyframe,
                   useDeleteDepthOfFieldKeyframe} : Complete(hook)
  BY RequestComplete
     DEF useDeleteDepthOfFieldTimeline, useAddDepthOfFieldKeyframe,
         useDeleteDepthOfFieldKeyframe, deleteDepthOfFieldTimeline,
         createDepthOfFieldKeyframe, deleteDepthOfFieldKeyframe
<1>6. \A hook \in useLidarTimeline : Complete(hook)
  BY RequestComplete DEF useLidarTimeline, setLidarTimeline, deleteLidarTimeline
<1> HIDE ComparedKeys DEF Post, Patch, Delete
<1> QED
  BY <1>1, <1>2, <1>3, <1>4, <1>5, <1>6, ClearComplete, SceneObjectsComplete, SavedComplete
     DEF Hooks

\* An edit is made on a page that shows what it edits, so that its hook covers it.
LEMMA SubmittedCovers ==
    ASSUME TypeOK, NEW hook \in Hooks, hook.resource \in shown PROVE Covers(hook)
BY HooksComplete, CacheAssumption, ComparedKeys DEF TypeOK, Covers, Complete

LEMMA AnswerCovers ==
    ASSUME TypeOK, shown \cap Compared # {} PROVE Covers(useSendChatMessage.answer)
BY AnswerComplete DEF Covers

LEMMA RereadsRefetched ==
    \A hook \in Hooks \cup {useSendChatMessage.answer} : Rereads(hook) \subseteq hook.refetches
BY HooksComplete, AnswerComplete DEF Complete

LEMMA InitPromises == Init => Promises
<1> SUFFICES ASSUME Init PROVE Promises
  OBVIOUS
<1>1. Forward
  BY StartedFields DEF Init, Forward
<1>2. \A e \in Edit : Editing(e)
  BY DEF Init, Editing, Pending, NoEdit
<1>3. \A k \in shown : owed[k] = 0 /\ cache[k] = 0 /\ k \in Kin(k) /\ Promised(k, 0)
  BY DEF Init, Kin, Promised, Awaited
<1>4. refused = 0 /\ revision = 1
  BY DEF Init
<1>5. \A k \in shown : owed[k] <= revision /\ \E j \in Kin(k) : Promised(j, owed[k])
  BY <1>3, <1>4
<1>6. shown \cap Compared # {} => \E j \in shown \cap Compared : Promised(j, refused)
  BY <1>3, <1>4
<1> QED
  BY <1>1, <1>2, <1>4, <1>5, <1>6 DEF Promises, Owing

\* A fetch that fails is tried again or has failed.
LEMMA FailedFields ==
    ASSUME TypeOK, NEW x \in shown, FetchFails(x)
    PROVE  fetch'[x].stage = "sent" \/ (fetch'[x].stage = "idle" /\ x \in failed')
<1>1. CASE fetch[x].retried
  <2>1. fetch' = [fetch EXCEPT ![x] = Idle] /\ x \in failed'
    BY <1>1 DEF FetchFails
  <2>2. fetch'[x] = Idle
    BY <2>1 DEF TypeOK
  <2> QED BY <2>1, <2>2, StartedFields
<1>2. CASE ~fetch[x].retried
  <2>1. fetch' = [fetch EXCEPT ![x] = [Sent EXCEPT !.retried = TRUE]]
    BY <1>2 DEF FetchFails
  <2>2. fetch'[x] = [Sent EXCEPT !.retried = TRUE]
    BY <2>1 DEF TypeOK
  <2> QED BY <2>2, StartedFields
<1> QED
  BY <1>1, <1>2

\* What a query does loses nothing that is awaited.
LEMMA QueryStepAwaits ==
    ASSUME TypeOK, Bounds, Forward, NEW x \in shown, QueryStep(x) \/ FetchFails(x),
           NEW j \in shown, NEW r \in Nat, r <= revision, Awaited(j, r)
    PROVE  Awaited(j, r)'
<1>0. fetch[x] \in Fetches /\ fetch[x].etag \in Nat /\ cache[j] \in Nat /\ revision \in Nat
  BY FetchFields DEF TypeOK
<1>1. CASE j # x
  <2>1. fetch'[j] = fetch[j] /\ cache'[j] = cache[j] /\ (j \in failed <=> j \in failed')
    BY <1>1 DEF TypeOK, QueryStep, ServerRead, AskAgain, Receive, Store, FetchFails
  <2> QED BY <2>1 DEF Awaited, Catching
<1>2. CASE j = x /\ ServerRead(x)
  <2>1. fetch'[x].stage = "back" /\ fetch'[x].etag = revision
    BY <1>2 DEF ServerRead, TypeOK
  <2> QED BY <1>0, <1>2, <2>1 DEF Awaited, Catching
<1>3. CASE j = x /\ AskAgain(x)
  <2>1. fetch'[x].stage = "sent"
    BY <1>3 DEF AskAgain, TypeOK
  <2> QED BY <1>3, <2>1 DEF Awaited, Catching
<1>4. CASE j = x /\ Receive(x)
  <2>1. /\ fetch[x].stage = "back" /\ fetch'[x].stage = "reading"
        /\ fetch'[x].etag = fetch[x].etag /\ cache' = cache
    BY <1>4, <1>0 DEF Receive, TypeOK, Fetches
  <2> QED BY <1>4, <2>1 DEF Awaited, Catching
<1>5. CASE j = x /\ Store(x)
  <2>1. fetch[x].stage = "reading" /\ cache'[x] = fetch[x].etag
    BY <1>5 DEF Store, TypeOK
  <2>2. cache[x] <= fetch[x].etag
    BY <2>1 DEF Forward
  <2>3. fetch[x].etag >= r
    BY <1>0, <1>5, <2>1, <2>2 DEF Awaited, Catching
  <2> QED BY <1>5, <2>1, <2>3 DEF Awaited
<1>6. CASE j = x /\ FetchFails(x)
  BY <1>6, FailedFields DEF Awaited, Catching
<1> QED
  BY <1>1, <1>2, <1>3, <1>4, <1>5, <1>6 DEF QueryStep

LEMMA QueryStepForward ==
    ASSUME TypeOK, Bounds, Forward, NEW x \in shown, QueryStep(x) \/ FetchFails(x)
    PROVE  Forward'
<1>0. fetch[x] \in Fetches /\ fetch[x].etag \in Nat /\ shown' = shown
  BY FetchFields DEF TypeOK, QueryStep, ServerRead, AskAgain, Receive, Store, FetchFails
<1>1. ASSUME NEW k \in shown, k # x, fetch'[k].stage \in {"back", "reading"}
      PROVE  cache'[k] <= fetch'[k].etag
  <2>1. fetch'[k] = fetch[k] /\ cache'[k] = cache[k]
    BY <1>1 DEF TypeOK, QueryStep, ServerRead, AskAgain, Receive, Store, FetchFails
  <2> QED BY <1>1, <2>1 DEF Forward
<1>2. ASSUME fetch'[x].stage \in {"back", "reading"} PROVE cache'[x] <= fetch'[x].etag
  <2>1. CASE ServerRead(x)
    <3>1. fetch'[x].etag = revision /\ cache'[x] = cache[x] /\ cache[x] <= known
          /\ known <= revision
      BY <2>1 DEF ServerRead, TypeOK, Bounds, QueryBounds
    <3> QED BY <3>1 DEF TypeOK
  <2>2. CASE Receive(x)
    <3>1. /\ fetch[x].stage = "back" /\ fetch'[x].etag = fetch[x].etag
          /\ cache'[x] = cache[x]
      BY <2>2, <1>0 DEF Receive, TypeOK, Fetches
    <3> QED BY <3>1 DEF Forward
  <2>3. CASE AskAgain(x)
    <3>1. fetch'[x].stage = "sent"
      BY <2>3 DEF AskAgain, TypeOK
    <3> QED BY <1>2, <3>1
  <2>5. CASE Store(x)
    <3>1. fetch'[x] = Idle
      BY <2>5 DEF Store, TypeOK
    <3> QED BY <1>2, <3>1, StartedFields
  <2>4. CASE FetchFails(x)
    BY <1>2, <2>4, FailedFields
  <2> QED BY <2>1, <2>2, <2>3, <2>4, <2>5 DEF QueryStep
<1> QED
  BY <1>0, <1>1, <1>2 DEF Forward

LEMMA QueryStepPromises ==
    ASSUME TypeOK, TypeOK', Bounds, Promises, NEW x \in shown, QueryStep(x) \/ FetchFails(x)
    PROVE  Promises'
<1>1. /\ shown' = shown /\ revision' = revision /\ edit' = edit
      /\ owed' = owed /\ refused' = refused
  BY DEF QueryStep, ServerRead, AskAgain, Receive, Store, FetchFails, promises
<1>2. Forward'
  BY QueryStepForward DEF Promises
<1>3. ASSUME NEW e \in Edit PROVE Editing(e)'
  <2>1. \A k \in shown : cache[k] # 0 => cache'[k] # 0
    <3>1. CASE Store(x)
      BY <3>1 DEF Store, TypeOK, Bounds, QueryBounds
    <3>2. CASE ~Store(x)
      BY <3>2 DEF QueryStep, ServerRead, AskAgain, Receive, FetchFails
    <3> QED BY <3>1, <3>2
  <2> QED BY <1>1, <2>1 DEF Promises, Editing, Pending, Covers
<1>4. ASSUME NEW j \in shown, NEW r \in Nat, r <= revision, Promised(j, r)
      PROVE  Promised(j, r)'
  <2>1. Awaited(j, r) => Awaited(j, r)'
    BY <1>4, QueryStepAwaits DEF Promises
  <2> QED BY <1>1, <1>4, <2>1 DEF Promised, Redeems
<1>5. \A k \in shown : Kin(k) \subseteq shown /\ Kin(k)' = Kin(k) /\ owed[k] \in Nat
  BY <1>1 DEF Kin, TypeOK
<1>6. Owing'
  BY <1>1, <1>4, <1>5 DEF Promises, Owing, TypeOK
<1> QED
  BY <1>1, <1>2, <1>3, <1>6 DEF Promises

\* Starting queries over loses nothing that is awaited, and what is read again is
\* as new as anything may have to be.
LEMMA RefetchedAwaits ==
    ASSUME TypeOK, NEW keys, fetch' = Refetched(keys), cache' = cache, failed' = failed,
           NEW j \in shown, NEW r \in Nat
    PROVE  /\ Awaited(j, r) => Awaited(j, r)'
           /\ j \in keys /\ cache[j] # 0 => Awaited(j, r)'
<1>1. fetch'[j] = fetch[j] \/ fetch'[j].stage = "sent"
  BY StartedFields DEF Refetched
<1>2. j \in keys /\ cache[j] # 0 => fetch'[j].stage = "sent"
  BY StartedFields DEF Refetched
<1> QED
  BY <1>1, <1>2 DEF Awaited, Catching

LEMMA RefetchedForward ==
    ASSUME TypeOK, Forward, NEW keys, fetch' = Refetched(keys), cache' = cache, shown' = shown
    PROVE  Forward'
<1>1. \A k \in shown : fetch'[k] = fetch[k] \/ fetch'[k].stage = "sent"
  BY StartedFields DEF Refetched
<1> QED
  BY <1>1 DEF Forward

\* What an edit of this tab does to the promises: those of the answered edits are
\* kept by what their next step reads again.
LEMMA EditStepPromises ==
    ASSUME TypeOK, TypeOK', Promises, NEW e \in Edit,
           \/ EditStep(e) \/ EditFails(e)
           \/ \E hook \in Hooks : Submit(e, hook)
    PROVE  Promises'
<1> USE DEF queries, promises
<1>a. edit \in [Edit -> EditType] /\ edit' \in [Edit -> EditType] /\ edit[e] \in EditType
  BY DEF TypeOK, EditType
<1>b. /\ shown' = shown /\ cache' = cache /\ failed' = failed
      /\ \A d \in Edit \ {e} : edit'[d] = edit[d]
  BY <1>a DEF EditStep, ServerEdit, ServerRefuses, ReceiveEdit, Settle, MessageSaved, AskAgent,
              EditFails, Submit
<1>c. revision \in Nat /\ revision' \in Nat /\ refused \in Nat
  BY DEF TypeOK
<1>d. /\ \A k \in shown : Kin(k) \subseteq shown /\ Kin(k)' = Kin(k) /\ owed[k] \in Nat
      /\ \A hook \in Hooks \cup {useSendChatMessage.answer} : Covers(hook)' <=> Covers(hook)
      /\ \A hook \in Hooks \cup {useSendChatMessage.answer} : Rereads(hook)' = Rereads(hook)
  BY <1>b DEF Kin, TypeOK, Covers, Rereads
<1>e. Editing(e)
  BY DEF Promises
<1>f. edit[e].hook \in Hooks \cup {useSendChatMessage.answer}
  BY <1>a DEF EditType
<1>g. ASSUME NEW d \in Edit, d # e PROVE Editing(d)'
  BY <1>b, <1>g DEF Promises, Editing, Pending, Covers
<1>h. ASSUME NEW d \in Edit, d # e, NEW j, Redeems(d, j) PROVE Redeems(d, j)'
  BY <1>b, <1>h DEF Redeems
<1>1. CASE ServerEdit(e)
  <2>1. PICK n \in edit[e].hook.advances :
          /\ revision' = revision + n
          /\ owed' = [k \in shown |-> IF n = 1 /\ k \in edit[e].hook.changes
                                        THEN revision + n ELSE owed[k]]
          /\ edit' = [edit EXCEPT ![e].step = "answered", ![e].etag = revision + n,
                                 ![e].ok = TRUE]
    BY <1>1 DEF ServerEdit
  <2>2. n \in {0, 1} /\ revision <= revision'
    <3>1. n \in {0, 1}
      BY <1>f, <2>1, HookAdvances
    <3> QED BY <1>c, <2>1, <3>1
  <2>3. edit'[e].step = "answered" /\ edit'[e].hook = edit[e].hook
    BY <1>a, <2>1 DEF EditType
  <2>4. fetch' = fetch /\ refused' = refused /\ edit[e].step = "sent"
    BY <1>1 DEF ServerEdit
  <2>5. Forward'
    BY <1>b, <2>4 DEF Promises, Forward
  <2>6. (\A k \in shown : cache[k] # 0) /\ Covers(edit[e].hook)
    BY <1>e, <2>4 DEF Editing, Pending
  <2>7. Editing(e)'
    BY <1>b, <1>d, <1>f, <2>3, <2>6 DEF Editing
  <2>8. ASSUME NEW j \in shown, NEW r \in Nat, Promised(j, r) PROVE Promised(j, r)'
    <3>1. Awaited(j, r) => Awaited(j, r)'
      BY <1>b, <2>4 DEF Awaited, Catching
    <3>2. ~Redeems(e, j)
      BY <2>4 DEF Redeems
    <3> QED BY <1>h, <2>8, <3>1, <3>2 DEF Promised
  <2>9. ASSUME NEW j \in Rereads(edit[e].hook), NEW r PROVE Promised(j, r)'
    BY <2>3, <2>9 DEF Promised, Redeems, Rereads
  <2>10. ASSUME NEW k \in shown
        PROVE  (owed[k] <= revision /\ \E j \in Kin(k) : Promised(j, owed[k]))'
    <3>1. CASE n = 1 /\ k \in edit[e].hook.changes
      <4>1. owed'[k] = revision'
        BY <2>1, <3>1
      <4>2. \E j \in Kin(k) : j \in Rereads(edit[e].hook)
        BY <2>6, <3>1 DEF Covers, Kin
      <4> QED BY <1>c, <1>d, <2>9, <4>1, <4>2
    <3>2. CASE ~(n = 1 /\ k \in edit[e].hook.changes)
      <4>1. owed'[k] = owed[k]
        BY <2>1, <3>2
      <4>2. owed[k] <= revision
        BY DEF Promises, Owing
      <4>3. PICK j \in Kin(k) : Promised(j, owed[k])
        BY DEF Promises, Owing
      <4>4. j \in shown /\ owed[k] \in Nat
        BY <1>d
      <4>5. Promised(j, owed[k])'
        BY <2>8, <4>1, <4>3, <4>4
      <4>6. owed'[k] <= revision'
        BY <1>c, <2>2, <4>1, <4>2, <4>4
      <4> QED BY <1>d, <4>5, <4>6
    <3> QED BY <3>1, <3>2
  <2>11. Owing'
    <3>1. refused' <= revision'
      BY <1>c, <2>2, <2>4 DEF Promises, Owing
    <3>2. shown \cap Compared # {} => \E j \in shown \cap Compared : Promised(j, refused)'
      BY <1>c, <2>4, <2>8 DEF Promises, Owing
    <3> QED BY <1>b, <2>4, <2>10, <3>1, <3>2 DEF Owing
  <2> QED BY <1>g, <2>5, <2>7, <2>11 DEF Promises
<1>2. CASE ServerRefuses(e)
  <2>1. /\ edit' = [edit EXCEPT ![e].step = "answered", ![e].ok = FALSE]
        /\ refused' = revision /\ revision' = revision /\ fetch' = fetch /\ owed' = owed
        /\ edit[e].step = "sent"
    BY <1>2 DEF ServerRefuses
  <2>2. edit'[e].step = "answered" /\ edit'[e].hook = edit[e].hook
    BY <1>a, <2>1 DEF EditType
  <2>3. Forward'
    BY <1>b, <2>1 DEF Promises, Forward
  <2>4. (\A k \in shown : cache[k] # 0) /\ Covers(edit[e].hook)
    BY <1>e, <2>1 DEF Editing, Pending
  <2>5. Editing(e)'
    BY <1>b, <1>d, <1>f, <2>2, <2>4 DEF Editing
  <2>6. ASSUME NEW j \in shown, NEW r \in Nat, Promised(j, r) PROVE Promised(j, r)'
    <3>1. Awaited(j, r) => Awaited(j, r)'
      BY <1>b, <2>1 DEF Awaited, Catching
    <3>2. ~Redeems(e, j)
      BY <2>1 DEF Redeems
    <3> QED BY <1>h, <2>6, <3>1, <3>2 DEF Promised
  <2>7. \E j \in shown \cap Compared : Promised(j, refused)'
    <3>1. PICK j \in shown \cap Compared : j \in Rereads(edit[e].hook)
      BY <2>4 DEF Covers
    <3> QED BY <2>2, <3>1 DEF Promised, Redeems, Rereads
  <2>8. Owing'
    BY <1>b, <1>c, <1>d, <2>1, <2>6, <2>7 DEF Promises, Owing
  <2> QED BY <1>g, <2>3, <2>5, <2>8 DEF Promises
<1>3. CASE EditFails(e) \/ ReceiveEdit(e)
  <2>1. /\ revision' = revision /\ refused' = refused /\ fetch' = fetch /\ owed' = owed
        /\ edit[e].step \in {"sent", "answered"}
    BY <1>3 DEF EditFails, ReceiveEdit
  <2>2. edit'[e].step = "reading" /\ edit'[e].hook = edit[e].hook
    BY <1>a, <1>3 DEF EditFails, ReceiveEdit, EditType
  <2>3. Forward'
    BY <1>b, <2>1 DEF Promises, Forward
  <2>4. (\A k \in shown : cache[k] # 0) /\ Covers(edit[e].hook)
    BY <1>e, <2>1 DEF Editing, Pending
  <2>5. Editing(e)'
    BY <1>b, <1>d, <1>f, <2>2, <2>4 DEF Editing
  <2>6. ASSUME NEW j \in shown, NEW r \in Nat, Promised(j, r) PROVE Promised(j, r)'
    <3>1. Awaited(j, r) => Awaited(j, r)'
      BY <1>b, <2>1 DEF Awaited, Catching
    <3>2. Redeems(e, j) => Redeems(e, j)'
      BY <2>2 DEF Redeems, Rereads
    <3> QED BY <1>h, <2>6, <3>1, <3>2 DEF Promised
  <2>7. Owing'
    BY <1>b, <1>c, <1>d, <2>1, <2>6 DEF Promises, Owing
  <2> QED BY <1>g, <2>3, <2>5, <2>7 DEF Promises
<1>4. CASE Settle(e) \/ MessageSaved(e)
  <2>1. /\ revision' = revision /\ refused' = refused /\ owed' = owed
        /\ edit[e].step = "reading"
    BY <1>4 DEF Settle, MessageSaved
  <2>2. (\A k \in shown : cache[k] # 0) /\ Covers(edit[e].hook)
    BY <1>e, <2>1 DEF Editing, Pending
  <2>3. PICK keys : fetch' = Refetched(keys) /\ Rereads(edit[e].hook) \subseteq keys
    <3>1. CASE Settle(e)
      BY <1>f, <3>1, RereadsRefetched DEF Settle
    <3>2. CASE MessageSaved(e)
      <4>1. Affected("chat") = {"chat"} /\ edit[e].hook = useSendChatMessage.save
        BY <3>2 DEF MessageSaved, Affected
      <4> QED BY <3>2, <4>1 DEF MessageSaved, Rereads
    <3> QED BY <1>4, <3>1, <3>2
  <2>4. Forward'
    BY <1>b, <2>3, RefetchedForward DEF Promises
  <2>5. Editing(e)'
    <3>1. CASE Settle(e)
      <4>1. edit'[e].step = "done"
        BY <1>a, <3>1 DEF Settle, NoEdit, EditType
      <4> QED BY <4>1 DEF Editing, Pending
    <3>2. CASE MessageSaved(e)
      <4>1. edit'[e].hook = edit[e].hook /\ edit[e].hook = useSendChatMessage.save
        BY <1>a, <3>2 DEF MessageSaved, EditType
      <4> QED BY <1>b, <1>d, <1>f, <2>2, <4>1 DEF Editing
    <3> QED BY <1>4, <3>1, <3>2
  <2>6. ASSUME NEW j \in shown, NEW r \in Nat, Promised(j, r) PROVE Promised(j, r)'
    <3>1. Awaited(j, r) => Awaited(j, r)'
      BY <1>b, <2>3, RefetchedAwaits
    <3>2. Redeems(e, j) => Awaited(j, r)'
      BY <1>b, <2>2, <2>3, RefetchedAwaits DEF Redeems
    <3> QED BY <1>h, <2>6, <3>1, <3>2 DEF Promised
  <2>7. Owing'
    BY <1>b, <1>c, <1>d, <2>1, <2>6 DEF Promises, Owing
  <2> QED BY <1>g, <2>4, <2>5, <2>7 DEF Promises
<1>5. CASE AskAgent(e) \/ \E hook \in Hooks : Submit(e, hook)
  <2>1. /\ revision' = revision /\ refused' = refused /\ fetch' = fetch /\ owed' = owed
        /\ edit[e].step \in {"following", "none"}
    BY <1>5 DEF AskAgent, Submit
  <2>2. Forward'
    BY <1>b, <2>1 DEF Promises, Forward
  <2>3. Editing(e)'
    <3>1. CASE AskAgent(e)
      <4>1. edit'[e].step = "sent" /\ edit'[e].hook = useSendChatMessage.answer
        BY <1>a, <3>1 DEF AskAgent, NoEdit, EditType
      <4>2. (\A k \in shown : cache[k] # 0) /\ Covers(edit[e].hook)
        BY <1>e, <3>1 DEF AskAgent, Editing, Pending
      <4>3. Covers(useSendChatMessage.answer)
        BY <4>2, AnswerCovers DEF Covers
      <4> QED BY <1>b, <1>d, <4>1, <4>2, <4>3 DEF Editing
    <3>2. CASE \E hook \in Hooks : Submit(e, hook)
      <4>1. PICK hook \in Hooks : Submit(e, hook)
        BY <3>2
      <4>2. edit'[e].step = "sent" /\ edit'[e].hook = hook
        BY <1>a, <4>1 DEF Submit, NoEdit, EditType
      <4>3. (\A k \in shown : cache[k] # 0) /\ Covers(hook)
        BY <4>1, SubmittedCovers DEF Submit, Ready
      <4> QED BY <1>b, <1>d, <4>2, <4>3 DEF Editing
    <3> QED BY <1>5, <3>1, <3>2
  <2>4. ASSUME NEW j \in shown, NEW r \in Nat, Promised(j, r) PROVE Promised(j, r)'
    <3>1. Awaited(j, r) => Awaited(j, r)'
      BY <1>b, <2>1 DEF Awaited, Catching
    <3>2. ~Redeems(e, j)
      BY <2>1 DEF Redeems
    <3> QED BY <1>h, <2>4, <3>1, <3>2 DEF Promised
  <2>5. Owing'
    BY <1>b, <1>c, <1>d, <2>1, <2>4 DEF Promises, Owing
  <2> QED BY <1>g, <2>2, <2>3, <2>5 DEF Promises
<1> QED
  BY <1>1, <1>2, <1>3, <1>4, <1>5 DEF EditStep

LEMMA PromisesStep == TypeOK /\ TypeOK' /\ Bounds /\ Promises /\ [Next]_vars => Promises'
<1> SUFFICES ASSUME TypeOK, TypeOK', Bounds, Promises, [Next]_vars PROVE Promises'
  OBVIOUS
<1>0. /\ revision \in Nat /\ refused \in Nat
      /\ \A k \in shown : Kin(k) \subseteq shown /\ owed[k] \in Nat
  BY DEF TypeOK, Kin
<1>1. ASSUME NEW x \in shown, QueryStep(x) \/ FetchFails(x) PROVE Promises'
  BY <1>1, QueryStepPromises
<1>2. CASE Effect
  <2>1. /\ shown' = shown /\ cache' = cache /\ failed' = failed /\ fetch' = Refetched(Older)
        /\ revision' = revision /\ edit' = edit /\ owed' = owed /\ refused' = refused
    BY <1>2 DEF Effect, promises
  <2>2. Forward'
    BY <2>1, RefetchedForward DEF Promises
  <2>3. \A e \in Edit : Editing(e)'
    BY <2>1 DEF Promises, Editing, Pending, Covers
  <2>4. ASSUME NEW j \in shown, NEW r \in Nat, Promised(j, r) PROVE Promised(j, r)'
    <3>1. Awaited(j, r) => Awaited(j, r)'
      BY <2>1, RefetchedAwaits
    <3> QED BY <2>1, <2>4, <3>1 DEF Promised, Redeems
  <2>5. Owing'
    BY <1>0, <2>1, <2>4 DEF Promises, Owing, Kin
  <2> QED BY <2>2, <2>3, <2>5 DEF Promises
<1>3. ASSUME NEW e \in Edit, EditStep(e) \/ EditFails(e) \/ \E hook \in Hooks : Submit(e, hook)
      PROVE  Promises'
  BY <1>3, EditStepPromises
<1>4. CASE RemoteEdit
  <2>1. /\ shown' = shown /\ cache' = cache /\ failed' = failed /\ fetch' = fetch
        /\ edit' = edit /\ owed' = owed /\ refused' = refused
    BY <1>4 DEF RemoteEdit, queries, promises
  <2>2. revision' \in Nat /\ revision <= revision'
    BY <1>4, RemoteAdvances
  <2>3. Forward' /\ \A e \in Edit : Editing(e)'
    BY <2>1 DEF Promises, Forward, Editing, Pending, Covers
  <2>4. \A j \in shown, r \in Nat : Promised(j, r) => Promised(j, r)'
    BY <2>1 DEF Promised, Awaited, Catching, Redeems
  <2>5. Owing'
    BY <1>0, <2>1, <2>2, <2>4 DEF Promises, Owing, Kin
  <2> QED BY <2>3, <2>5 DEF Promises
<1>5. CASE UNCHANGED vars
  <2>1. /\ shown' = shown /\ cache' = cache /\ failed' = failed /\ fetch' = fetch
        /\ revision' = revision /\ edit' = edit /\ owed' = owed /\ refused' = refused
    BY <1>5 DEF vars
  <2>2. \A j, r : Promised(j, r) => Promised(j, r)'
    BY <2>1 DEF Promised, Awaited, Catching, Redeems
  <2>3. Forward' /\ (\A e \in Edit : Editing(e)')
    BY <2>1 DEF Promises, Forward, Editing, Pending, Covers
  <2>4. Owing'
    BY <2>1, <2>2 DEF Promises, Owing, Kin
  <2> QED BY <2>3, <2>4 DEF Promises
<1> QED
  BY <1>1, <1>2, <1>3, <1>4, <1>5 DEF Next

\* At rest a promise is kept by the data that is shown.
LEMMA PromisesSuffice == TypeOK /\ Converging /\ Promises => OwnEditsAreShown
<1> SUFFICES ASSUME TypeOK, Converging, Promises, Settled
             PROVE  /\ \A k \in shown : cache[k] >= owed[k]
                    /\ \A k \in shown \cap Compared : cache[k] >= refused
  BY DEF OwnEditsAreShown
<1>1. ASSUME NEW j \in shown, NEW r, Promised(j, r) PROVE cache[j] >= r
  <2>1. fetch[j].stage = "idle" /\ j \notin failed /\ \A e \in Edit : ~Pending(e)
    BY DEF Settled, AtRest, InFlight
  <2>2. \A e \in Edit : ~Redeems(e, j)
    BY <2>1 DEF Pending, Redeems
  <2> QED BY <1>1, <2>1, <2>2 DEF Promised, Awaited, Catching
<1>2. \A j, k \in shown \cap Compared : cache[j] = cache[k]
  BY ConvergingSuffices DEF QuietPageConverged
<1>3. ASSUME NEW k \in shown PROVE cache[k] >= owed[k]
  <2>1. PICK j \in Kin(k) : Promised(j, owed[k])
    BY DEF Promises, Owing
  <2>2. j \in shown /\ cache[j] = cache[k]
    BY <1>2, <2>1 DEF Kin
  <2> QED BY <1>1, <2>1, <2>2
<1>4. ASSUME NEW k \in shown \cap Compared PROVE cache[k] >= refused
  <2>1. PICK j \in shown \cap Compared : Promised(j, refused)
    BY DEF Promises, Owing
  <2> QED BY <1>1, <1>2, <2>1
<1> QED
  BY <1>3, <1>4

\* A page at rest whose queries have not failed shows every response that an edit of
\* its tab has altered as it was after that edit or later, lost answers and 409s
\* included.
THEOREM OwnEditsStayShown == Spec => []OwnEditsAreShown
<1>1. Init => TypeOK /\ Bounds /\ Converging /\ Promises
  BY InitTypes, InitBounds, InitConverging, InitPromises
<1>2. TypeOK /\ Bounds /\ Converging /\ Promises /\ [Next]_vars
        => TypeOK' /\ Bounds' /\ Converging' /\ Promises'
  BY TypesStep, BoundsStep, ConvergingStep, PromisesStep
<1>3. TypeOK /\ Converging /\ Promises => OwnEditsAreShown
  BY PromisesSuffice
<1> QED
  BY <1>1, <1>2, <1>3, PTL DEF Spec
-----------------------------------------------------------------------------
(* What SettingsAreKept rests on. *)

Stored == [tiles : BOOLEAN \cup {Absent}, grid : BOOLEAN \cup {Absent}]

Documents == [ready : BOOLEAN, failed : BOOLEAN, reloading : BOOLEAN, canEdit : BOOLEAN]

Versions == [auth : Nat, edit : Nat, load : Nat]

SettingsTypeOK ==
  /\ stored \in Stored /\ applied \in Preferences
  /\ document \in Documents
  /\ versions \in Versions
  /\ reads \subseteq [request : Nat, version : Nat]
  /\ saves \subseteq [next : Preferences, version : Nat, auth : Nat]
  /\ lastGrid \in BOOLEAN \cup {Absent}

(* A load counts while nothing is ready: it is the only one with its number, *)
(* and no edit has overtaken it.                                           *)
ReadsFit ==
  /\ \A r \in reads : r.request <= versions.load
  /\ \A r, q \in reads : r.request = q.request => r = q
  /\ \A r \in reads :
       r.request = versions.load => ~document.ready /\ r.version = versions.edit

(* A change that still counts has the grid of the page. *)
SavesFit ==
  \A s \in saves : /\ document.ready /\ s.version <= versions.edit
                   /\ s.version = versions.edit => s.next.grid = applied.grid

(* The last choice is stored, also before it is loaded again. *)
ChoiceIsStored == lastGrid # Absent => stored.grid = lastGrid

SettingsInv ==
  SettingsTypeOK /\ ReadsFit /\ SavesFit /\ ChoiceIsStored /\ SettingsAreKept

LEMMA SettingsInitial == SettingsInit => SettingsInv
<1> SUFFICES ASSUME SettingsInit PROVE SettingsInv
  OBVIOUS
<1>1. PICK strict \in BOOLEAN : versions = OpeningVersions(strict) /\ reads = OpeningReads(strict)
  BY DEF SettingsInit
<1>2. SettingsTypeOK
  BY <1>1
     DEF SettingsInit, SettingsTypeOK, Stored, Documents, Versions, Opening, OpeningVersions,
         OpeningReads, Preferences, Defaults
<1>3. ReadsFit
  BY <1>1 DEF SettingsInit, ReadsFit, Opening, OpeningVersions, OpeningReads
<1> QED
  BY <1>1, <1>2, <1>3
     DEF SettingsInv, SettingsInit, SavesFit, ChoiceIsStored, SettingsAreKept, Opening

LEMMA SettingsStep == SettingsInv /\ [SettingsNext]_settingsVars => SettingsInv'
<1> SUFFICES ASSUME SettingsInv, [SettingsNext]_settingsVars PROVE SettingsInv'
  OBVIOUS
<1> USE DEF SettingsInv
<1>0. Defaults \in Preferences
  BY DEF Defaults, Preferences
<1>1. CASE NewDocument
  <2>1. SettingsTypeOK'
    BY <1>0, <1>1
       DEF NewDocument, SettingsTypeOK, Documents, Versions, Opening, OpeningVersions, OpeningReads
  <2>2. ReadsFit'
    BY <1>1 DEF NewDocument, ReadsFit, Opening, OpeningVersions, OpeningReads
  <2> QED
    BY <1>1, <2>1, <2>2
       DEF NewDocument, SavesFit, ChoiceIsStored, SettingsAreKept, Opening, SettingsTypeOK
<1>2. CASE FinishLoad
  <2>1. PICK r \in reads, fallback \in Preferences : FinishLoad!(r, fallback)
    BY <1>2 DEF FinishLoad
  <2>2. CASE r.request # versions.load
    BY <2>1, <2>2
       DEF SettingsTypeOK, Documents, Versions, ReadsFit, SavesFit, ChoiceIsStored, SettingsAreKept
  <2>3. CASE r.request = versions.load
    <3>1. r.version = versions.edit /\ ~document.ready /\ saves = {}
      BY <2>3 DEF ReadsFit, SavesFit
    <3>2. /\ stored' = readEditorSettings(fallback) /\ applied' = readEditorSettings(fallback)
          /\ document' = [document EXCEPT !.ready = TRUE] /\ versions' = versions
      BY <2>1, <2>3, <3>1
    <3>3. /\ readEditorSettings(fallback) \in Preferences
          /\ lastGrid # Absent => readEditorSettings(fallback).grid = lastGrid
      BY <2>1 DEF readEditorSettings, SettingsTypeOK, Stored, Preferences, ChoiceIsStored
    <3>4. readEditorSettings(fallback) \in Stored
      BY <3>3 DEF Preferences, Stored
    <3>6. SettingsTypeOK'
      BY <2>1, <3>2, <3>3, <3>4 DEF SettingsTypeOK, Documents, Versions
    <3>7. ReadsFit'
      BY <2>1, <2>3, <3>2 DEF ReadsFit, SettingsTypeOK, Documents, Versions
    <3> QED
      BY <2>1, <3>1, <3>2, <3>3, <3>6, <3>7
         DEF SavesFit, ChoiceIsStored, SettingsAreKept
  <2> QED BY <2>2, <2>3
<1>3. CASE FailLoad
  BY <1>3
     DEF FailLoad, SettingsTypeOK, Documents, ReadsFit, SavesFit, ChoiceIsStored, SettingsAreKept
<1>4. CASE RetryLoad
  <2>1. document' \in Documents
    BY <1>4 DEF RetryLoad, SettingsTypeOK, Documents
  <2>2. /\ versions' \in Versions
        /\ [request |-> versions.load + 1, version |-> versions.edit]
             \in [request : Nat, version : Nat]
    BY <1>4 DEF RetryLoad, SettingsTypeOK, Versions
  <2>3. SettingsTypeOK'
    BY <1>4, <2>1, <2>2 DEF RetryLoad, SettingsTypeOK
  <2>4. ReadsFit'
    BY <1>4 DEF RetryLoad, ReadsFit, SettingsTypeOK, Documents, Versions
  <2> QED
    BY <1>4, <2>3, <2>4
       DEF RetryLoad, SavesFit, ChoiceIsStored, SettingsAreKept, SettingsTypeOK,
           Documents, Versions
<1>5. ASSUME MaySave
      PROVE  /\ document.ready
             /\ Edited = [versions EXCEPT !.edit = @ + 1]
             /\ \A r \in reads : r.request # versions.load
             /\ \A s \in saves : s.version < versions.edit + 1
  BY <1>5 DEF MaySave, Edited, ReadsFit, SavesFit, SettingsTypeOK, Documents, Versions
<1>6. ASSUME NEW next \in Preferences, MaySave
      PROVE  /\ Asked(next) \subseteq [next : Preferences, version : Nat, auth : Nat]
             /\ \A s \in Asked(next) : /\ s.version <= versions.edit + 1
                                       /\ s.version = versions.edit + 1 => s.next = next
  BY <1>5, <1>6 DEF Asked, SettingsTypeOK, Documents, Versions
<1>7. CASE SaveGrid
  <2> DEFINE next == [applied EXCEPT !.grid = ~@]
  <2>1. /\ MaySave /\ stored' = next /\ applied' = next /\ lastGrid' = next.grid
        /\ versions' = Edited /\ saves' = Asked(next) /\ reads' = reads /\ document' = document
    BY <1>7 DEF SaveGrid
  <2>2. next \in Preferences /\ next \in Stored
    BY DEF SettingsTypeOK, Stored, Preferences
  <2> HIDE DEF next
  <2>3. SettingsTypeOK'
    BY <1>5, <1>6, <2>1, <2>2 DEF SettingsTypeOK, Documents, Versions, Preferences
  <2>4. ReadsFit'
    BY <1>5, <2>1 DEF ReadsFit, SettingsTypeOK, Documents, Versions
  <2>5. SavesFit'
    BY <1>5, <1>6, <2>1, <2>2 DEF SavesFit, SettingsTypeOK, Documents, Versions
  <2> QED
    BY <2>1, <2>3, <2>4, <2>5 DEF ChoiceIsStored, SettingsAreKept
<1>8. CASE SaveRenderer
  <2> DEFINE next == [applied EXCEPT !.tiles = ~@]
  <2>1. /\ MaySave /\ saves' = Asked(next) /\ versions' = Edited
        /\ UNCHANGED <<applied, reads, lastGrid>>
        /\ \/ document' = document /\ stored' = stored
           \/ document' = [document EXCEPT !.reloading = TRUE] /\ stored' = next
    BY <1>8 DEF SaveRenderer
  <2>2. /\ next \in Preferences /\ next \in Stored
        /\ next.grid = applied.grid
    BY DEF SettingsTypeOK, Stored, Preferences
  <2> HIDE DEF next
  <2>3. SettingsTypeOK'
    <3>1. document' \in Documents
      BY <2>1 DEF SettingsTypeOK, Documents
    <3>2. versions' \in Versions
      BY <1>5, <2>1 DEF SettingsTypeOK, Versions
    <3>3. saves' \subseteq [next : Preferences, version : Nat, auth : Nat]
      BY <1>6, <2>1, <2>2
    <3> QED
      BY <2>1, <2>2, <3>1, <3>2, <3>3 DEF SettingsTypeOK
  <2>4. ReadsFit'
    BY <1>5, <2>1 DEF ReadsFit, SettingsTypeOK, Documents, Versions
  <2>5. SavesFit'
    BY <1>5, <1>6, <2>1, <2>2 DEF SavesFit, SettingsTypeOK, Documents, Versions
  <2> QED
    BY <1>5, <2>1, <2>2, <2>3, <2>4, <2>5
       DEF ChoiceIsStored, SettingsAreKept, SettingsTypeOK, Documents
<1>9. CASE FailSave
  <2>1. /\ versions' = Edited /\ MaySave
        /\ UNCHANGED <<stored, applied, document, reads, saves, lastGrid>>
    BY <1>9 DEF FailSave
  <2> QED
    BY <1>5, <2>1
       DEF SettingsTypeOK, Documents, Versions, ReadsFit, SavesFit, ChoiceIsStored, SettingsAreKept
<1>10. CASE SaveAnswered
  <2>1. PICK s \in saves : SaveAnswered!(s)
    BY <1>10 DEF SaveAnswered
  <2>2. CASE UNCHANGED <<stored, document>>
    BY <2>1, <2>2
       DEF SettingsTypeOK, Documents, Versions, ReadsFit, SavesFit, ChoiceIsStored, SettingsAreKept
  <2>3. CASE /\ StillCounts(s) /\ stored' = s.next
             /\ document' = [document EXCEPT !.reloading = TRUE]
    <3>1. s.next.grid = applied.grid /\ document.ready /\ s.next \in Preferences
      BY <2>1, <2>3 DEF SavesFit, StillCounts, SettingsTypeOK, Documents, Versions
    <3>2. s.next \in Stored
      BY <3>1 DEF Preferences, Stored
    <3> QED
      BY <2>1, <2>3, <3>1, <3>2
         DEF SettingsTypeOK, Documents, ReadsFit, SavesFit, ChoiceIsStored, SettingsAreKept
  <2> QED BY <2>1, <2>2, <2>3
<1>11. CASE SetCanEdit
  <2>1. /\ document' = [document EXCEPT !.canEdit = ~@]
        /\ versions' = [versions EXCEPT !.auth = @ + 1]
        /\ UNCHANGED <<stored, applied, reads, saves, lastGrid>>
    BY <1>11 DEF SetCanEdit
  <2>2. /\ document' \in Documents
        /\ document'.ready = document.ready /\ document'.reloading = document.reloading
    BY <2>1 DEF SettingsTypeOK, Documents
  <2>4. /\ versions' \in Versions
        /\ versions'.load = versions.load /\ versions'.edit = versions.edit
    BY <2>1 DEF SettingsTypeOK, Versions
  <2>3. SettingsTypeOK'
    BY <2>1, <2>2, <2>4 DEF SettingsTypeOK
  <2> QED
    BY <2>1, <2>2, <2>3, <2>4 DEF ReadsFit, SavesFit, ChoiceIsStored, SettingsAreKept
<1>12. CASE UNCHANGED settingsVars
  BY <1>12
     DEF settingsVars, SettingsTypeOK, ReadsFit, SavesFit, ChoiceIsStored, SettingsAreKept
<1> QED
  BY <1>1, <1>2, <1>3, <1>4, <1>7, <1>8, <1>9, <1>10, <1>11, <1>12 DEF SettingsNext

\* No late answer, load or profile undoes a choice of the user, over any number of
\* changes, sign-ins, sign-outs and documents.
THEOREM SettingsStayKept == SettingsSpec => []SettingsAreKept
<1>1. SettingsInv => SettingsAreKept
  BY DEF SettingsInv
<1> QED
  BY SettingsInitial, SettingsStep, <1>1, PTL DEF SettingsSpec

-----------------------------------------------------------------------------
(* The SIFT lab *)

\* Event e is among those queued.
Queued(e, queue) == \E i \in 1 .. Len(queue) : queue[i] = e

LEMMA QueuesTyped ==
  /\ << >> \in Seq(MediaEvents)
  /\ \A e \in MediaEvents : <<e>> \in Seq(MediaEvents)
  /\ \A p, q \in Seq(MediaEvents) : p \o q \in Seq(MediaEvents)
BY DEF MediaEvents

LEMMA QueuedLater ==
  ASSUME NEW p \in Seq(MediaEvents), NEW q \in Seq(MediaEvents), NEW e
  PROVE  Queued(e, p \o q) <=> Queued(e, p) \/ Queued(e, q)
<1>1. /\ Len(p \o q) = Len(p) + Len(q)
      /\ \A i \in 1 .. Len(p) + Len(q) : (p \o q)[i] = IF i <= Len(p) THEN p[i] ELSE q[i - Len(p)]
      /\ Len(p) \in Nat /\ Len(q) \in Nat
  BY ConcatProperties, LenProperties
<1>2. ASSUME Queued(e, p \o q) PROVE Queued(e, p) \/ Queued(e, q)
  <2>1. PICK i \in 1 .. Len(p) + Len(q) : (p \o q)[i] = e
    BY <1>1, <1>2 DEF Queued
  <2>2. CASE i <= Len(p)
    BY <1>1, <2>1, <2>2 DEF Queued
  <2>3. CASE i > Len(p)
    <3>1. i - Len(p) \in 1 .. Len(q) /\ q[i - Len(p)] = e
      BY <1>1, <2>1, <2>3
    <3> QED BY <3>1 DEF Queued
  <2> QED BY <1>1, <2>2, <2>3
<1>3. ASSUME Queued(e, p) PROVE Queued(e, p \o q)
  <2>1. PICK i \in 1 .. Len(p) : p[i] = e
    BY <1>3 DEF Queued
  <2>2. i \in 1 .. Len(p) + Len(q) /\ (p \o q)[i] = e
    BY <1>1, <2>1
  <2> QED BY <1>1, <2>2 DEF Queued
<1>4. ASSUME Queued(e, q) PROVE Queued(e, p \o q)
  <2>1. PICK i \in 1 .. Len(q) : q[i] = e
    BY <1>4 DEF Queued
  <2>2. Len(p) + i \in 1 .. Len(p) + Len(q) /\ (p \o q)[Len(p) + i] = e
    BY <1>1, <2>1
  <2> QED BY <1>1, <2>2 DEF Queued
<1> QED BY <1>2, <1>3, <1>4

LEMMA QueuedOne ==
  /\ \A e : ~Queued(e, << >>)
  /\ \A e : \A x : Queued(e, <<x>>) <=> e = x
BY DEF Queued

LEMMA QueuedFirst ==
  ASSUME NEW q \in Seq(MediaEvents), q # << >>
  PROVE  /\ Head(q) \in MediaEvents /\ Tail(q) \in Seq(MediaEvents)
         /\ \A e : Queued(e, q) <=> e = Head(q) \/ Queued(e, Tail(q))
<1>1. /\ Head(q) \in MediaEvents /\ Tail(q) \in Seq(MediaEvents) /\ q = <<Head(q)>> \o Tail(q)
  BY HeadTailProperties, ConcatProperties, EmptySeq
<1>2. <<Head(q)>> \in Seq(MediaEvents)
  BY <1>1
<1>3. ASSUME NEW e PROVE Queued(e, q) <=> e = Head(q) \/ Queued(e, Tail(q))
  <2>1. Queued(e, <<Head(q)>> \o Tail(q)) <=> Queued(e, <<Head(q)>>) \/ Queued(e, Tail(q))
    BY <1>1, <1>2, QueuedLater
  <2>2. Queued(e, <<Head(q)>>) <=> e = Head(q)
    BY QueuedOne
  <2> QED BY <1>1, <2>1, <2>2
<1> QED BY <1>1, <1>3

LEMMA QueuedLast ==
  ASSUME NEW q \in Seq(MediaEvents), NEW x \in MediaEvents
  PROVE  /\ Append(q, x) \in Seq(MediaEvents)
         /\ \A e : Queued(e, Append(q, x)) <=> e = x \/ Queued(e, q)
<1>1. Append(q, x) = q \o <<x>> /\ <<x>> \in Seq(MediaEvents)
  BY AppendIsConcat
<1>2. ASSUME NEW e PROVE Queued(e, Append(q, x)) <=> e = x \/ Queued(e, q)
  <2>1. Queued(e, q \o <<x>>) <=> Queued(e, q) \/ Queued(e, <<x>>)
    BY <1>1, QueuedLater
  <2>2. Queued(e, <<x>>) <=> e = x
    BY QueuedOne
  <2> QED BY <1>1, <2>1, <2>2
<1> QED BY <1>1, <1>2, QueuesTyped

-----------------------------------------------------------------------------
(* The invariant of a session *)

\* The events that take the points off the screen are delivered.
Quiet == media.paused /\ ~media.seeking /\ ~Queued("pause", events) /\ ~Queued("seeking", events)

\* Nothing happens before the session runs.
Starting ==
  /\ view.points = Nothing /\ view.held = Nothing
  /\ ~sift.current /\ ~sift.inFlight /\ ~sift.hold /\ ~sift.raf /\ ~sift.timer
  /\ ~media.seeking /\ events = << >>

\* The session, the viewport, the page and the worker agree.
SessionAgrees ==
  /\ sift.hold <=> view.held # Nothing
  /\ page.frame = view.points
  /\ Len(work) = IF sift.inFlight THEN 1 ELSE 0

\* Which controls and which steps a source has.
SourceFits ==
  /\ sift.at # "over"
  /\ sift.at \in {"permission", "play", "devices"} => source = "camera"
  /\ source # "video" => ~media.seeking /\ page.playback = Nothing
  /\ sift.at # "running" => Starting

\* A seek leaves no points but those held, and makes an answer under way late.
SeeksClear == media.seeking => ~sift.current /\ (view.points = Nothing \/ sift.hold)

\* What is on the screen, and what still counts of what the worker has, is of
\* the picture on the screen, unless an event is to say that it has changed.
PointsMatch ==
  sift.at = "running" /\ source # "camera" /\ Quiet =>
    /\ sift.inFlight /\ sift.current => Head(work) = Detection(media.picture, config)
    /\ view.points # Nothing /\ ~sift.hold => view.points = Detection(media.picture, config)

StoppedFits ==
  owned = {} /\ ~sift.raf /\ ~sift.timer /\ events = << >> /\ work = << >> /\ media = Opened

SiftInv ==
  /\ SiftTypeOK
  /\ ~sift.disposed => SessionAgrees /\ SourceFits /\ SeeksClear /\ PointsMatch
  /\ sift.disposed => StoppedFits

\* What of a session an operator of createSiftSession leaves alone.
SameSession(s, t) == /\ t.at = s.at /\ t.disposed = s.disposed /\ t.inFlight = s.inFlight

LEMMA ScheduleFacts ==
  ASSUME NEW s \in SessionStates
  PROVE  /\ schedule(s) \in SessionStates /\ SameSession(s, schedule(s))
         /\ schedule(s).current = s.current /\ schedule(s).hold = s.hold
         /\ schedule(s).timer = s.timer
         /\ s.disposed => schedule(s).raf = s.raf
BY DEF SessionStates, schedule, SameSession

LEMMA RefreshFacts ==
  ASSUME NEW s \in SessionStates
  PROVE  /\ refresh(s) \in SessionStates /\ SameSession(s, refresh(s))
         /\ refresh(s).current = FALSE /\ refresh(s).hold = s.hold
         /\ refresh(s).timer = s.timer
<1> DEFINE t == [s EXCEPT !.current = FALSE, !.lastTime = -1, !.pending = TRUE]
<1>1. -1 \in -1 .. Duration
  BY SiftAssumption DEF Duration
<1>2. /\ t \in SessionStates /\ SameSession(s, t)
      /\ t.current = FALSE /\ t.hold = s.hold /\ t.timer = s.timer
  BY <1>1 DEF SessionStates, SameSession
<1>3. refresh(s) = schedule(t)
  BY DEF refresh
<1> HIDE DEF t
<1> QED BY <1>2, <1>3, ScheduleFacts DEF SameSession

LEMMA ResetFacts ==
  ASSUME NEW s \in SessionStates
  PROVE  /\ resetStepping(s) \in SessionStates /\ SameSession(s, resetStepping(s))
         /\ resetStepping(s).hold = FALSE
BY DEF SessionStates, resetStepping, SameSession

LEMMA SteppingFacts ==
  ASSUME NEW s \in SessionStates, media \in MediaStates
  PROVE  /\ Stepping(s) \in SessionStates /\ SameSession(s, Stepping(s))
         /\ Stepping(s).hold = ~s.recent
BY DEF SessionStates, Stepping, SameSession, MediaStates

\* A capture asks for one detection of the present picture, or for none.
LEMMA CaptureFacts ==
  ASSUME SiftTypeOK, NEW s \in SessionStates
  PROVE  /\ capture(s) \in SessionStates
         /\ capture(s).at = s.at /\ capture(s).disposed = s.disposed
         /\ capture(s).hold = s.hold /\ capture(s).timer = s.timer
         /\ \/ /\ capture(s).inFlight = s.inFlight /\ capture(s).current = s.current
               /\ Requested(s) = work
            \/ /\ ~s.disposed /\ ~s.inFlight /\ capture(s).inFlight
               /\ source = "image" \/ ~media.seeking
               /\ Requested(s) = Append(work, Detection(media.picture, config))
<1>1. CASE s.disposed \/ s.inFlight \/ s.rapid
  <2>1. capture(s) = s
    BY <1>1 DEF capture
  <2> QED BY <2>1 DEF Requested
<1>2. CASE /\ ~(s.disposed \/ s.inFlight \/ s.rapid)
           /\ NothingToCapture(s)
  BY <1>2, ScheduleFacts DEF capture, Requested, SameSession
<1>3. CASE /\ ~(s.disposed \/ s.inFlight \/ s.rapid)
           /\ ~NothingToCapture(s)
  <2> DEFINE t == [s EXCEPT !.lastTime = media.time, !.current = TRUE,
                            !.pending = FALSE, !.inFlight = TRUE]
  <2>1. capture(s) = t
    BY <1>3 DEF capture
  <2>2. media.time \in -1 .. Duration
    BY SiftAssumption DEF SiftTypeOK, MediaStates, Duration
  <2>3. t \in SessionStates /\ t.at = s.at /\ t.disposed = s.disposed /\ t.hold = s.hold
        /\ t.timer = s.timer /\ t.inFlight
    BY <2>2 DEF SessionStates
  <2> QED BY <1>3, <2>1, <2>3 DEF Requested, NothingToCapture
<1> QED BY <1>1, <1>2, <1>3

LEMMA PageFacts ==
  ASSUME NEW s \in SessionStates, NEW m \in MediaStates, NEW p \in PageStates
  PROVE  /\ syncPlayback(s, m, p) \in PageStates /\ syncPlayback(s, m, p).frame = p.frame
         /\ source # "video" => syncPlayback(s, m, p) = p
         /\ refreshPage(s, p) \in PageStates /\ refreshPage(s, p).playback = p.playback
         /\ refreshPage(s, p).frame = IF s.hold THEN p.frame ELSE Nothing
<1>1. ASSUME source # "video" PROVE syncPlayback(s, m, p) = p
  BY <1>1 DEF syncPlayback
<1>2. ASSUME source = "video"
      PROVE  syncPlayback(s, m, p) \in PageStates /\ syncPlayback(s, m, p).frame = p.frame
  <2> DEFINE b == [time |-> m.time, paused |-> m.paused, ended |-> Ended(m),
                   indexed |-> s.frames = "read",
                   shown |-> FrameOf(IF s.hold THEN s.heldTime ELSE m.time)]
  <2>1. FrameOf(IF s.hold THEN s.heldTime ELSE m.time) \in 0 .. Frames - 1
    BY SiftAssumption DEF FrameOf, SessionStates, MediaStates, Duration
  <2>2. b \in Playbacks
    BY <2>1 DEF Playbacks, MediaStates, Ended
  <2>3. syncPlayback(s, m, p) = [p EXCEPT !.playback = b]
    BY <1>2 DEF syncPlayback
  <2> HIDE DEF b
  <2> QED BY <1>2, <2>2, <2>3 DEF PageStates
<1>3. /\ refreshPage(s, p) \in PageStates /\ refreshPage(s, p).playback = p.playback
      /\ refreshPage(s, p).frame = IF s.hold THEN p.frame ELSE Nothing
  BY DEF refreshPage, PageStates, Phases
<1> QED BY <1>1, <1>2, <1>3

LEMMA ViewFacts ==
  ASSUME NEW s \in SessionStates, NEW v \in ViewStates, media \in MediaStates
  PROVE  /\ clearPoints(s, v) \in ViewStates /\ clearPoints(s, v).held = v.held
         /\ clearPoints(s, v).points = IF s.hold THEN v.points ELSE Nothing
         /\ releaseMedia(v) \in ViewStates /\ releaseMedia(v).points = v.points
         /\ releaseMedia(v).held = Nothing
         /\ holdMedia(v) \in ViewStates /\ holdMedia(v).points = v.points
         /\ holdMedia(v).held # Nothing
BY SiftAssumption DEF clearPoints, releaseMedia, holdMedia, ViewStates, MediaStates

LEMMA MediaFacts ==
  ASSUME NEW m \in MediaStates
  PROVE  /\ Opened \in MediaStates
         /\ Played(m) \in MediaStates /\ Paused(m) \in MediaStates
         /\ \A t \in 0 .. Duration : Sought(m, t) \in MediaStates
         /\ AtEnd(m) \in MediaStates
         /\ AtEnd(m).picture = m.picture /\ AtEnd(m).seeking = m.seeking
         /\ PauseEvents(m) \in Seq(MediaEvents) /\ EndEvents(m) \in Seq(MediaEvents)
         /\ ~m.paused => Queued("pause", PauseEvents(m))
         /\ ~m.paused /\ AtEnd(m).paused => Queued("pause", EndEvents(m))
         /\ phase(m) \in Phases
<1>1. Opened \in MediaStates
  BY SiftAssumption DEF Opened, MediaStates, Duration
<1>2. /\ Played(m) \in MediaStates /\ Paused(m) \in MediaStates /\ AtEnd(m) \in MediaStates
      /\ \A t \in 0 .. Duration : Sought(m, t) \in MediaStates
      /\ AtEnd(m).picture = m.picture /\ AtEnd(m).seeking = m.seeking
  BY DEF Played, Paused, AtEnd, Sought, MediaStates
<1>3. PauseEvents(m) \in Seq(MediaEvents)
  BY QueuesTyped DEF PauseEvents, MediaEvents
<1>4. EndEvents(m) \in Seq(MediaEvents)
  BY <1>3, QueuesTyped DEF EndEvents, MediaEvents
<1>5. ASSUME ~m.paused PROVE Queued("pause", PauseEvents(m))
  <2> DEFINE rest == IF m.opening THEN <<"interrupted">> ELSE << >>
  <2>1. <<"pause">> \in Seq(MediaEvents) /\ rest \in Seq(MediaEvents)
    BY QueuesTyped DEF MediaEvents
  <2>2. PauseEvents(m) = <<"pause">> \o rest
    BY <1>5 DEF PauseEvents
  <2> HIDE DEF rest
  <2>3. Queued("pause", <<"pause">> \o rest)
    BY <2>1, QueuedLater, QueuedOne
  <2> QED BY <2>2, <2>3
<1>6. ASSUME ~m.paused, AtEnd(m).paused PROVE Queued("pause", EndEvents(m))
  <2>1. EndEvents(m) = PauseEvents(m) \o <<"ended">>
    BY <1>6 DEF AtEnd, EndEvents
  <2>2. <<"ended">> \in Seq(MediaEvents)
    BY QueuesTyped DEF MediaEvents
  <2>3. Queued("pause", PauseEvents(m) \o <<"ended">>)
    BY <1>3, <1>5, <1>6, <2>2, QueuedLater
  <2> QED BY <2>1, <2>3
<1>7. phase(m) \in Phases
  BY DEF phase, Phases
<1> QED BY <1>1, <1>2, <1>3, <1>4, <1>5, <1>6, <1>7

LEMMA SessionTyped ==
  ASSUME NEW s \in SessionStates,
         NEW at \in {"worker", "permission", "play", "devices", "bitmap", "frame",
                     "running", "over"}
  PROVE  /\ [s EXCEPT !.at = at] \in SessionStates
         /\ [s EXCEPT !.raf = FALSE] \in SessionStates
         /\ [s EXCEPT !.inFlight = FALSE] \in SessionStates
         /\ [s EXCEPT !.recent = FALSE] \in SessionStates
         /\ [s EXCEPT !.timer = FALSE, !.rapid = FALSE] \in SessionStates
         /\ [s EXCEPT !.disposed = TRUE, !.raf = FALSE, !.timer = FALSE] \in SessionStates
         /\ \A f \in {"read", "unavailable"} : [s EXCEPT !.frames = f] \in SessionStates
         /\ Released(s) \in SessionStates
BY DEF SessionStates, Released

\* What is closed when a session stops, whoever stops it.
LEMMA DisposeFits ==
  ASSUME SiftTypeOK, dispose, page' \in PageStates, UNCHANGED source,
         config' \in Configs, clicks' \in 0 .. MaxClicks, failures' \in 0 .. MaxFailures
  PROVE  SiftInv'
<1>1. sift' \in SessionStates /\ sift'.disposed /\ ~sift'.raf /\ ~sift'.timer
  <2>1. sift' = [sift EXCEPT !.disposed = TRUE, !.raf = FALSE, !.timer = FALSE]
    BY DEF dispose
  <2>2. sift \in SessionStates
    BY DEF SiftTypeOK
  <2>3. sift' \in SessionStates
    BY <2>1, <2>2, SessionTyped
  <2> QED BY <2>1, <2>2, <2>3 DEF SessionStates
<1>2. media' \in MediaStates /\ media' = Opened'
  BY MediaFacts DEF dispose, SiftTypeOK, Opened
<1>3. events' = << >> /\ work' = << >> /\ events' \in Seq(MediaEvents) /\ work' \in Seq(Points)
  BY DEF dispose
<1>4. view' \in ViewStates /\ owned' = {}
  BY DEF dispose, ViewStates
<1> QED BY <1>1, <1>2, <1>3, <1>4 DEF SiftInv, SiftTypeOK, StoppedFits

LEMMA FailFits ==
  ASSUME SiftInv, fail, UNCHANGED source,
         config' \in Configs, clicks' \in 0 .. MaxClicks, failures' \in 0 .. MaxFailures,
         ~sift.disposed
  PROVE  SiftInv'
<1>1. dispose /\ page' = [page EXCEPT !.phase = "stopped", !.playback = Nothing]
  BY DEF fail
<1>2. page' \in PageStates
  BY <1>1 DEF SiftInv, SiftTypeOK, PageStates, Phases
<1> QED BY <1>1, <1>2, DisposeFits DEF SiftInv

\* A stopped session may still be told what it waited for.
LEMMA StoppedStays ==
  ASSUME SiftInv, sift.disposed, sift' \in SessionStates, sift'.disposed, sift'.raf = sift.raf,
         sift'.timer = sift.timer, UNCHANGED <<source, media, events, work, view, page, owned>>,
         config' \in Configs, clicks' \in 0 .. MaxClicks, UNCHANGED failures
  PROVE  SiftInv'
BY DEF SiftInv, SiftTypeOK, StoppedFits, Opened

\* A session that goes on, in parts.
LEMMA RunningFits ==
  ASSUME SiftTypeOK', ~sift'.disposed, SessionAgrees', SourceFits', SeeksClear', PointsMatch'
  PROVE  SiftInv'
BY DEF SiftInv

-----------------------------------------------------------------------------
(* Before it runs *)

LEMMA InitFits == SiftInit => SiftInv
<1> SUFFICES ASSUME SiftInit PROVE SiftInv
  OBVIOUS
<1>1. -1 \in -1 .. Duration /\ 0 \in 0 .. Duration
  BY SiftAssumption DEF Duration
<1>2. sift \in SessionStates /\ page \in PageStates /\ view \in ViewStates
  BY <1>1 DEF SiftInit, SessionStates, PageStates, Phases, ViewStates
<1>3. media \in MediaStates
  BY MediaFacts, SiftAssumption DEF SiftInit, Opened, MediaStates, Duration
<1>4. /\ events \in Seq(MediaEvents) /\ work \in Seq(Points)
      /\ source \in Sources /\ config \in Configs
      /\ clicks \in 0 .. MaxClicks /\ failures \in 0 .. MaxFailures
      /\ owned \subseteq {"worker", "stream", "url", "bitmap", "viewport", "indexer"}
  BY SiftAssumption DEF SiftInit
<1>5. SiftTypeOK
  BY <1>2, <1>3, <1>4 DEF SiftTypeOK
<1>6. SessionAgrees /\ SourceFits /\ SeeksClear /\ PointsMatch /\ ~sift.disposed
  BY DEF SiftInit, SessionAgrees, SourceFits, SeeksClear, PointsMatch, Starting, Opened
<1> QED BY <1>5, <1>6 DEF SiftInv

\* Before a session runs, only the place it waits at and a camera's media change.
LEMMA StartingFits ==
  ASSUME SiftInv, ~sift.disposed, sift.at # "running",
         NEW place \in {"worker", "permission", "play", "devices", "bitmap", "frame"}, Goes(place),
         place \in {"permission", "play", "devices"} => source = "camera",
         media' \in {media, Played(media)}, UNCHANGED <<events, work, view, page>>, Unchanged,
         owned' \subseteq {"worker", "stream", "url", "bitmap", "viewport", "indexer"}
  PROVE  SiftInv'
<1> USE DEF SiftInv, SiftTypeOK
<1>1. sift' = [sift EXCEPT !.at = place] /\ sift' \in SessionStates
  BY SessionTyped DEF Goes
<1>2. /\ sift'.at = place
      /\ sift'.disposed = sift.disposed /\ sift'.hold = sift.hold /\ sift'.raf = sift.raf
      /\ sift'.inFlight = sift.inFlight /\ sift'.current = sift.current /\ sift'.timer = sift.timer
  BY <1>1 DEF SessionStates
<1>3. media' \in MediaStates /\ media'.seeking = media.seeking
  <2>1. Played(media) \in MediaStates
    BY MediaFacts
  <2>2. Played(media).seeking = media.seeking
    BY DEF Played, MediaStates
  <2> QED BY <2>1, <2>2
<1>4. SiftTypeOK'
  BY <1>1, <1>3 DEF Unchanged
<1>5. SessionAgrees'
  BY <1>2 DEF SessionAgrees
<1>6. SourceFits'
  BY <1>2, <1>3 DEF SourceFits, Starting, Unchanged
<1>7. SeeksClear' /\ PointsMatch'
  BY <1>2, <1>3 DEF SourceFits, Starting, SeeksClear, PointsMatch
<1> QED BY <1>2, <1>4, <1>5, <1>6, <1>7, RunningFits

LEMMA FirstRequest ==
  ASSUME NEW queue \in Seq(Points), Len(queue) = 0, NEW d \in Points
  PROVE  /\ Append(queue, d) \in Seq(Points) /\ Len(Append(queue, d)) = 1
         /\ Head(Append(queue, d)) = d
BY AppendProperties, HeadTailProperties, EmptySeq

LEMMA RunsFits ==
  ASSUME SiftInv, ~sift.disposed, sift.at # "running",
         NEW open \in SUBSET {"bitmap"}, Runs(open)
  PROVE  SiftInv'
<1> USE DEF SiftInv, SiftTypeOK
<1> DEFINE s == [sift EXCEPT !.at = "running"]
<1>0. s \in SessionStates
  BY SessionTyped
<1>1. s.at = "running" /\ s.disposed = sift.disposed
      /\ s.inFlight = sift.inFlight /\ s.current = sift.current /\ s.hold = sift.hold
  BY DEF SessionStates
<1>2. sift' = capture(s) /\ work' = Requested(s)
  BY <1>1 DEF Runs, Requested, capture, NothingToCapture, schedule
<1>3. /\ UNCHANGED <<source, media, events, view, config, clicks, failures>>
      /\ page' = syncPlayback(sift, media, page)
      /\ owned' \subseteq {"worker", "stream", "url", "bitmap", "viewport", "indexer"}
  BY DEF Runs, Unchanged
<1> HIDE DEF s
<1>4. page' \in PageStates /\ page'.frame = page.frame
      /\ (source # "video" => page' = page)
  BY <1>3, PageFacts
<1>5. Starting /\ work \in Seq(Points) /\ Len(work) = 0
  BY DEF SourceFits, SessionAgrees, Starting
<1>6. /\ sift' \in SessionStates /\ sift'.at = "running" /\ ~sift'.disposed /\ ~sift'.hold
      /\ \/ ~sift'.inFlight /\ work' = work
         \/ sift'.inFlight /\ work' = Append(work, Detection(media.picture, config))
  BY <1>0, <1>1, <1>2, <1>5, CaptureFacts DEF Starting
<1>7. Detection(media.picture, config) \in Points
  BY DEF Detection, Points, MediaStates
<1>8. work' \in Seq(Points) /\ Len(work') = (IF sift'.inFlight THEN 1 ELSE 0)
      /\ (sift'.inFlight => Head(work') = Detection(media.picture, config))
  BY <1>5, <1>6, <1>7, FirstRequest
<1>9. SiftTypeOK'
  BY <1>3, <1>4, <1>6, <1>8
<1>10. SessionAgrees' /\ SourceFits' /\ SeeksClear' /\ PointsMatch'
  BY <1>3, <1>4, <1>5, <1>6, <1>8
  DEF SessionAgrees, SourceFits, SeeksClear, PointsMatch, Starting, Detection
<1> QED BY <1>6, <1>9, <1>10, RunningFits

-----------------------------------------------------------------------------
(* What the browser and the worker deliver *)

\* A session that changes nothing that the invariant speaks of.
LEMMA SameFits ==
  ASSUME SiftInv, ~sift.disposed, sift' \in SessionStates, SameSession(sift, sift'),
         sift'.hold = sift.hold, sift'.current = sift.current,
         sift.at # "running" => sift'.raf = sift.raf /\ sift'.timer = sift.timer,
         page' \in PageStates, page'.frame = page.frame,
         source # "video" => page'.playback = page.playback,
         owned' \subseteq owned, UNCHANGED <<media, events, work, view>>, Unchanged
  PROVE  SiftInv'
<1> USE DEF SiftInv, SiftTypeOK, SameSession, Unchanged
<1>1. SiftTypeOK' /\ ~sift'.disposed
  OBVIOUS
<1>2. SessionAgrees' /\ SourceFits' /\ SeeksClear' /\ PointsMatch'
  BY DEF SessionAgrees, SourceFits, SeeksClear, PointsMatch, Starting, Quiet
<1> QED BY <1>1, <1>2, RunningFits

LEMMA TimersFit ==
  ASSUME SiftInv, loadVideoFrameIndex \/ settled \/ BurstPasses
  PROVE  SiftInv'
<1> USE DEF SiftInv, SiftTypeOK
<1>1. ASSUME loadVideoFrameIndex PROVE SiftInv'
  <2>1. ~sift.disposed
    BY <1>1 DEF loadVideoFrameIndex, StoppedFits
  <2>2. PICK f \in {"read", "unavailable"} : /\ sift' = [sift EXCEPT !.frames = f]
                                             /\ page' = syncPlayback(sift', media, page)
    BY <1>1 DEF loadVideoFrameIndex
  <2>3. sift' \in SessionStates
    BY <2>2, SessionTyped
  <2>4. SameSession(sift, sift') /\ sift'.hold = sift.hold /\ sift'.current = sift.current
        /\ sift'.raf = sift.raf /\ sift'.timer = sift.timer
    BY <2>2 DEF SessionStates, SameSession
  <2>5. page' \in PageStates /\ page'.frame = page.frame /\ (source # "video" => page' = page)
    BY <2>2, <2>3, PageFacts
  <2> QED BY <1>1, <2>1, <2>3, <2>4, <2>5, SameFits DEF loadVideoFrameIndex
<1>2. ASSUME settled PROVE SiftInv'
  <2> DEFINE s == [sift EXCEPT !.timer = FALSE, !.rapid = FALSE]
  <2>1. ~sift.disposed /\ sift.at = "running"
    BY <1>2 DEF settled, StoppedFits, SourceFits, Starting
  <2>2. s \in SessionStates
    BY SessionTyped
  <2>3. SameSession(sift, s) /\ s.hold = sift.hold /\ s.current = sift.current
    BY DEF SessionStates, SameSession
  <2>4. sift' = schedule(s)
    BY <1>2 DEF settled
  <2> HIDE DEF s
  <2>5. sift' \in SessionStates /\ SameSession(sift, sift') /\ sift'.hold = sift.hold
        /\ sift'.current = sift.current
    BY <2>2, <2>3, <2>4, ScheduleFacts DEF SameSession
  <2> QED BY <1>2, <2>1, <2>5, SameFits DEF settled
<1>3. ASSUME BurstPasses PROVE SiftInv'
  <2>1. sift' = [sift EXCEPT !.recent = FALSE] /\ ~sift.disposed
    BY <1>3 DEF BurstPasses
  <2>2. sift' \in SessionStates
    BY <2>1, SessionTyped
  <2>3. SameSession(sift, sift') /\ sift'.hold = sift.hold /\ sift'.current = sift.current
        /\ sift'.raf = sift.raf /\ sift'.timer = sift.timer
    BY <2>1 DEF SessionStates, SameSession
  <2> QED BY <1>3, <2>1, <2>2, <2>3, SameFits DEF BurstPasses
<1> QED BY <1>1, <1>2, <1>3

LEMMA FrameFits ==
  ASSUME SiftInv, AnimationFrame
  PROVE  SiftInv'
<1> USE DEF SiftInv, SiftTypeOK
<1> DEFINE s == [sift EXCEPT !.raf = FALSE]
<1>1. ~sift.disposed /\ sift.at = "running"
  BY DEF AnimationFrame, StoppedFits, SourceFits, Starting
<1>2. s \in SessionStates
  BY SessionTyped
<1>3. s.at = sift.at /\ s.disposed = sift.disposed /\ s.inFlight = sift.inFlight
      /\ s.current = sift.current /\ s.hold = sift.hold
  BY DEF SessionStates
<1>4. sift' = capture(s) /\ work' = Requested(s)
      /\ UNCHANGED <<source, config, clicks, failures, media, events, view, page, owned>>
  BY DEF AnimationFrame, Unchanged
<1> HIDE DEF s
<1>5. /\ sift' \in SessionStates /\ sift'.at = "running" /\ ~sift'.disposed
      /\ sift'.hold = sift.hold
      /\ \/ sift'.inFlight = sift.inFlight /\ sift'.current = sift.current /\ work' = work
         \/ /\ ~sift.inFlight /\ sift'.inFlight /\ (source = "image" \/ ~media.seeking)
            /\ work' = Append(work, Detection(media.picture, config))
  BY <1>1, <1>2, <1>3, <1>4, CaptureFacts
<1>6. CASE sift'.inFlight = sift.inFlight /\ sift'.current = sift.current /\ work' = work
  <2>1. SiftTypeOK'
    BY <1>4, <1>5, <1>6
  <2>2. SessionAgrees' /\ SourceFits' /\ SeeksClear' /\ PointsMatch'
    BY <1>1, <1>4, <1>5, <1>6
    DEF SessionAgrees, SourceFits, SeeksClear, PointsMatch, Starting, Quiet
  <2> QED BY <1>5, <2>1, <2>2, RunningFits
<1>7. CASE /\ ~sift.inFlight /\ sift'.inFlight /\ (source = "image" \/ ~media.seeking)
           /\ work' = Append(work, Detection(media.picture, config))
  <2>1. Len(work) = 0 /\ work \in Seq(Points) /\ Detection(media.picture, config) \in Points
    BY <1>1, <1>7 DEF SessionAgrees, Detection, Points, MediaStates
  <2>2. work' \in Seq(Points) /\ Len(work') = 1 /\ Head(work') = Detection(media.picture, config)
    BY <1>7, <2>1, FirstRequest
  <2>3. ~media.seeking
    BY <1>1, <1>7 DEF SourceFits
  <2>4. SiftTypeOK'
    BY <1>4, <1>5, <2>2
  <2>5. SessionAgrees' /\ SourceFits' /\ SeeksClear'
    BY <1>1, <1>4, <1>5, <1>7, <2>2, <2>3 DEF SessionAgrees, SourceFits, SeeksClear
  <2>6. PointsMatch'
    BY <1>1, <1>4, <1>5, <2>2 DEF PointsMatch, Quiet, Detection
  <2> QED BY <1>5, <2>4, <2>5, <2>6, RunningFits
<1> QED BY <1>5, <1>6, <1>7

LEMMA AnswerFits ==
  ASSUME SiftInv, workerFrame
  PROVE  SiftInv'
<1> USE DEF SiftInv, SiftTypeOK
<1> DEFINE s == [sift EXCEPT !.inFlight = FALSE]
<1>1. ~sift.disposed /\ sift.at = "running" /\ work # << >>
  BY DEF workerFrame, StoppedFits, At
<1>2. sift.inFlight /\ Len(work) = 1
  BY <1>1, EmptySeq DEF SessionAgrees
<1>3. Head(work) \in Points /\ Tail(work) \in Seq(Points) /\ Len(Tail(work)) = 0
  BY <1>1, <1>2, HeadTailProperties
<1>4. s \in SessionStates
  BY SessionTyped
<1>5. s.at = sift.at /\ s.disposed = sift.disposed /\ ~s.inFlight
      /\ s.current = sift.current /\ s.hold = sift.hold
  BY DEF SessionStates
<1>6. UNCHANGED <<source, config, clicks, failures, media, events, owned>> /\ work' = Tail(work)
  BY DEF workerFrame, Unchanged
<1>7. ASSUME NEW t \in SessionStates, sift' = Continues(t),
             t.at = "running", ~t.disposed, ~t.inFlight
      PROVE  /\ sift' \in SessionStates /\ sift'.at = "running" /\ ~sift'.disposed
             /\ ~sift'.inFlight /\ sift'.current = t.current /\ sift'.hold = t.hold
  BY <1>7, ScheduleFacts DEF Continues, SameSession
<1>8. CASE Accepted
  <2>1. Released(s) \in SessionStates
    BY <1>4, SessionTyped
  <2>2. /\ Released(s).at = "running" /\ ~Released(s).disposed /\ ~Released(s).inFlight
        /\ Released(s).current = sift.current /\ Released(s).hold = FALSE
    BY <1>1, <1>4, <1>5 DEF Released, SessionStates
  <2>3. /\ sift' = Continues(Released(s))
        /\ view' = [points |-> Head(work), held |-> Nothing]
        /\ page' = [IF s.hold THEN syncPlayback(Released(s), media, page) ELSE page
                       EXCEPT !.frame = Head(work), !.phase = phase(media)]
    BY <1>8 DEF workerFrame
  <2> DEFINE r == Released(s)
             p == IF s.hold THEN syncPlayback(r, media, page) ELSE page
  <2>4. p \in PageStates /\ (source # "video" => p = page)
    BY <2>1, PageFacts
  <2>5. page' = [p EXCEPT !.frame = Head(work), !.phase = phase(media)]
    BY <2>3
  <2> HIDE DEF p, r, s
  <2>6. /\ sift' \in SessionStates /\ sift'.at = "running" /\ ~sift'.disposed
        /\ ~sift'.inFlight /\ sift'.current = sift.current /\ sift'.hold = FALSE
    BY <1>7, <2>1, <2>2, <2>3
  <2>7. page' \in PageStates /\ page'.frame = Head(work) /\ page'.playback = p.playback
    BY <1>3, <2>4, <2>5, MediaFacts DEF PageStates
  <2>8. view' \in ViewStates /\ view'.points = Head(work) /\ view'.held = Nothing
    BY <1>3, <2>3 DEF ViewStates
  <2>9. SiftTypeOK'
    BY <1>3, <1>6, <2>6, <2>7, <2>8
  <2>10. SessionAgrees' /\ SourceFits'
    BY <1>1, <1>3, <1>6, <2>4, <2>6, <2>7, <2>8 DEF SessionAgrees, SourceFits
  <2>11. SeeksClear' /\ PointsMatch'
    BY <1>1, <1>2, <1>6, <1>8, <2>6, <2>8 DEF SeeksClear, PointsMatch, Quiet, Accepted
  <2> QED BY <2>6, <2>9, <2>10, <2>11, RunningFits
<1>9. CASE ~Accepted
  <2>1. sift' = Continues(s) /\ UNCHANGED <<view, page>>
    BY <1>9 DEF workerFrame
  <2> HIDE DEF s
  <2>2. /\ sift' \in SessionStates /\ sift'.at = "running" /\ ~sift'.disposed
        /\ ~sift'.inFlight /\ sift'.current = sift.current /\ sift'.hold = sift.hold
    BY <1>1, <1>4, <1>5, <1>7, <2>1
  <2>3. SiftTypeOK'
    BY <1>3, <1>6, <2>1, <2>2
  <2>4. SessionAgrees' /\ SourceFits' /\ SeeksClear' /\ PointsMatch'
    BY <1>1, <1>3, <1>6, <2>1, <2>2 DEF SessionAgrees, SourceFits, SeeksClear, PointsMatch, Quiet
  <2> QED BY <2>2, <2>3, <2>4, RunningFits
<1> QED BY <1>8, <1>9

LEMMA AdvanceFits ==
  ASSUME SiftInv, MediaAdvances
  PROVE  SiftInv'
<1> USE DEF SiftInv, SiftTypeOK
<1> DEFINE m == [media EXCEPT !.time = @ + 1, !.picture = FrameOf(media.time + 1)]
<1>1. /\ ~sift.disposed /\ ~media.paused /\ media.time < Duration
      /\ UNCHANGED <<source, config, clicks, failures, sift, work, view, page, owned>>
  BY DEF MediaAdvances, Unchanged
<1>2. m \in MediaStates /\ m.seeking = media.seeking /\ ~m.paused
  <2>1. media.time + 1 \in 0 .. Duration /\ FrameOf(media.time + 1) \in 0 .. Frames - 1
    BY <1>1, SiftAssumption DEF FrameOf, Duration, MediaStates
  <2> QED BY <1>1, <2>1 DEF MediaStates
<1>3. /\ source = "camera" => media' = m /\ events' = events
      /\ source # "camera" =>
           /\ media' = AtEnd(m)
           /\ \E tick \in {<< >>, <<"timeupdate">>} : events' = events \o tick \o EndEvents(m)
  BY DEF MediaAdvances
<1> HIDE DEF m
<1>4. CASE source = "camera"
  <2>1. SiftTypeOK'
    BY <1>1, <1>2, <1>3, <1>4
  <2>2. SessionAgrees' /\ SourceFits' /\ SeeksClear' /\ PointsMatch'
    BY <1>1, <1>2, <1>3, <1>4 DEF SessionAgrees, SourceFits, SeeksClear, PointsMatch, Starting
  <2> QED BY <1>1, <2>1, <2>2, RunningFits
<1>5. CASE source # "camera"
  <2>1. PICK tick \in {<< >>, <<"timeupdate">>} : events' = events \o tick \o EndEvents(m)
    BY <1>3, <1>5
  <2>2. tick \in Seq(MediaEvents) /\ EndEvents(m) \in Seq(MediaEvents)
    BY <1>2, QueuesTyped, MediaFacts DEF MediaEvents
  <2>3. events \o tick \in Seq(MediaEvents) /\ events' \in Seq(MediaEvents)
    BY <2>1, <2>2, QueuesTyped
  <2>4. media' \in MediaStates /\ media'.seeking = media.seeking
    BY <1>2, <1>3, <1>5, MediaFacts
  <2>5. ~Quiet'
    <3>1. media'.paused => Queued("pause", EndEvents(m))
      BY <1>2, <1>3, <1>5, MediaFacts
    <3>2. Queued("pause", EndEvents(m)) => Queued("pause", events')
      BY <2>1, <2>2, <2>3, QueuedLater
    <3> QED BY <3>1, <3>2 DEF Quiet
  <2>6. sift.at = "running"
    BY <1>1, <1>5 DEF MediaAdvances, SourceFits
  <2>7. SiftTypeOK'
    BY <1>1, <2>3, <2>4
  <2>8. SessionAgrees' /\ SourceFits' /\ SeeksClear' /\ PointsMatch'
    BY <1>1, <2>4, <2>5, <2>6 DEF SessionAgrees, SourceFits, SeeksClear, PointsMatch
  <2> QED BY <1>1, <2>7, <2>8, RunningFits
<1> QED BY <1>4, <1>5

LEMMA SeekFits ==
  ASSUME SiftInv, SeekIsDone
  PROVE  SiftInv'
<1> USE DEF SiftInv, SiftTypeOK
<1> DEFINE m == [media EXCEPT !.seeking = FALSE, !.opening = FALSE,
                              !.picture = FrameOf(media.time)]
<1>1. /\ media.seeking
      /\ UNCHANGED <<source, config, clicks, failures, sift, work, view, page, owned>>
      /\ media' = AtEnd(m) /\ events' = Append(events, "seeked") \o EndEvents(m)
  BY DEF SeekIsDone, Unchanged
<1>2. ~sift.disposed /\ sift.at = "running" /\ source = "video"
  BY <1>1 DEF StoppedFits, Opened, SourceFits, Starting
<1>3. m \in MediaStates /\ ~m.seeking
  <2>1. FrameOf(media.time) \in 0 .. Frames - 1
    BY SiftAssumption DEF FrameOf, Duration, MediaStates
  <2> QED BY <2>1 DEF MediaStates
<1> HIDE DEF m
<1>4. media' \in MediaStates /\ ~media'.seeking /\ EndEvents(m) \in Seq(MediaEvents)
  BY <1>1, <1>3, MediaFacts
<1>5. Append(events, "seeked") \in Seq(MediaEvents)
  BY QueuedLast DEF MediaEvents
<1>6. events' \in Seq(MediaEvents)
  BY <1>1, <1>4, <1>5, QueuesTyped
<1>7. SiftTypeOK'
  BY <1>1, <1>4, <1>6
<1>8. SessionAgrees' /\ SourceFits' /\ SeeksClear' /\ PointsMatch'
  BY <1>1, <1>2, <1>4 DEF SessionAgrees, SourceFits, SeeksClear, PointsMatch
<1> QED BY <1>1, <1>2, <1>7, <1>8, RunningFits

\* Everything that makes a session capture again: what counts of the present
\* detection no longer does, and points that are not held go.
LEMMA RefreshFits ==
  ASSUME SiftInv, ~sift.disposed, sift.at = "running",
         NEW s \in SessionStates, SameSession(sift, s), sift' = refresh(s),
         view' \in ViewStates, s.hold <=> view'.held # Nothing,
         view'.points = Nothing \/ s.hold,
         page' \in PageStates, page'.frame = view'.points,
         source # "video" => page'.playback = page.playback /\ ~media'.seeking,
         media' \in MediaStates, events' \in Seq(MediaEvents),
         config' \in Configs, clicks' \in 0 .. MaxClicks,
         UNCHANGED <<source, work, owned, failures>>
  PROVE  SiftInv'
<1> USE DEF SiftInv, SiftTypeOK
<1>1. sift' \in SessionStates /\ sift'.at = "running" /\ ~sift'.disposed
      /\ sift'.inFlight = sift.inFlight /\ ~sift'.current /\ sift'.hold = s.hold
  BY RefreshFacts DEF SameSession
<1>2. SiftTypeOK'
  BY <1>1
<1>3. SessionAgrees' /\ SourceFits' /\ SeeksClear' /\ PointsMatch'
  BY <1>1 DEF SessionAgrees, SourceFits, SeeksClear, PointsMatch
<1> QED BY <1>1, <1>2, <1>3, RunningFits


-----------------------------------------------------------------------------
(* What the user does *)

LEMMA RefreshesFits ==
  ASSUME SiftInv, Refreshes, config' \in Configs, clicks' \in 0 .. MaxClicks,
         UNCHANGED <<source, failures>>
  PROVE  SiftInv'
<1> USE DEF SiftInv, SiftTypeOK
<1>0. UNCHANGED <<source, failures, media, events, work, owned>>
  BY DEF Refreshes
<1>1. CASE sift.disposed
  <2>1. UNCHANGED <<sift, view, page>>
    BY <1>1 DEF Refreshes, At
  <2> QED BY <1>0, <1>1, <2>1, StoppedStays
<1>2. CASE ~sift.disposed /\ sift.at # "running"
  <2>1. UNCHANGED <<sift, view, page>>
    BY <1>2 DEF Refreshes, At
  <2>2. SiftTypeOK' /\ ~sift'.disposed
    BY <1>0, <1>2, <2>1
  <2>3. SessionAgrees' /\ SourceFits' /\ SeeksClear' /\ PointsMatch'
    BY <1>0, <1>2, <2>1 DEF SessionAgrees, SourceFits, SeeksClear, PointsMatch, Starting
  <2> QED BY <2>2, <2>3, RunningFits
<1>3. CASE ~sift.disposed /\ sift.at = "running"
  <2>1. sift' = refresh(sift) /\ view' = clearPoints(sift, view) /\ page' = refreshPage(sift, page)
    BY <1>3 DEF Refreshes, At
  <2>2. /\ view' \in ViewStates /\ view'.held = view.held
        /\ view'.points = IF sift.hold THEN view.points ELSE Nothing
    BY <2>1, ViewFacts
  <2>3. /\ page' \in PageStates /\ page'.playback = page.playback
        /\ page'.frame = IF sift.hold THEN page.frame ELSE Nothing
    BY <2>1, PageFacts
  <2> QED BY <1>0, <1>3, <2>1, <2>2, <2>3, RefreshFits
          DEF SameSession, SessionAgrees, SourceFits
<1> QED BY <1>1, <1>2, <1>3

\* What a control finds: a video that runs.
LEMMA ControlsFind ==
  ASSUME SiftInv, Controls
  PROVE  ~sift.disposed /\ sift.at = "running" /\ source = "video"
BY DEF Controls, At, SiftInv, SourceFits

LEMMA ClickFits ==
  ASSUME SiftTypeOK, Click
  PROVE  clicks' \in 0 .. MaxClicks /\ UNCHANGED <<source, failures>>
BY SiftAssumption DEF Click, SiftTypeOK

LEMMA ToggleFits ==
  ASSUME SiftInv, togglePlayback
  PROVE  SiftInv'
<1> USE DEF SiftInv, SiftTypeOK
<1>1. /\ ~sift.disposed /\ sift.at = "running" /\ source = "video"
      /\ clicks' \in 0 .. MaxClicks /\ UNCHANGED <<source, failures, work, owned, config>>
  BY ControlsFind, ClickFits DEF togglePlayback
<1>2. CASE ~media.paused
  <2>1. /\ media' = Paused(media) /\ events' = events \o PauseEvents(media)
        /\ UNCHANGED <<sift, view, page>>
    BY <1>2 DEF togglePlayback
  <2>2. media' \in MediaStates /\ media'.seeking = media.seeking
    BY <2>1, MediaFacts DEF Paused, MediaStates
  <2>3. PauseEvents(media) \in Seq(MediaEvents) /\ Queued("pause", PauseEvents(media))
    BY <1>2, MediaFacts
  <2>4. events' \in Seq(MediaEvents) /\ Queued("pause", events')
    BY <2>1, <2>3, QueuesTyped, QueuedLater
  <2>5. SiftTypeOK'
    BY <1>1, <2>1, <2>2, <2>4
  <2>6. SessionAgrees' /\ SourceFits' /\ SeeksClear' /\ PointsMatch'
    BY <1>1, <2>1, <2>2, <2>4
    DEF SessionAgrees, SourceFits, SeeksClear, PointsMatch, Quiet
  <2> QED BY <1>1, <2>1, <2>5, <2>6, RunningFits
<1>3. CASE media.paused
  <2> DEFINE s == resetStepping(sift)
             m == IF Ended(media) THEN Sought(media, 0) ELSE media
             seek == IF Ended(media) THEN <<"seeking">> ELSE << >>
  <2>1. /\ sift' = refresh(s) /\ view' = [points |-> Nothing, held |-> Nothing]
        /\ page' = refreshPage(s, page) /\ media' = Played(m)
        /\ events' = events \o seek \o <<"play">>
    BY <1>3 DEF togglePlayback
  <2>2. s \in SessionStates /\ SameSession(sift, s) /\ ~s.hold
    BY ResetFacts
  <2>3. m \in MediaStates
    <3>1. 0 \in 0 .. Duration
      BY SiftAssumption DEF Duration
    <3>2. media \in MediaStates /\ Sought(media, 0) \in MediaStates
      BY <3>1, MediaFacts
    <3> QED BY <3>2
  <2>4. seek \in Seq(MediaEvents) /\ <<"play">> \in Seq(MediaEvents)
    BY QueuesTyped DEF MediaEvents
  <2> HIDE DEF s, m, seek
  <2>5. media' \in MediaStates
    BY <2>1, <2>3, MediaFacts
  <2>6. events' \in Seq(MediaEvents)
    BY <2>1, <2>4, QueuesTyped
  <2>7. view' \in ViewStates /\ view'.points = Nothing /\ view'.held = Nothing
    BY <2>1 DEF ViewStates
  <2>8. page' \in PageStates /\ page'.frame = Nothing
    BY <2>1, <2>2, PageFacts
  <2> QED BY <1>1, <2>1, <2>2, <2>5, <2>6, <2>7, <2>8, RefreshFits
<1> QED BY <1>2, <1>3

LEMMA StepFits ==
  ASSUME SiftInv, stepFrame
  PROVE  SiftInv'
<1> USE DEF SiftInv, SiftTypeOK
<1>1. /\ ~sift.disposed /\ sift.at = "running" /\ source = "video"
      /\ clicks' \in 0 .. MaxClicks /\ UNCHANGED <<source, failures, work, owned, config>>
  BY ControlsFind, ClickFits DEF stepFrame
<1> DEFINE s == Stepping(sift)
<1>2. PICK next \in 0 .. Frames - 1 :
        /\ sift' = refresh(s)
        /\ view' = clearPoints(s, SteppingView(sift))
        /\ media' = Sought(Paused(media), next)
        /\ events' = events \o PauseEvents(media) \o <<"seeking">>
        /\ page' = syncPlayback(s, Sought(Paused(media), next), refreshPage(s, page))
  BY DEF stepFrame
<1>3. s \in SessionStates /\ SameSession(sift, s) /\ s.hold = ~sift.recent
  BY SteppingFacts
<1> HIDE DEF s
<1>4. next \in 0 .. Duration
  BY SiftAssumption DEF Duration
<1>5. Paused(media) \in MediaStates /\ media' \in MediaStates
  BY <1>2, <1>4, MediaFacts
<1>6. events' \in Seq(MediaEvents)
  <2>1. PauseEvents(media) \in Seq(MediaEvents) /\ <<"seeking">> \in Seq(MediaEvents)
    BY MediaFacts, QueuesTyped DEF MediaEvents
  <2> QED BY <1>2, <2>1, QueuesTyped
<1>7. /\ SteppingView(sift) \in ViewStates /\ SteppingView(sift).points = view.points
      /\ SteppingView(sift).held # Nothing <=> ~sift.recent
  BY ViewFacts DEF SteppingView
<1>8. /\ view' \in ViewStates
      /\ view'.held # Nothing <=> s.hold
      /\ view'.points = IF s.hold THEN view.points ELSE Nothing
  BY <1>2, <1>3, <1>7, ViewFacts
<1>9. refreshPage(s, page) \in PageStates
      /\ refreshPage(s, page).frame = IF s.hold THEN page.frame ELSE Nothing
  BY <1>3, <1>5, PageFacts
<1>10. page' \in PageStates /\ page'.frame = IF s.hold THEN page.frame ELSE Nothing
  BY <1>2, <1>3, <1>5, <1>9, PageFacts
<1>11. page'.frame = view'.points /\ (view'.points = Nothing \/ s.hold)
  BY <1>1, <1>8, <1>10 DEF SessionAgrees
<1> QED BY <1>1, <1>2, <1>3, <1>5, <1>6, <1>8, <1>10, <1>11, RefreshFits

LEMMA SeekToFits ==
  ASSUME SiftInv, seekTo
  PROVE  SiftInv'
<1> USE DEF SiftInv, SiftTypeOK
<1>1. /\ ~sift.disposed /\ sift.at = "running" /\ source = "video"
      /\ clicks' \in 0 .. MaxClicks /\ UNCHANGED <<source, failures, work, owned, config>>
  BY ControlsFind, ClickFits DEF seekTo
<1> DEFINE s == resetStepping(sift)
<1>2. PICK seconds \in 0 .. Duration :
        /\ sift' = refresh(s)
        /\ view' = [points |-> Nothing, held |-> Nothing]
        /\ media' = Sought(media, seconds)
        /\ events' = Append(events, "seeking")
        /\ page' = syncPlayback(s, Sought(media, seconds), refreshPage(s, page))
  BY DEF seekTo
<1>3. s \in SessionStates /\ SameSession(sift, s) /\ ~s.hold
  BY ResetFacts
<1> HIDE DEF s
<1>4. media' \in MediaStates
  BY <1>2, MediaFacts
<1>5. events' \in Seq(MediaEvents)
  BY <1>2, QueuedLast DEF MediaEvents
<1>6. view' \in ViewStates /\ view'.points = Nothing /\ view'.held = Nothing
  BY <1>2 DEF ViewStates
<1>7. refreshPage(s, page) \in PageStates /\ refreshPage(s, page).frame = Nothing
  BY <1>3, <1>4, PageFacts
<1>8. page' \in PageStates /\ page'.frame = Nothing
  BY <1>2, <1>3, <1>4, <1>7, PageFacts
<1> QED BY <1>1, <1>2, <1>3, <1>4, <1>5, <1>6, <1>8, RefreshFits


LEMMA EventFits ==
  ASSUME SiftInv, MediaEvent
  PROVE  SiftInv'
<1> USE DEF SiftInv, SiftTypeOK
<1> DEFINE synced == syncPlayback(sift, media, page)
<1>1. /\ events # << >> /\ UNCHANGED <<source, config, clicks, failures>>
  BY DEF MediaEvent, Unchanged
<1>2. ~sift.disposed /\ sift.at = "running"
  BY <1>1 DEF StoppedFits, SourceFits, Starting
<1>3. /\ Head(events) \in MediaEvents /\ Tail(events) \in Seq(MediaEvents)
      /\ \A e : Queued(e, events) <=> e = Head(events) \/ Queued(e, Tail(events))
  BY <1>1, QueuedFirst
<1>4. CASE Head(events) = "interrupted"
  <2>1. fail
    BY <1>1, <1>4 DEF MediaEvent
  <2> QED BY <1>1, <1>2, <2>1, FailFits
<1>5. CASE Head(events) # "interrupted"
  <2>1. events' = Tail(events) /\ UNCHANGED <<media, work, owned>>
    BY <1>5 DEF MediaEvent
  <2>2. /\ synced \in PageStates /\ synced.frame = page.frame
        /\ source # "video" => synced = page
    BY PageFacts
  <2>3. CASE Head(events) \in {"pause", "seeking"}
    <3>1. page' = refreshPage(sift, synced) /\ sift' = refresh(sift)
          /\ view' = clearPoints(sift, view)
      BY <1>1, <2>3 DEF MediaEvent
    <3> HIDE DEF synced
    <3>2. /\ view' \in ViewStates /\ view'.held = view.held
          /\ view'.points = IF sift.hold THEN view.points ELSE Nothing
      BY <3>1, ViewFacts
    <3>3. /\ page' \in PageStates /\ page'.playback = synced.playback
          /\ page'.frame = IF sift.hold THEN synced.frame ELSE Nothing
      BY <2>2, <3>1, PageFacts
    <3>4. /\ sift.hold <=> view'.held # Nothing
          /\ view'.points = Nothing \/ sift.hold
          /\ page'.frame = view'.points
          /\ source # "video" => page'.playback = page.playback /\ ~media'.seeking
      BY <1>2, <2>1, <2>2, <3>2, <3>3 DEF SessionAgrees, SourceFits
    <3>5. SameSession(sift, sift)
      BY DEF SameSession
    <3> QED BY <1>1, <1>2, <1>3, <2>1, <3>1, <3>2, <3>3, <3>4, <3>5, RefreshFits
  <2>4. CASE Head(events) \notin {"pause", "seeking"}
    <3>1. /\ \/ page' = synced
             \/ page' = [synced EXCEPT !.phase = phase(media)]
          /\ sift' = sift \/ sift' = schedule(sift)
          /\ view' = view
      BY <1>1, <1>3, <1>5, <2>4 DEF MediaEvent, MediaEvents
    <3> HIDE DEF synced
    <3>2. /\ page' \in PageStates /\ page'.frame = page.frame
          /\ page'.playback = synced.playback
      BY <2>2, <3>1, MediaFacts DEF PageStates
    <3>3. /\ sift' \in SessionStates /\ SameSession(sift, sift')
          /\ sift'.hold = sift.hold /\ sift'.current = sift.current
      BY <3>1, ScheduleFacts DEF SameSession
    <3>4. SiftTypeOK' /\ ~sift'.disposed
      BY <1>1, <1>2, <1>3, <2>1, <3>1, <3>2, <3>3 DEF SameSession
    <3>5. SessionAgrees' /\ SourceFits' /\ SeeksClear'
      BY <1>1, <1>2, <2>1, <2>2, <3>1, <3>2, <3>3
      DEF SessionAgrees, SourceFits, SeeksClear, SameSession
    <3>6. Quiet' => Quiet
      BY <1>3, <2>1, <2>4 DEF Quiet
    <3>7. PointsMatch'
      BY <1>1, <1>2, <2>1, <3>1, <3>3, <3>6 DEF PointsMatch, SameSession, Detection
    <3> QED BY <3>4, <3>5, <3>7, RunningFits
  <2> QED BY <2>3, <2>4
<1> QED BY <1>4, <1>5

-----------------------------------------------------------------------------
(* Every step *)

LEMMA StepsFit ==
  ASSUME SiftInv, SiftNext
  PROVE  SiftInv'
<1>1. CASE Abandoned
  <2>1. sift' = [sift EXCEPT !.at = "over"] /\ sift.disposed
    BY <1>1 DEF Abandoned, Goes
  <2>2. sift' \in SessionStates
    BY <2>1, SessionTyped DEF SiftInv, SiftTypeOK
  <2>3. sift'.disposed /\ sift'.raf = sift.raf /\ sift'.timer = sift.timer
    BY <2>1 DEF SiftInv, SiftTypeOK, SessionStates
  <2>4. config' \in Configs /\ clicks' \in 0 .. MaxClicks /\ UNCHANGED failures
        /\ UNCHANGED <<source, media, events, work, view, page, owned>>
    BY <1>1 DEF Abandoned, Unchanged, SiftInv, SiftTypeOK
  <2> QED BY <2>1, <2>2, <2>3, <2>4, StoppedStays
<1>2. CASE workerReady
  <2> DEFINE place == CASE source = "camera" -> "permission"
                        [] source = "image" -> "bitmap"
                        [] source = "video" -> "frame"
  <2>1. /\ sift.at = "worker" /\ ~sift.disposed /\ Goes(place)
        /\ UNCHANGED <<media, events, work, view, page>> /\ Unchanged
        /\ owned' = IF source = "video" THEN owned \cup {"url"} ELSE owned
    BY <1>2 DEF workerReady, At
  <2>2. source \in {"camera", "image", "video"}
    BY SiftAssumption DEF SiftInv, SiftTypeOK
  <2>3. /\ place \in {"worker", "permission", "play", "devices", "bitmap", "frame"}
        /\ place \in {"permission", "play", "devices"} => source = "camera"
    BY <2>2
  <2>4. owned' \subseteq {"worker", "stream", "url", "bitmap", "viewport", "indexer"}
    BY <2>1 DEF SiftInv, SiftTypeOK
  <2> HIDE DEF place
  <2> QED BY <2>1, <2>3, <2>4, StartingFits
<1>3. CASE getUserMedia /\ ~sift.disposed
  <2>1. /\ sift.at = "permission" /\ Goes("play") /\ owned' = owned \cup {"stream"}
        /\ media' = Played(media) /\ UNCHANGED <<events, work, view, page>> /\ Unchanged
    BY <1>3 DEF getUserMedia, At
  <2>2. owned' \subseteq {"worker", "stream", "url", "bitmap", "viewport", "indexer"}
    BY <2>1 DEF SiftInv, SiftTypeOK
  <2>3. source = "camera"
    BY <1>3, <2>1 DEF SiftInv, SourceFits
  <2> QED BY <1>3, <2>1, <2>2, <2>3, StartingFits
<1>4. CASE (getUserMedia \/ createImageBitmap) /\ sift.disposed
  <2>1. sift' = [sift EXCEPT !.at = "over"]
        /\ UNCHANGED <<media, events, work, view, page, owned>> /\ Unchanged
    BY <1>4 DEF getUserMedia, createImageBitmap, Goes
  <2>2. sift' \in SessionStates
    BY <2>1, SessionTyped DEF SiftInv, SiftTypeOK
  <2>3. sift'.disposed /\ sift'.raf = sift.raf /\ sift'.timer = sift.timer
    BY <1>4, <2>1 DEF SiftInv, SiftTypeOK, SessionStates
  <2>4. config' \in Configs /\ clicks' \in 0 .. MaxClicks /\ UNCHANGED <<source, failures>>
    BY <2>1 DEF Unchanged, SiftInv, SiftTypeOK
  <2> QED BY <1>4, <2>1, <2>2, <2>3, <2>4, StoppedStays
<1>5. CASE cameraPlays
  <2>1. /\ sift.at = "play" /\ ~sift.disposed /\ Goes("devices")
        /\ UNCHANGED <<media, events, work, view, page, owned>> /\ Unchanged
    BY <1>5 DEF cameraPlays, At
  <2>2. owned' \subseteq {"worker", "stream", "url", "bitmap", "viewport", "indexer"}
    BY <2>1 DEF SiftInv, SiftTypeOK
  <2>3. source = "camera"
    BY <2>1 DEF SiftInv, SourceFits
  <2> QED BY <2>1, <2>2, <2>3, StartingFits
<1>6. CASE enumerateDevices \/ loadVideoFrame \/ (createImageBitmap /\ ~sift.disposed)
  BY <1>6, RunsFits DEF enumerateDevices, loadVideoFrame, createImageBitmap, At
<1>7. CASE Failure
  <2>1. failures' \in 0 .. MaxFailures /\ config' \in Configs /\ clicks' \in 0 .. MaxClicks
    BY <1>7, SiftAssumption DEF Failure, SiftInv, SiftTypeOK
  <2> QED BY <1>7, <2>1, FailFits DEF Failure
<1>8. CASE Stop
  <2>1. clicks' \in 0 .. MaxClicks /\ UNCHANGED <<source, failures, page, config>> /\ dispose
    BY <1>8, ClickFits DEF Stop, SiftInv
  <2> QED BY <2>1, DisposeFits DEF SiftInv, SiftTypeOK
<1>9. CASE ChangeConfig \/ repeatDetection
  <2>1. clicks' \in 0 .. MaxClicks /\ UNCHANGED <<source, failures>> /\ Refreshes
    BY <1>9, ClickFits DEF ChangeConfig, repeatDetection, SiftInv
  <2>2. config' \in Configs
    BY <1>9 DEF ChangeConfig, repeatDetection, SiftInv, SiftTypeOK
  <2> QED BY <2>1, <2>2, RefreshesFits
<1> QED BY <1>1, <1>2, <1>3, <1>4, <1>5, <1>6, <1>7, <1>8, <1>9, TimersFit, FrameFits, AnswerFits,
           AdvanceFits, SeekFits, EventFits, ToggleFits, StepFits, SeekToFits
        DEF SiftNext, Initializes, Browser, User

LEMMA SiftInvStays == SiftSpec => []SiftInv
<1>1. ASSUME SiftInv, [SiftNext]_siftVars PROVE SiftInv'
  <2>1. CASE UNCHANGED siftVars
    BY <1>1, <2>1 DEF siftVars, SiftInv, SiftTypeOK, SessionAgrees, SourceFits, SeeksClear,
       PointsMatch, StoppedFits, Starting, Quiet, Opened
  <2> QED BY <1>1, <2>1, StepsFit
<1> QED BY <1>1, InitFits, PTL DEF SiftSpec

\* ScreenAgrees of every configuration, video and series of clicks: a late
\* answer never gets on the screen, and what is held, drawn, counted and under
\* way agrees (worker.onmessage of createSiftSession, and createSiftViewport).
THEOREM ScreenStaysInAgreement == SiftSpec => []ScreenAgrees
<1>1. SiftInv => ScreenAgrees
  BY QueuedOne DEF SiftInv, SessionAgrees, PointsMatch, Quiet, ScreenAgrees, StillPointsMatch, At
<1> QED BY <1>1, SiftInvStays, PTL

\* StoppedSessionsRest of every configuration and video: however a session
\* stopped, nothing stays open and the page and the viewport hear no more of it
\* (dispose, and every "if (disposed)" of initialize).
THEOREM StoppedSessionsStayAtRest == SiftSpec => StoppedSessionsRest
<1> DEFINE Rests == (sift'.disposed => owned' = {}) /\ (sift.disposed => UNCHANGED <<page, view>>)
<1>1. ASSUME SiftInv, SiftNext, sift.disposed PROVE UNCHANGED <<page, view>>
  <2>1. /\ owned = {} /\ ~sift.raf /\ ~sift.timer /\ events = << >> /\ work = << >>
        /\ ~media.seeking
    BY <1>1 DEF SiftInv, StoppedFits, Opened
  <2>2. CASE Initializes \/ getUserMedia
    BY <1>1, <2>2 DEF Initializes, getUserMedia, Abandoned, workerReady, cameraPlays,
       enumerateDevices, createImageBitmap, loadVideoFrame
  <2>3. CASE Browser
    BY <1>1, <2>1, <2>3 DEF Browser, loadVideoFrameIndex, AnimationFrame, workerFrame, settled,
       BurstPasses, MediaAdvances, SeekIsDone, MediaEvent
  <2>4. CASE Failure \/ User
    BY <1>1, <2>4 DEF Failure, User, Stop, ChangeConfig, repeatDetection, Refreshes,
       togglePlayback, stepFrame, seekTo, Controls
  <2> QED BY <1>1, <2>2, <2>3, <2>4 DEF SiftNext
<1>2. SiftInv' /\ sift'.disposed => owned' = {}
  BY DEF SiftInv, StoppedFits
<1>3. ASSUME SiftInv, SiftInv', [SiftNext]_siftVars PROVE [Rests]_siftVars
  BY <1>1, <1>2, <1>3
<1> QED BY <1>3, SiftInvStays, PTL DEF SiftSpec, StoppedSessionsRest
=============================================================================
