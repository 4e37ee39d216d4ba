---------------------------- MODULE SceneClouds ----------------------------
(***************************************************************************)
(* The Gaussian clouds of a project's scene, from the list of scene        *)
(* objects and a placement under way down to the GPU                       *)
(* (frontend/packages/scene-runtime/src/surface and                        *)
(* frontend/packages/features/scene-models/src/scene).                     *)
(*                                                                         *)
(* Every cloud, and the preview of a placement, is one React surface that  *)
(* leases an entry of GaussianCloudResourceCache.  React runs the effects  *)
(* of all surfaces again whenever the list or the placement changes, since *)
(* the world matrices are then new: the old leases are released, the new   *)
(* ones acquired, and only a microtask later does the cache dispose of     *)
(* what nobody leases.  Below it a backend, tiles on WebGPU or Spark on    *)
(* WebGL, loads clouds and keeps the pass that draws them.                 *)
(***************************************************************************)
EXTENDS Integers, Sequences, SequencesExt, FiniteSets, FiniteSetsExt

CONSTANTS
  Clouds,          \* identities of scene objects
  First,           \* those the project has when it is opened
  Spots,           \* where a cloud may stand
  Nobody,          \* no placement, no request, no spot
  MaxPlacements,   \* bound: placements the user starts
  MaxTurns         \* bound: reads of the list, requests refused, loads failed and
                   \* changes of the depth output and of the lidar, together

ASSUME SceneAssumption ==
  /\ First \subseteq Clouds /\ IsFiniteSet(First)
  /\ Clouds \cap Int = {} /\ Spots # {} /\ Nobody \notin Spots
  /\ {MaxPlacements, MaxTurns} \subseteq Nat

VARIABLES
  signed,     \* whether reads sign the download URLs anew
  scene,      \* the list read last and the state of the placement hook
  surfaces,   \* the mounted surfaces, by React key
  resources,      \* the entries the cache has made, in order
  releases,   \* entries with a release microtask queued
  backend,    \* the rendering backend
  turns       \* how many there were

sceneVars == <<signed, scene, surfaces, resources, releases, backend, turns>>
-----------------------------------------------------------------------------
(* What SceneClouds renders.  Placement keys are positive numbers; 0 is no *)
(* key.  A cloud new since the placement, of its asset and at its spot, is *)
(* the placed one; it takes over the key and with it the surface.          *)

placedCloud(s) ==
  IF s.placed = Nobody THEN {}
  ELSE LET new == {c \in DOMAIN s.clouds \ s.placed.before : s.clouds[c] = s.placed.spot}
       IN IF new = {} THEN {} ELSE {CHOOSE c \in new : TRUE}

(* Mutant: a saved cloud forgets the key of its placement. *)
resourceKeyForCloud_Untransferred(s, c) ==
  IF c \in placedCloud(s) THEN s.placed.key ELSE 0

resourceKeyForCloud(s, c) ==
  IF s.transferred[c] # 0 THEN s.transferred[c]
  ELSE IF c \in placedCloud(s) THEN s.placed.key ELSE 0

Candidates(s) ==
  ({s.preview} \cup (IF s.placed = Nobody THEN {} ELSE {s.placed.key})) \ {0}

Surfaces(s) ==
  LET saved == {[react |-> IF resourceKeyForCloud(s, c) = 0 THEN c
                           ELSE resourceKeyForCloud(s, c),
                 cloud |-> c, key |-> resourceKeyForCloud(s, c), url |-> s.url]
                  : c \in DOMAIN s.clouds}
      previews == {[react |-> k, cloud |-> Nobody, key |-> k, url |-> 0]
                     : k \in Candidates(s) \ {w.key : w \in saved}}
  IN IF s.mounted THEN saved \cup previews ELSE {}

-----------------------------------------------------------------------------
(* GaussianCloudResourceCache. *)

(* A key finds its entry whatever the source; without one, name and source *)
(* must be the same.                                                       *)
SameResource(e, w) ==
  IF w.key = 0 THEN e.key = 0 /\ e.cloud = w.cloud /\ e.url = w.url
  ELSE e.key = w.key

(* Mutant: an entry whose load has failed is found again. *)
Found_Failed(w) ==
  {i \in DOMAIN resources : ~resources[i].disposed /\ SameResource(resources[i], w)}

Found(w) ==
  {i \in DOMAIN resources :
     resources[i].listed /\ ~resources[i].disposed /\ SameResource(resources[i], w)}

Entry(w) ==
  [key |-> w.key, cloud |-> w.cloud, url |-> w.url,
   listed |-> TRUE, disposed |-> FALSE, stage |-> "download"]

(* acquire, by each of the surfaces in turn: the entry found, or a new one. *)
acquire(ws, new) ==
  [w \in ws |-> IF Found(w) # {} THEN Min(Found(w))
                ELSE Len(resources) + CHOOSE n \in DOMAIN new : new[n] = w]

(* An entry's users. *)
Leases == {surfaces[k].lease : k \in DOMAIN surfaces}
-----------------------------------------------------------------------------
(* The passes of TileGaussianRenderingBackend: 0 is none.  The clouds' own *)
(* layer and the lidar's frame layer are registered with the pipeline.     *)

LayersOf(p) == {<<"clouds", p>>, <<"lidar", p>>}

syncLidarFrame(b) ==
  [b EXCEPT !.layers = (@ \ {<<"lidar", b.pass>>})
              \cup (IF b.pass # 0 /\ b.lidar /\ ~b.disposed
                    THEN {<<"lidar", b.pass>>} ELSE {})]

recreatePass(b) ==
  LET p == CHOOSE n \in 1 .. 3 : n \notin b.passes
      new == [b EXCEPT !.pass = p, !.passes = @ \cup {p},
                       !.layers = (@ \ {<<"lidar", b.pass>>}) \cup {<<"clouds", p>>}]
  IN [syncLidarFrame(new) EXCEPT !.layers = @ \ {<<"clouds", b.pass>>},
                                 !.passes = @ \ {b.pass}]

ensurePass(b) == IF b.tiles /\ b.pass = 0 THEN recreatePass(b) ELSE b

disposePass(b) ==
  [b EXCEPT !.layers = @ \ LayersOf(b.pass), !.passes = @ \ {b.pass}, !.pass = 0]

(* Loads or clouds have gone; the last one takes the pass with it. *)
Without(b, gone) ==
  LET rest == [b EXCEPT !.clouds = @ \ gone, !.loads = @ \ gone, !.alive = @ \ gone]
  IN IF gone # {} /\ rest.clouds = {} /\ rest.loads = {} THEN disposePass(rest) ELSE rest

setDepthEnabled(b, on) ==
  IF b.depth = on THEN b
  ELSE IF b.pass # 0 THEN recreatePass([b EXCEPT !.depth = on]) ELSE [b EXCEPT !.depth = on]

(* createCloud, up to its first await; Spark's mesh exists from the start. *)
createClouds(b, new) ==
  IF new = {} THEN b
  ELSE [ensurePass(b) EXCEPT !.loads = @ \cup new,
                             !.alive = IF b.tiles THEN @ ELSE @ \cup new]
-----------------------------------------------------------------------------
(* React commits a scene: the effects of all surfaces run again. *)
Before(w) == IF w.react \in DOMAIN surfaces THEN surfaces[w.react]
             ELSE [loaded |-> 0, failed |-> FALSE]

(* An error is shown for the source and the cloud that it was met with. *)
StillFailed(w) == LET p == Before(w) IN p.failed /\ p.cloud = w.cloud /\ p.url = w.url

Commits(s, b) ==
  \E ws \in {Surfaces(s)} :
  \E new \in {SetToSeq({w \in ws : Found(w) = {}})} :
  \E lease \in {acquire(ws, new)} :
    LET Ready(w) == lease[w] \in DOMAIN resources /\ resources[lease[w]].stage = "ready"
        Surface(w) == [cloud |-> w.cloud, key |-> w.key, url |-> w.url, lease |-> lease[w],
                       loaded |-> IF Ready(w) THEN lease[w] ELSE Before(w).loaded,
                       failed |-> StillFailed(w) /\ ~Ready(w)]
    IN /\ scene' = s
       /\ resources' = resources \o [n \in DOMAIN new |-> Entry(new[n])]
       /\ releases' = releases \cup Leases
       /\ surfaces' = [k \in {w.react : w \in ws} |->
                         Surface(CHOOSE w \in ws : w.react = k)]
       /\ backend' = createClouds(b, Len(resources) + 1 .. Len(resources) + Len(new))

(* The event loop runs the microtasks before the next task. *)
Task == releases = {}

Turn == turns < MaxTurns /\ turns' = turns + 1

SceneInit ==
  /\ signed \in BOOLEAN
  /\ \E list \in [First -> Spots] :
       scene = [mounted |-> FALSE, timer |-> FALSE, clouds |-> list, url |-> 0,
                preview |-> 0, placed |-> Nobody, adding |-> Nobody,
                transferred |-> [c \in Clouds |-> 0], next |-> 0]
  /\ surfaces = << >> /\ resources = << >> /\ releases = {}
  /\ \E tiles \in BOOLEAN :
       backend = [tiles |-> tiles, disposed |-> FALSE, depth |-> FALSE, lidar |-> FALSE,
                  loads |-> {}, clouds |-> {}, alive |-> {}, pass |-> 0,
                  passes |-> {}, layers |-> {}]
  /\ turns = 0
-----------------------------------------------------------------------------
(* The list of scene objects and the user. *)

Read(s, list) == [s EXCEPT !.clouds = list, !.url = IF signed THEN @ + 1 ELSE @]

(* The identity of a cloud that comes is new: it has left no key behind.   *)
Fresh == {c \in Clouds \ DOMAIN scene.clouds : scene.transferred[c] = 0}

Plus(c, spot) ==
  [d \in DOMAIN scene.clouds \cup {c} |-> IF d = c THEN spot ELSE scene.clouds[d]]

Added == {Plus(c, spot) : c \in Fresh, spot \in Spots}
Removed == {[d \in DOMAIN scene.clouds \ {c} |-> scene.clouds[d]] : c \in DOMAIN scene.clouds}
Moved == {[scene.clouds EXCEPT ![c] = spot] : c \in DOMAIN scene.clouds, spot \in Spots}

Answers == Added \cup Removed \cup Moved \cup {scene.clouds}

(* The viewport opens with the list's first read. *)
Mount ==
  /\ Task /\ ~scene.mounted /\ ~scene.timer /\ ~backend.disposed
  /\ Commits([scene EXCEPT !.mounted = TRUE], backend)
  /\ UNCHANGED <<signed, turns>>

(* The list is read again, after a cloud was added, moved or removed on    *)
(* this page or another, or for a change of something else; an equal       *)
(* answer keeps the list there is.                                         *)
Refetch ==
  /\ Task /\ scene.mounted
  /\ \E list \in Answers :
       Read(scene, list) # scene /\ Commits(Read(scene, list), backend)
  /\ Turn /\ UNCHANGED signed

(* The pointer moves a preview: new matrices, and so new leases. *)
updatePreview ==
  /\ Task /\ scene.mounted /\ scene.preview # 0
  /\ Commits(scene, backend)
  /\ UNCHANGED <<signed, turns>>

startCloudPlacement ==
  /\ Task /\ scene.mounted /\ scene.next < MaxPlacements
  /\ Commits([scene EXCEPT !.next = @ + 1, !.preview = scene.next + 1], backend)
  /\ UNCHANGED <<signed, turns>>

cancel ==
  /\ Task /\ scene.preview # 0
  /\ Commits([scene EXCEPT !.preview = 0], backend)
  /\ UNCHANGED <<signed, turns>>

(* A tap commits the preview.  While another request is out it is refused, *)
(* and with it goes what was placed before.                                *)
onTap ==
  /\ Task /\ scene.mounted /\ scene.preview # 0
  /\ \E spot \in Spots :
       LET asked == [key |-> scene.preview, spot |-> spot] IN
       Commits(IF scene.adding = Nobody
               THEN [scene EXCEPT !.preview = 0, !.adding = asked,
                       !.placed = [key |-> scene.preview, spot |-> spot,
                                   before |-> DOMAIN scene.clouds]]
               ELSE [scene EXCEPT !.preview = 0, !.placed = Nobody], backend)
  /\ UNCHANGED <<signed, turns>>

(* The answer of an add, after the refetch that comes with it. *)
onPlace ==
  /\ Task /\ scene.mounted /\ scene.adding # Nobody
  /\ \/ /\ \E list \in Added :
             /\ \A c \in DOMAIN list \ DOMAIN scene.clouds : list[c] = scene.adding.spot
             /\ Commits([Read(scene, list) EXCEPT !.adding = Nobody], backend)
        /\ UNCHANGED turns
     \/ /\ Turn
        /\ Commits([Read(scene, scene.clouds) EXCEPT
                      !.adding = Nobody,
                      !.placed = IF @ # Nobody /\ @.key = scene.adding.key
                                 THEN Nobody ELSE @], backend)
  /\ UNCHANGED signed

(* A saved cloud has its bounds: its surface keeps the placement's key. *)
finishPlacement ==
  /\ \E k \in DOMAIN surfaces :
       LET w == surfaces[k] IN
       /\ w.cloud \in placedCloud(scene) /\ surfaces[k].loaded = surfaces[k].lease
       /\ Commits([scene EXCEPT !.transferred[w.cloud] = scene.placed.key,
                                !.placed = Nobody], backend)
  /\ UNCHANGED <<signed, turns>>

(* Leaving the project; the provider disposes of the backend a tick later. *)
Leave ==
  /\ Task /\ scene.mounted
  /\ Commits([scene EXCEPT !.mounted = FALSE, !.timer = TRUE, !.preview = 0,
                           !.placed = Nobody, !.adding = Nobody],
             syncLidarFrame([setDepthEnabled(backend, FALSE) EXCEPT !.lidar = FALSE]))
  /\ UNCHANGED <<signed, turns>>

Switch ==
  /\ Task /\ scene.mounted /\ backend.tiles
  /\ \/ backend' = setDepthEnabled(backend, ~backend.depth)
     \/ backend' = syncLidarFrame([backend EXCEPT !.lidar = ~@])
  /\ Turn
  /\ UNCHANGED <<signed, scene, surfaces, resources, releases>>
-----------------------------------------------------------------------------
(* The cache's microtasks, one for each lease that was released, and the   *)
(* backend's loads.                                                        *)

Aborted(i) == resources[i].disposed \/ backend.disposed

(* Mutant: a lease taken since the release does not save the entry. *)
releaseMicrotasks_Unchecked ==
  /\ releases # {}
  /\ releases' = {}
  /\ LET unused == {i \in releases : ~resources[i].disposed} IN
     /\ resources' = [i \in DOMAIN resources |->
                    IF i \in unused
                    THEN [resources[i] EXCEPT !.disposed = TRUE, !.listed = FALSE]
                    ELSE resources[i]]
     /\ backend' = Without([backend EXCEPT
                              !.alive = @ \ {i \in unused : resources[i].stage = "render"}],
                           {i \in unused : resources[i].stage = "ready"})
  /\ UNCHANGED <<signed, scene, surfaces, turns>>

releaseMicrotasks ==
  /\ releases # {}
  /\ releases' = {}
  /\ LET unused == {i \in releases \ Leases : ~resources[i].disposed} IN
     /\ resources' = [i \in DOMAIN resources |->
                    IF i \in unused
                    THEN [resources[i] EXCEPT !.disposed = TRUE, !.listed = FALSE]
                    ELSE resources[i]]
     /\ backend' = Without([backend EXCEPT
                              !.alive = @ \ {i \in unused : resources[i].stage = "render"}],
                           {i \in unused : resources[i].stage = "ready"})
  /\ UNCHANGED <<signed, scene, surfaces, turns>>

(* The surfaces whose effect waits for this load. *)
Told(i, field, value) ==
  surfaces' = [k \in DOMAIN surfaces |->
                 IF surfaces[k].lease # i THEN surfaces[k]
                 ELSE [surfaces[k] EXCEPT ![field] = value,
                         !.failed = field = "failed"]]

(* downloadGaussianCloud, and the store's loadBuffer. *)
Downloads ==
  /\ \E i \in DOMAIN resources :
       /\ resources[i].stage = "download" /\ backend.tiles /\ ~Aborted(i)
       /\ resources' = [resources EXCEPT ![i].stage = "render"]
       /\ backend' = [backend EXCEPT !.alive = @ \cup {i}]
  /\ UNCHANGED <<signed, scene, surfaces, releases, turns>>

(* The promise of a load resolves.  Spark knows no signal: a cloud loaded  *)
(* for an entry already given up is disposed of as it arrives.             *)
Loads ==
  /\ \E i \in DOMAIN resources :
       /\ i \in backend.loads
       /\ resources[i].stage = IF backend.tiles THEN "render" ELSE "download"
       /\ ~backend.disposed /\ (backend.tiles => ~resources[i].disposed)
       /\ resources' = [resources EXCEPT ![i].stage = "ready"]
       /\ Told(i, "loaded", i)
       /\ backend' = IF resources[i].disposed THEN Without(backend, {i})
                     ELSE [backend EXCEPT !.loads = @ \ {i}, !.clouds = @ \cup {i}]
  /\ UNCHANGED <<signed, scene, releases, turns>>

(* Mutant: a load that fails is not reported. *)
LoadFails_Silent ==
  /\ \E i \in DOMAIN resources :
       /\ i \in backend.loads
       /\ IF backend.disposed \/ (backend.tiles /\ resources[i].disposed) THEN UNCHANGED turns
          ELSE Turn
       /\ resources' = [resources EXCEPT ![i].stage = "failed", ![i].listed = FALSE]
       /\ backend' = Without(backend, {i})
  /\ UNCHANGED <<signed, scene, surfaces, releases>>

(* It rejects: aborted, refused by the server, or not to be decoded. *)
LoadFails ==
  /\ \E i \in DOMAIN resources :
       /\ i \in backend.loads
       /\ IF backend.disposed \/ (backend.tiles /\ resources[i].disposed) THEN UNCHANGED turns
          ELSE Turn
       /\ resources' = [resources EXCEPT ![i].stage = "failed", ![i].listed = FALSE]
       /\ Told(i, "failed", TRUE)
       /\ backend' = Without(backend, {i})
  /\ UNCHANGED <<signed, scene, releases>>

(* SceneSurfaceProvider's timer: the backend disposes of all it has. *)
disposeBackend ==
  /\ Task /\ scene.timer
  /\ scene' = [scene EXCEPT !.timer = FALSE]
  /\ backend' = disposePass([backend EXCEPT
                  !.disposed = TRUE, !.clouds = {},
                  !.alive = IF backend.tiles THEN {} ELSE @ \ backend.clouds])
  /\ UNCHANGED <<signed, surfaces, resources, releases, turns>>
-----------------------------------------------------------------------------
Settling == Downloads \/ Loads \/ LoadFails

SceneNext ==
  \/ Mount \/ Refetch \/ updatePreview \/ startCloudPlacement \/ cancel \/ onTap
  \/ onPlace \/ finishPlacement \/ Leave \/ Switch
  \/ releaseMicrotasks \/ Settling \/ disposeBackend

(* Microtasks and timers run, every load comes to an end, requests are     *)
(* answered and React runs the effects that report bounds.  Nothing is     *)
(* assumed of the user or of other pages.                                  *)
SceneFairness ==
  /\ WF_sceneVars(releaseMicrotasks) /\ WF_sceneVars(Settling)
  /\ WF_sceneVars(disposeBackend) /\ WF_sceneVars(onPlace)
  /\ WF_sceneVars(finishPlacement)

SceneSpec == SceneInit /\ [][SceneNext]_sceneVars /\ SceneFairness
-----------------------------------------------------------------------------
(* Properties. *)

Keys == 0 .. MaxPlacements

Entries == [key : Keys, cloud : Clouds \cup {Nobody}, url : Nat,
            listed : BOOLEAN, disposed : BOOLEAN,
            stage : {"download", "render", "ready", "failed"}]

Lists == UNION {[list -> Spots] : list \in SUBSET Clouds}

Scenes == [mounted : BOOLEAN, timer : BOOLEAN, clouds : Lists, url : Nat, preview : Keys,
           placed : {Nobody} \cup [key : Keys \ {0}, spot : Spots, before : SUBSET Clouds],
           adding : {Nobody} \cup [key : Keys \ {0}, spot : Spots],
           transferred : [Clouds -> Keys], next : Keys]

(* A surface and a backend whose entries are among ids. *)
Leased(ids) == [cloud : Clouds \cup {Nobody}, key : Keys, url : Nat,
                lease : ids, loaded : {0} \cup ids, failed : BOOLEAN]

Layers == {"clouds", "lidar"} \X (0 .. 3)

Backends(ids) ==
  [tiles : BOOLEAN, disposed : BOOLEAN, depth : BOOLEAN, lidar : BOOLEAN,
   loads : SUBSET ids, clouds : SUBSET ids, alive : SUBSET ids, pass : 0 .. 3,
   passes : SUBSET (1 .. 3), layers : SUBSET Layers]

(* What the variables are. *)
SceneTypeOK ==
  /\ signed \in BOOLEAN
  /\ scene \in Scenes
  /\ DOMAIN surfaces \subseteq Clouds \cup Keys
  /\ \A k \in DOMAIN surfaces : surfaces[k] \in Leased(DOMAIN resources)
  /\ resources \in Seq(Entries)
  /\ releases \subseteq DOMAIN resources
  /\ backend \in Backends(DOMAIN resources)
  /\ turns \in 0 .. MaxTurns

(* The cloud a surface draws: the one loaded for its key or its source. *)
Drawn(k) ==
  LET i == surfaces[k].loaded IN
  IF i # 0 /\ SameResource(resources[i], surfaces[k]) THEN i ELSE 0

(* No surface ever draws a cloud whose GPU resources are gone, whatever    *)
(* the order of releases, new leases, disposals and loads                  *)
(* (GaussianCloudResourceCache, useGaussianCloud).  The backend has a pass *)
(* exactly while it has or loads clouds, only that one is alive, and the   *)
(* pipeline composites its layers and no others                            *)
(* (TileGaussianRenderingBackend: ensurePass, recreatePass, disposePass).  *)
PassDrawsLiveClouds ==
  LET needed == backend.tiles /\ ~backend.disposed
                  /\ (backend.loads # {} \/ backend.clouds # {})
  IN /\ \A k \in DOMAIN surfaces : Drawn(k) # 0 => Drawn(k) \in backend.alive
     /\ backend.pass # 0 <=> needed
     /\ backend.passes = {backend.pass} \ {0}
     /\ backend.layers = IF ~needed THEN {}
                         ELSE IF backend.lidar THEN LayersOf(backend.pass)
                         ELSE {<<"clouds", backend.pass>>}

(* From the preview to the saved cloud the model that is drawn stays: the  *)
(* surface of a placement, whatever takes it over and whatever is read     *)
(* meanwhile, keeps the cloud it draws, and a saved cloud that comes where *)
(* one was placed takes that surface over at once, instead of loading the  *)
(* model beside it (frontend README, "Cloud placement": "without loading   *)
(* the model twice").                                                      *)
KeepsWhatItDraws(k) ==
  (/\ k \in Keys /\ Drawn(k) # 0
   /\ k \in DOMAIN surfaces' \/ scene'.transferred # scene.transferred)
    => k \in DOMAIN surfaces' /\ Drawn(k)' = Drawn(k)

TakesOver(c) ==
  (/\ scene.placed # Nobody /\ placedCloud(scene) = {}
   /\ c \notin scene.placed.before /\ scene'.clouds[c] = scene.placed.spot)
    => scene.placed.key \in DOMAIN surfaces' /\ surfaces'[scene.placed.key].cloud = c

HandOverKeepsTheModel ==
  [][/\ \A k \in DOMAIN surfaces : KeepsWhatItDraws(k)
     /\ \A c \in DOMAIN scene'.clouds \ DOMAIN scene.clouds : TakesOver(c)]_sceneVars

(* What an entry holds, and what a surface asks for: see SameResource.     *)
ResourceOf(e) == IF e.key = 0 THEN <<0, e.cloud, e.url>> ELSE <<e.key, Nobody, 0>>

Usable(stages) ==
  {ResourceOf(resources[i]) : i \in {j \in DOMAIN resources :
     resources[j].listed /\ ~resources[j].disposed /\ resources[j].stage \in stages}}

Shared == INSTANCE SharedClouds WITH
  Resource <- Keys \X (Clouds \cup {Nobody}) \X Nat,
  held <- {ResourceOf(surfaces[k]) : k \in DOMAIN surfaces},
  loading <- Usable({"download", "render"}),
  ready <- Usable({"ready"}),
  drawn <- {ResourceOf(surfaces[k]) : k \in {l \in DOMAIN surfaces : Drawn(l) # 0}}

(* However often effects run again, and whatever is released and taken     *)
(* again before the microtasks run: one load for each resource, no surface *)
(* without a cloud that is there, no entry without a surface after the     *)
(* microtasks (GaussianCloudResourceCache with useGaussianCloud).          *)
SharesClouds == Shared!Spec

(* In the end every mounted surface draws its cloud or reports an error:   *)
(* no effect that ran again missed the load it shares (useGaussianCloud).  *)
(* And the GPU holds their clouds and nothing else: a cloud that is        *)
(* removed, a preview that is cancelled, a project that is left, even in   *)
(* mid-load, gives everything back (release, createCloud's signal,         *)
(* SceneSurfaceProvider).                                                  *)
SceneSettles ==
  <>[](/\ \A k \in DOMAIN surfaces : Drawn(k) # 0 \/ surfaces[k].failed
       /\ backend.alive \subseteq Leases /\ backend.loads = {}
       /\ ~scene.mounted => backend.pass = 0)

(* A model the user removes while it loads is given up: no surface leases  *)
(* a saved cloud's entry that is no longer in the list (frontend README,   *)
(* "Removing a pending model or leaving the project aborts its download"). *)
RemovedModelsAreAborted ==
  [][\A c \in DOMAIN scene.clouds \ DOMAIN scene'.clouds :
       scene'.mounted => \A k \in DOMAIN surfaces :
         surfaces[k].cloud = c =>
           \A l \in DOMAIN surfaces' : surfaces'[l].lease # surfaces[k].lease]_sceneVars
=============================================================================
