-------------------------- MODULE SceneCloudsProofs --------------------------
(***************************************************************************)
(* Theorems about SceneClouds: types, that every surface draws a live      *)
(* cloud through the one pass there is, and that a placement keeps its     *)
(* model.                                                                  *)
(***************************************************************************)
EXTENDS SceneClouds, FiniteSetTheorems, SequenceTheorems, TLAPS

-----------------------------------------------------------------------------
(* What is rendered *)

\* A key belongs to one cloud, or to the placement.  A cloud that is new since the
\* placement has brought none.
KeysFit(s) ==
  /\ s.preview \in {0, s.next}
  /\ \A c \in Clouds : /\ s.transferred[c] <= s.next
                       /\ s.transferred[c] # 0 => s.transferred[c] # s.preview
  /\ \A c, d \in Clouds : s.transferred[c] = s.transferred[d] => c = d \/ s.transferred[c] = 0
  /\ s.placed # Nobody =>
       /\ s.placed.key <= s.next /\ s.placed.key # s.preview
       /\ \A c \in Clouds : s.transferred[c] # s.placed.key
       /\ \A c \in DOMAIN s.clouds \ s.placed.before : s.transferred[c] = 0

Saved(s, c) ==
  [react |-> IF resourceKeyForCloud(s, c) = 0 THEN c ELSE resourceKeyForCloud(s, c),
   cloud |-> c, key |-> resourceKeyForCloud(s, c), url |-> s.url]

Preview(k) == [react |-> k, cloud |-> Nobody, key |-> k, url |-> 0]

\* Nobody has taken the key over.
Kept(s, k) == \A c \in DOMAIN s.clouds : resourceKeyForCloud(s, c) # k

LEMMA SurfacesAre ==
  ASSUME NEW s, s.mounted
  PROVE  \A w : w \in Surfaces(s) <=>
                  \/ \E c \in DOMAIN s.clouds : w = Saved(s, c)
                  \/ \E k \in Candidates(s) : Kept(s, k) /\ w = Preview(k)
<1> DEFINE saved == {Saved(s, c) : c \in DOMAIN s.clouds}
<1>1. Surfaces(s) = saved \cup {Preview(k) : k \in Candidates(s) \ {w.key : w \in saved}}
  BY DEF Surfaces, Saved, Preview
<1>2. \A k : k \in {w.key : w \in saved} <=> ~Kept(s, k)
  <2>1. \A c : Saved(s, c).key = resourceKeyForCloud(s, c)
    BY DEF Saved
  <2> QED BY <2>1 DEF Kept
<1> QED BY <1>1, <1>2

LEMMA NothingRendered ==
  ASSUME NEW s, ~s.mounted PROVE Surfaces(s) = {}
BY DEF Surfaces

LEMMA PlacedClouds ==
  ASSUME NEW s
  PROVE  /\ \A c \in placedCloud(s) : /\ s.placed # Nobody
                                      /\ c \in DOMAIN s.clouds \ s.placed.before
         /\ \A c, d \in placedCloud(s) : c = d
BY DEF placedCloud

LEMMA CloudKeys ==
  ASSUME NEW s \in Scenes, KeysFit(s)
  PROVE  /\ DOMAIN s.clouds \subseteq Clouds
         /\ \A c \in DOMAIN s.clouds : resourceKeyForCloud(s, c) \in Keys
         /\ \A c, d \in DOMAIN s.clouds :
              resourceKeyForCloud(s, c) = resourceKeyForCloud(s, d) =>
                 c = d \/ resourceKeyForCloud(s, c) = 0
<1>1. DOMAIN s.clouds \subseteq Clouds
  BY DEF Scenes, Lists
<1>2. s.transferred \in [Clouds -> Keys]
  BY DEF Scenes
<1>3. ASSUME s.placed # Nobody PROVE s.placed.key \in Keys \ {0}
  BY <1>3 DEF Scenes
<1>4. 0 \in Keys
  BY SceneAssumption DEF SceneAssumption, Keys
<1>5. \A c \in DOMAIN s.clouds : resourceKeyForCloud(s, c) \in Keys
  BY <1>1, <1>2, <1>3, <1>4, PlacedClouds DEF resourceKeyForCloud
<1>6. ASSUME NEW c \in DOMAIN s.clouds, NEW d \in DOMAIN s.clouds,
             resourceKeyForCloud(s, c) = resourceKeyForCloud(s, d),
             resourceKeyForCloud(s, c) # 0
      PROVE  c = d
  BY <1>1, <1>6, PlacedClouds DEF resourceKeyForCloud, KeysFit
<1> QED BY <1>1, <1>5, <1>6

RenderedSurface ==
  [react : Clouds \cup Keys, cloud : Clouds \cup {Nobody}, key : Keys, url : Nat]

LEMMA CandidateKeys ==
  ASSUME NEW s \in Scenes PROVE Candidates(s) \subseteq Keys \ {0}
BY DEF Scenes, Candidates

LEMMA SurfacesFit ==
  ASSUME NEW s \in Scenes, KeysFit(s)
  PROVE  /\ Surfaces(s) \subseteq RenderedSurface
         /\ \A w \in Surfaces(s) :
              /\ w.url <= s.url
              /\ IF w.key = 0
                 THEN w.react = w.cloud /\ w.cloud \in DOMAIN s.clouds /\ w.url = s.url
                 ELSE w.react = w.key
<1>1. CASE ~s.mounted
  BY <1>1, NothingRendered
<1>2. ASSUME s.mounted, NEW c \in DOMAIN s.clouds
      PROVE  LET w == Saved(s, c) IN
             /\ w \in RenderedSurface
             /\ w.url <= s.url
             /\ IF w.key = 0
                THEN w.react = w.cloud /\ w.cloud \in DOMAIN s.clouds /\ w.url = s.url
                ELSE w.react = w.key
  <2>1. s.url \in Nat
    BY DEF Scenes
  <2> QED BY <1>2, <2>1, CloudKeys DEF Saved, RenderedSurface
<1>3. ASSUME s.mounted, NEW k \in Candidates(s)
      PROVE  LET w == Preview(k) IN
             /\ w \in RenderedSurface
             /\ w.url <= s.url
             /\ w.key # 0 /\ w.react = w.key
  <2>1. s.url \in Nat
    BY DEF Scenes
  <2> QED BY <1>3, <2>1, CandidateKeys DEF Preview, RenderedSurface
<1> QED BY <1>1, <1>2, <1>3, SurfacesAre

\* A number names the surface of the placement with this key.
LEMMA KeyedSurface ==
  ASSUME NEW s \in Scenes, KeysFit(s), NEW w \in Surfaces(s), w.react \in Keys
  PROVE  w.key = w.react /\ w.key # 0
<1>1. Clouds \cap Int = {} /\ Keys \subseteq Int
  BY SceneAssumption DEF SceneAssumption, Keys
<1>2. DOMAIN s.clouds \subseteq Clouds
  BY CloudKeys
<1>3. IF w.key = 0 THEN w.react = w.cloud /\ w.cloud \in DOMAIN s.clouds
      ELSE w.react = w.key
  BY SurfacesFit
<1> QED BY <1>1, <1>2, <1>3

\* React tells the surfaces apart, and so does the cache.
LEMMA SurfacesDiffer ==
  ASSUME NEW s \in Scenes, KeysFit(s), NEW w \in Surfaces(s), NEW v \in Surfaces(s)
  PROVE  /\ w.react = v.react => w = v
         /\ SameResource(w, v) => w = v
<1>1. CASE ~s.mounted
  BY <1>1, NothingRendered
<1>2. ASSUME s.mounted, w.react = v.react PROVE w = v
  <2>1. w.key = v.key /\ (w.key = 0 => w.cloud = v.cloud)
    <3>1. Clouds \cap Int = {} /\ Keys \subseteq Int
      BY SceneAssumption DEF SceneAssumption, Keys
    <3>2. w \in RenderedSurface /\ v \in RenderedSurface
      BY SurfacesFit
    <3> QED BY <1>2, <3>1, <3>2, SurfacesFit, CloudKeys DEF RenderedSurface
  <2>2. ASSUME NEW c \in DOMAIN s.clouds, w = Saved(s, c),
               NEW d \in DOMAIN s.clouds, v = Saved(s, d)
        PROVE  w = v
    <3>1. w.key = resourceKeyForCloud(s, c) /\ w.cloud = c
      BY <2>2 DEF Saved
    <3>2. v.key = resourceKeyForCloud(s, d) /\ v.cloud = d
      BY <2>2 DEF Saved
    <3>3. c = d
      BY <2>1, <3>1, <3>2, CloudKeys
    <3> QED BY <2>2, <3>3
  <2>3. ASSUME NEW c \in DOMAIN s.clouds, NEW k \in Candidates(s), Kept(s, k)
        PROVE  Saved(s, c).key # Preview(k).key
    BY <2>3 DEF Kept, Saved, Preview
  <2>4. ASSUME NEW k \in Candidates(s), NEW l \in Candidates(s),
               w = Preview(k), v = Preview(l)
        PROVE  w = v
    BY <2>1, <2>4 DEF Preview
  <2> QED BY <1>2, <2>1, <2>2, <2>3, <2>4, SurfacesAre
<1>3. ASSUME s.mounted, SameResource(w, v) PROVE w.react = v.react
  BY <1>3, SurfacesFit DEF SameResource
<1> QED BY <1>1, <1>2, <1>3

LEMMA FinitelyManySurfaces ==
  ASSUME NEW s \in Scenes, KeysFit(s), IsFiniteSet(DOMAIN s.clouds)
  PROVE  IsFiniteSet(Surfaces(s))
<1> DEFINE T == DOMAIN s.clouds \cup Keys
           f == [w \in Surfaces(s) |-> w.react]
<1>1. IsFiniteSet(T)
  <2>1. MaxPlacements \in Nat
    BY SceneAssumption DEF SceneAssumption
  <2>2. IsFiniteSet(Keys)
    BY <2>1, FS_Interval DEF Keys
  <2> QED BY <2>2, FS_Union
<1>2. f \in [Surfaces(s) -> T]
  BY SurfacesFit DEF RenderedSurface
<1>3. f \in Injection(Surfaces(s), T)
  BY <1>2, SurfacesDiffer DEF Injection, IsInjective
<1> QED BY <1>1, <1>3, FS_Injection

-----------------------------------------------------------------------------
(* The new entries of a commit *)

LEMMA SeqOfSet ==
  ASSUME NEW S, IsFiniteSet(S)
  PROVE  LET f == SetToSeq(S) IN
         /\ f \in Seq(S)
         /\ \A n, o \in DOMAIN f : f[n] = f[o] => n = o
         /\ \A w \in S : \E n \in DOMAIN f : f[n] = w
<1> DEFINE n == Cardinality(S)
           f == SetToSeq(S)
<1>1. n \in Nat /\ ExistsBijection(1 .. n, S)
  BY FS_CardinalityType
<1>2. PICK g \in [1 .. n -> S] : IsInjective(g)
  BY <1>1 DEF ExistsBijection, Bijection, Injection
<1>3. f \in [1 .. n -> S] /\ IsInjective(f)
  BY <1>2 DEF SetToSeq
<1>4. f \in Injection(1 .. n, S)
  BY <1>3 DEF Injection
<1>5. IsFiniteSet(1 .. n) /\ Cardinality(1 .. n) = n
  BY <1>1, FS_Interval
<1>6. f \in Surjection(1 .. n, S)
  BY <1>4, <1>5, FS_Injection
<1>7. f \in Seq(S)
  BY <1>1, <1>3
<1> QED BY <1>3, <1>6, <1>7 DEF IsInjective, Surjection

LEMMA Appended ==
  ASSUME NEW S, NEW s \in Seq(S), NEW t \in Seq(S)
  PROVE  /\ s \o t \in Seq(S) /\ Len(s \o t) = Len(s) + Len(t)
         /\ \A i \in 1 .. Len(s) : (s \o t)[i] = s[i]
         /\ \A n \in 1 .. Len(t) : (s \o t)[Len(s) + n] = t[n]
BY ConcatProperties

LEMMA SeqOfFunction ==
  ASSUME NEW S, NEW m \in Nat, NEW f \in [1 .. m -> S]
  PROVE  f \in Seq(S) /\ Len(f) = m
OBVIOUS

LEMMA OnlyOne == ASSUME NEW n \in Nat PROVE Min({n}) = n
BY DEF Min

-----------------------------------------------------------------------------
(* The passes of the backend *)

Needed(b) == b.tiles /\ ~b.disposed /\ (b.loads # {} \/ b.clouds # {})

\* The one pass is alive, and its layers are registered.
PassFits(b) ==
  /\ b.pass \in 0 .. 3
  /\ b.passes = {b.pass} \ {0}
  /\ b.layers = IF b.pass = 0 THEN {}
                ELSE IF b.lidar THEN LayersOf(b.pass) ELSE {<<"clouds", b.pass>>}

\* There is a pass exactly while something needs it.
BackendFits(b) == PassFits(b) /\ (b.pass # 0 <=> Needed(b))

\* A pass in place of another, or of none.
LEMMA RecreatedPass ==
  ASSUME NEW ids, NEW b \in Backends(ids), PassFits(b), ~b.disposed
  PROVE  LET r == recreatePass(b) IN
         /\ r \in Backends(ids) /\ PassFits(r) /\ r.pass # 0
         /\ r = [b EXCEPT !.pass = r.pass, !.passes = r.passes, !.layers = r.layers]
<1> DEFINE p == CHOOSE n \in 1 .. 3 : n \notin b.passes
           new == [b EXCEPT !.pass = p, !.passes = @ \cup {p},
                       !.layers = (@ \ {<<"lidar", b.pass>>}) \cup {<<"clouds", p>>}]
           r == recreatePass(b)
<1>1. p \in 1 .. 3 /\ p # b.pass
  <2>1. \E n \in 1 .. 3 : n \notin b.passes
    BY DEF PassFits
  <2>2. p \in 1 .. 3 /\ p \notin b.passes
    BY <2>1
  <2> QED BY <2>2 DEF PassFits
<1> DEFINE lidar == <<"lidar", p>>
           clouds == <<"clouds", b.pass>>
<1>2. /\ new.pass = p /\ new.lidar = b.lidar /\ ~new.disposed
      /\ new.passes = b.passes \cup {p}
      /\ new.layers = (b.layers \ {<<"lidar", b.pass>>}) \cup {<<"clouds", p>>}
  BY DEF Backends
<1>10. syncLidarFrame(new) =
        [new EXCEPT !.layers = (new.layers \ {lidar})
                       \cup (IF b.lidar THEN {lidar} ELSE {})]
  <2> HIDE DEF new, p
  <2>1. p # 0
    BY <1>1
  <2> QED BY <1>2, <2>1 DEF syncLidarFrame
<1>3. /\ r = [b EXCEPT !.pass = r.pass, !.passes = r.passes, !.layers = r.layers]
      /\ r.pass = p /\ r.passes = (b.passes \cup {p}) \ {b.pass}
      /\ r.layers = ((new.layers \ {lidar}) \cup (IF b.lidar THEN {lidar} ELSE {})) \ {clouds}
  <2>1. r = [syncLidarFrame(new) EXCEPT !.layers = @ \ {clouds}, !.passes = @ \ {b.pass}]
    BY DEF recreatePass
  <2> HIDE DEF p, lidar, clouds
  <2>2. r = [new EXCEPT
              !.layers = ((new.layers \ {lidar}) \cup (IF b.lidar THEN {lidar} ELSE {})) \ {clouds},
              !.passes = (b.passes \cup {p}) \ {b.pass}]
    <3> HIDE DEF new
    <3>1. new \in [DOMAIN new -> {new[x] : x \in DOMAIN new}]
      BY DEF new
    <3>2. "layers" \in DOMAIN new /\ "passes" \in DOMAIN new
      BY DEF new, Backends
    <3> QED BY <1>2, <1>10, <2>1, <3>1, <3>2
  <2> QED BY <1>2, <2>2 DEF Backends
<1>4. r.passes = {p}
  BY <1>1, <1>3 DEF PassFits
<1>5. r.layers = IF b.lidar THEN LayersOf(p) ELSE {<<"clouds", p>>}
  <2>1. b.layers \subseteq LayersOf(b.pass)
    BY DEF PassFits, LayersOf
  <2>2. /\ new.layers = (b.layers \ {<<"lidar", b.pass>>}) \cup {<<"clouds", p>>}
        /\ r.layers = ((new.layers \ {<<"lidar", p>>})
                        \cup (IF b.lidar THEN {<<"lidar", p>>} ELSE {}))
                      \ {<<"clouds", b.pass>>}
    BY <1>2, <1>3
  <2> HIDE DEF new, r, p, lidar, clouds
  <2>3. /\ <<"lidar", p>> # <<"clouds", p>> /\ <<"lidar", p>> # <<"clouds", b.pass>>
        /\ <<"clouds", p>> # <<"clouds", b.pass>>
    BY <1>1
  <2> QED BY <2>1, <2>2, <2>3, Zenon DEF LayersOf
<1>6. r.pass = p /\ r.lidar = b.lidar
  BY <1>3 DEF Backends
<1>7. r = [b EXCEPT !.pass = r.pass, !.passes = r.passes, !.layers = r.layers]
  BY <1>3
<1>8. PassFits(r) /\ r.pass # 0
  BY <1>1, <1>4, <1>5, <1>6 DEF PassFits
<1>9. r \in Backends(ids)
  <2>1. r.layers \subseteq Layers
    <3> HIDE DEF p, r
    <3>1. p \in 0 .. 3
      BY <1>1
    <3>2. r.layers \subseteq {<<"clouds", p>>, <<"lidar", p>>}
      BY <1>5, Zenon DEF LayersOf
    <3>3. <<"clouds", p>> \in Layers
      BY <3>1 DEF Layers
    <3>4. <<"lidar", p>> \in Layers
      BY <3>1 DEF Layers
    <3> QED BY <3>2, <3>3, <3>4, Zenon
  <2>2. r.pass \in 0 .. 3 /\ r.passes \in SUBSET (1 .. 3)
    <3> HIDE DEF p, r
    <3> QED BY <1>1, <1>4, <1>6
  <2> HIDE DEF r
  <2> QED BY <1>7, <2>1, <2>2 DEF Backends
<1> QED BY <1>7, <1>8, <1>9

LEMMA DisposedPass ==
  ASSUME NEW ids, NEW b \in Backends(ids), PassFits(b)
  PROVE  LET r == disposePass(b) IN
         /\ r \in Backends(ids) /\ PassFits(r) /\ r.pass = 0
         /\ r = [b EXCEPT !.layers = {}, !.passes = {}, !.pass = 0]
<1>1. b.layers \ LayersOf(b.pass) = {} /\ b.passes \ {b.pass} = {}
  BY DEF PassFits, LayersOf
<1> DEFINE r == disposePass(b)
<1>2. r = [b EXCEPT !.layers = {}, !.passes = {}, !.pass = 0]
  <2>1. disposePass(b) = [b EXCEPT !.layers = b.layers \ LayersOf(b.pass),
                                   !.passes = b.passes \ {b.pass}, !.pass = 0]
    BY DEF disposePass
  <2> QED BY <1>1, <2>1
<1>3. r \in Backends(ids) /\ r.pass = 0 /\ r.passes = {} /\ r.layers = {}
  <2> DEFINE layers == {}
             passes == {}
             pass == 0
  <2>1. layers \in SUBSET Layers /\ passes \in SUBSET (1 .. 3) /\ pass \in 0 .. 3
    OBVIOUS
  <2>2. r = [b EXCEPT !.layers = layers, !.passes = passes, !.pass = pass]
    BY <1>2
  <2> HIDE DEF r, layers, passes, pass
  <2>3. r \in Backends(ids) /\ r.pass = pass /\ r.passes = passes /\ r.layers = layers
    BY <2>1, <2>2 DEF Backends
  <2> QED BY <2>3 DEF layers, passes, pass
<1> QED BY <1>2, <1>3 DEF PassFits

\* Switching the lidar on and off.
LEMMA SyncedLidar ==
  ASSUME NEW ids, NEW b \in Backends(ids), PassFits(b), ~b.disposed, NEW on \in BOOLEAN
  PROVE  LET r == syncLidarFrame([b EXCEPT !.lidar = on]) IN
         /\ r \in Backends(ids) /\ PassFits(r)
         /\ r = [b EXCEPT !.lidar = on, !.layers = r.layers]
<1> DEFINE r == syncLidarFrame([b EXCEPT !.lidar = on])
<1>1. r = [b EXCEPT !.lidar = on,
               !.layers = (@ \ {<<"lidar", b.pass>>})
                            \cup (IF b.pass # 0 /\ on THEN {<<"lidar", b.pass>>} ELSE {})]
  BY DEF syncLidarFrame, Backends
<1>2. r.layers = IF b.pass = 0 THEN {}
                 ELSE IF on THEN LayersOf(b.pass) ELSE {<<"clouds", b.pass>>}
  <2>1. r.layers = (b.layers \ {<<"lidar", b.pass>>})
                      \cup (IF b.pass # 0 /\ on THEN {<<"lidar", b.pass>>} ELSE {})
    BY <1>1 DEF Backends
  <2> QED BY <2>1 DEF PassFits, LayersOf
<1>3. r = [b EXCEPT !.lidar = on, !.layers = r.layers]
  BY <1>1 DEF Backends
<1>4. r.layers \subseteq Layers
  BY <1>2 DEF LayersOf, PassFits, Layers
<1> QED BY <1>2, <1>3, <1>4 DEF Backends, PassFits

LEMMA SwitchedDepth ==
  ASSUME NEW ids, NEW b \in Backends(ids), PassFits(b), ~b.disposed, NEW on \in BOOLEAN
  PROVE  LET r == setDepthEnabled(b, on) IN
         /\ r \in Backends(ids) /\ PassFits(r) /\ (r.pass = 0 <=> b.pass = 0)
         /\ r = [b EXCEPT !.depth = on, !.pass = r.pass, !.passes = r.passes,
                          !.layers = r.layers]
<1> DEFINE d == [b EXCEPT !.depth = on]
<1>1. d \in Backends(ids) /\ PassFits(d) /\ ~d.disposed /\ d.pass = b.pass
  BY DEF Backends, PassFits
<1>2. CASE b.depth = on
  BY <1>2 DEF setDepthEnabled, Backends
<1>3. CASE b.depth # on /\ b.pass # 0
  <2>1. setDepthEnabled(b, on) = recreatePass(d)
    BY <1>3 DEF setDepthEnabled
  <2>2. LET r == recreatePass(d) IN
         /\ r \in Backends(ids) /\ PassFits(r) /\ r.pass # 0
         /\ r = [d EXCEPT !.pass = r.pass, !.passes = r.passes, !.layers = r.layers]
    BY <1>1, RecreatedPass
  <2> QED BY <1>3, <2>1, <2>2 DEF Backends
<1>4. CASE b.depth # on /\ b.pass = 0
  BY <1>1, <1>4 DEF setDepthEnabled, Backends
<1> QED BY <1>2, <1>3, <1>4

\* From b to r loads begin, and nothing else.
LoadsBegin(b, new, r) ==
  /\ r.tiles = b.tiles /\ r.disposed = b.disposed /\ r.clouds = b.clouds
  /\ r.loads = b.loads \cup new
  /\ r.alive = IF b.tiles THEN b.alive ELSE b.alive \cup new

\* The first load makes the pass.
LEMMA CreatedClouds ==
  ASSUME NEW ids, NEW b \in Backends(ids), BackendFits(b),
         NEW new \in SUBSET ids, new # {} => ~b.disposed
  PROVE  LET r == createClouds(b, new) IN
         /\ r \in Backends(ids) /\ BackendFits(r) /\ LoadsBegin(b, new, r)
<1> USE DEF BackendFits, LoadsBegin
<1>1. CASE new = {}
  BY <1>1 DEF createClouds, Backends
<1>2. ASSUME new # {} PROVE
        LET e == ensurePass(b) IN
        /\ e \in Backends(ids) /\ PassFits(e) /\ (e.pass # 0 <=> b.tiles)
        /\ e = [b EXCEPT !.pass = e.pass, !.passes = e.passes, !.layers = e.layers]
  <2>1. CASE b.tiles /\ b.pass = 0
    BY <1>2, <2>1, RecreatedPass DEF ensurePass
  <2>2. CASE ~(b.tiles /\ b.pass = 0)
    BY <2>2 DEF ensurePass, Backends, Needed
  <2> QED BY <2>1, <2>2
<1>3. ASSUME new # {} PROVE
        LET r == createClouds(b, new)
            e == ensurePass(b)
        IN r = [e EXCEPT !.loads = b.loads \cup new,
                         !.alive = IF b.tiles THEN b.alive ELSE b.alive \cup new]
  BY <1>2, <1>3 DEF createClouds, Backends
<1>4. CASE new # {}
  <2>1. LET r == createClouds(b, new) IN
        r \in Backends(ids) /\ PassFits(r) /\ (r.pass # 0 <=> b.tiles)
    <3> DEFINE e == ensurePass(b)
               r == createClouds(b, new)
    <3>1. e \in Backends(ids) /\ PassFits(e) /\ (e.pass # 0 <=> b.tiles)
      BY <1>2, <1>4
    <3>2. r = [e EXCEPT !.loads = b.loads \cup new,
                        !.alive = IF b.tiles THEN b.alive ELSE b.alive \cup new]
      BY <1>3, <1>4
    <3>3. b.loads \cup new \subseteq ids /\ b.alive \cup new \subseteq ids /\ b.alive \subseteq ids
      BY DEF Backends
    <3> HIDE DEF e
    <3>4. r \in Backends(ids)
      BY <3>1, <3>2, <3>3 DEF Backends
    <3>5. r.pass = e.pass /\ r.passes = e.passes /\ r.layers = e.layers /\ r.lidar = e.lidar
      BY <3>1, <3>2 DEF Backends
    <3>6. PassFits(r)
      BY <3>1, <3>5 DEF PassFits
    <3> QED BY <3>1, <3>4, <3>5, <3>6
  <2> QED BY <1>2, <1>3, <1>4, <2>1 DEF Backends, Needed
<1> QED BY <1>1, <1>4

\* The last of the loads and clouds takes the pass with it.
LEMMA WithoutClouds ==
  ASSUME NEW ids, NEW b \in Backends(ids), BackendFits(b), NEW gone
  PROVE  LET r == Without(b, gone) IN
         /\ r \in Backends(ids) /\ BackendFits(r)
         /\ r.tiles = b.tiles /\ r.disposed = b.disposed
         /\ r.clouds = b.clouds \ gone /\ r.loads = b.loads \ gone
         /\ r.alive = b.alive \ gone
<1> USE DEF BackendFits
<1> DEFINE rest == [b EXCEPT !.clouds = @ \ gone, !.loads = @ \ gone, !.alive = @ \ gone]
<1>1. rest \in Backends(ids) /\ PassFits(rest)
  BY DEF Backends, PassFits
<1>2. /\ rest.tiles = b.tiles /\ rest.disposed = b.disposed /\ rest.pass = b.pass
      /\ rest.clouds = b.clouds \ gone /\ rest.loads = b.loads \ gone
      /\ rest.alive = b.alive \ gone
  BY DEF Backends
<1>3. CASE gone # {} /\ rest.clouds = {} /\ rest.loads = {}
  <2>1. Without(b, gone) = disposePass(rest)
    BY <1>3 DEF Without
  <2>2. LET r == disposePass(rest) IN
         /\ r \in Backends(ids) /\ PassFits(r) /\ r.pass = 0
         /\ r = [rest EXCEPT !.layers = {}, !.passes = {}, !.pass = 0]
    BY <1>1, DisposedPass
  <2> QED BY <1>2, <1>3, <2>1, <2>2 DEF Backends, Needed
<1>4. CASE ~(gone # {} /\ rest.clouds = {} /\ rest.loads = {})
  <2>1. Without(b, gone) = rest
    BY <1>4 DEF Without
  <2>2. Needed(rest) <=> Needed(b)
    BY <1>2, <1>4 DEF Needed
  <2> QED BY <1>1, <1>2, <2>1, <2>2
<1> QED BY <1>3, <1>4

-----------------------------------------------------------------------------
(* The invariant *)

Live(e) == e.listed /\ ~e.disposed

\* A page that was left has nothing under way but the timer.
PageFits ==
  /\ scene.mounted => ~scene.timer /\ ~backend.disposed
  /\ ~scene.mounted => scene.preview = 0

\* What is mounted is what the scene asks for.
Rendered ==
  /\ DOMAIN surfaces = {w.react : w \in Surfaces(scene)}
  /\ \A w \in Surfaces(scene) : /\ surfaces[w.react].cloud = w.cloud
                                /\ surfaces[w.react].key = w.key
                                /\ surfaces[w.react].url = w.url

\* What a surface leases is there, and it draws nothing else.
Held ==
  \A k \in DOMAIN surfaces :
     /\ ~resources[surfaces[k].lease].disposed
     /\ surfaces[k].loaded # 0 => resources[surfaces[k].loaded].stage = "ready"
     /\ Drawn(k) # 0 => Drawn(k) = surfaces[k].lease

\* The cache finds what is of use, and never two entries of one resource.
EntriesFit ==
  /\ \A i \in DOMAIN resources :
       /\ resources[i].url <= scene.url
       /\ resources[i].stage # "failed" /\ ~resources[i].disposed => resources[i].listed
  /\ \A i, j \in DOMAIN resources :
       Live(resources[i]) /\ Live(resources[j]) /\ SameResource(resources[i], resources[j]) =>
          i = j

\* The GPU has what is rendered or loaded and was not given up.
AliveFits ==
  /\ \A i \in DOMAIN resources :
       LET e == resources[i] IN
       /\ ~backend.disposed /\ ~e.disposed /\ e.stage \in {"render", "ready"} =>
             i \in backend.alive
       /\ e.stage = "render" => backend.tiles
  /\ \A i \in backend.loads :
       /\ resources[i].stage \in {"download", "render"}
       /\ ~backend.tiles /\ ~backend.disposed => i \in backend.alive

SceneInv ==
  /\ SceneTypeOK /\ IsFiniteSet(DOMAIN scene.clouds) /\ KeysFit(scene)
  /\ PageFits /\ Rendered /\ Held /\ EntriesFit /\ AliveFits /\ BackendFits(backend)

\* A surface of a placement that stays draws what it drew.
ModelsStay ==
  \A k \in DOMAIN surfaces :
     k \in DOMAIN surfaces' /\ k \in Keys /\ Drawn(k) # 0 => Drawn(k)' = Drawn(k)

-----------------------------------------------------------------------------
(* What a commit does *)

\* A commit that makes m entries.
Committed(s, b, m, lease) ==
  LET old == Len(resources)
      Ready(w) == resources'[lease[w]].stage = "ready"
  IN /\ m \in Nat /\ lease \in [Surfaces(s) -> 1 .. old + m]
     /\ ~s.mounted => m = 0
     /\ scene' = s
     /\ releases' = releases \cup Leases
     /\ backend' = createClouds(b, old + 1 .. old + m)
     /\ resources' \in Seq(Entries) /\ Len(resources') = old + m
     /\ \A i \in 1 .. old : resources'[i] = resources[i]
     /\ \A i \in old + 1 .. old + m :
          \E w \in Surfaces(s) : Found(w) = {} /\ resources'[i] = Entry(w) /\ lease[w] = i
     /\ \A w \in Surfaces(s) : IF Found(w) # {} THEN lease[w] \in Found(w)
                               ELSE resources'[lease[w]] = Entry(w) /\ lease[w] > old
     /\ DOMAIN surfaces' = {w.react : w \in Surfaces(s)}
     /\ \A w \in Surfaces(s) :
          surfaces'[w.react] =
            [cloud |-> w.cloud, key |-> w.key, url |-> w.url, lease |-> lease[w],
             loaded |-> IF Ready(w) THEN lease[w] ELSE Before(w).loaded,
             failed |-> StillFailed(w) /\ ~Ready(w)]

\* The scenes that are committed.
Committable(s) ==
  /\ s \in Scenes /\ KeysFit(s) /\ IsFiniteSet(DOMAIN s.clouds) /\ scene.url <= s.url

LEMMA FoundOnce ==
  ASSUME SceneInv, NEW w \in RenderedSurface
  PROVE  Found(w) = {} \/ \E i \in DOMAIN resources : Found(w) = {i} /\ Min(Found(w)) = i
<1>1. ASSUME NEW i \in Found(w), NEW j \in Found(w) PROVE i = j
  <2>1. SameResource(resources[i], resources[j])
    BY DEF Found, SameResource
  <2> QED BY <2>1 DEF SceneInv, EntriesFit, Found, Live
<1>2. ASSUME NEW i \in Found(w) PROVE Found(w) = {i} /\ i \in DOMAIN resources /\ i \in Nat
  <2>1. i \in DOMAIN resources
    BY DEF Found
  <2>2. i \in Nat
    BY <2>1 DEF SceneInv, SceneTypeOK
  <2> QED BY <1>1, <2>1, <2>2
<1> QED BY <1>2, OnlyOne

LEMMA CommitsAre ==
  ASSUME SceneInv, NEW s, Committable(s), NEW b, Commits(s, b)
  PROVE  \E m, lease : Committed(s, b, m, lease)
<1> DEFINE W == Surfaces(s)
           New == {w \in W : Found(w) = {}}
           new == SetToSeq(New)
           m == Len(new)
           old == Len(resources)
           lease == acquire(W, new)
           Made == [n \in DOMAIN new |-> Entry(new[n])]
<1> USE DEF Committable
<1>1. /\ m \in Nat /\ DOMAIN new = 1 .. m
      /\ \A n \in 1 .. m : new[n] \in New
      /\ \A n, o \in 1 .. m : new[n] = new[o] => n = o
      /\ \A w \in New : \E n \in 1 .. m : new[n] = w
  <2>1. IsFiniteSet(New)
    BY FinitelyManySurfaces, FS_Subset
  <2>2. /\ new \in Seq(New)
        /\ \A n, o \in DOMAIN new : new[n] = new[o] => n = o
        /\ \A w \in New : \E n \in DOMAIN new : new[n] = w
    BY <2>1, SeqOfSet
  <2> HIDE DEF new, New
  <2> QED BY <2>2
<1>2. /\ scene' = s
      /\ resources' = resources \o Made
      /\ releases' = releases \cup Leases
      /\ backend' = createClouds(b, old + 1 .. old + m)
  BY DEF Commits
<1>3. \A w \in W : lease[w] = IF Found(w) # {} THEN Min(Found(w))
                              ELSE old + CHOOSE n \in DOMAIN new : new[n] = w
  BY DEF acquire
<1>4. old \in Nat /\ resources \in Seq(Entries) /\ DOMAIN resources = 1 .. old
  BY DEF SceneInv, SceneTypeOK
<1>5. \A w \in W : Found(w) # {} => lease[w] \in Found(w) /\ lease[w] \in 1 .. old
  <2>1. W \subseteq RenderedSurface
    BY SurfacesFit
  <2> HIDE DEF W, lease, new, old
  <2> QED BY <1>3, <1>4, <2>1, FoundOnce
<1>6. \A w \in W : Found(w) = {} => \E n \in 1 .. m : lease[w] = old + n /\ new[n] = w
  <2> SUFFICES ASSUME NEW w \in W, Found(w) = {}
               PROVE  \E n \in 1 .. m : lease[w] = old + n /\ new[n] = w
    OBVIOUS
  <2> DEFINE o == CHOOSE n \in DOMAIN new : new[n] = w
  <2>1. \E n \in DOMAIN new : new[n] = w
    BY <1>1
  <2>2. o \in DOMAIN new /\ new[o] = w
    BY <2>1
  <2>3. lease[w] = old + o
    BY <1>3
  <2> HIDE DEF lease, new, old, o, m
  <2> QED BY <1>1, <2>2, <2>3
<1>7. Made \in Seq(Entries) /\ Len(Made) = m
  <2>1. ASSUME NEW n \in 1 .. m PROVE Entry(new[n]) \in Entries
    <3>1. new[n] \in RenderedSurface
      BY <1>1, SurfacesFit
    <3> HIDE DEF new
    <3> QED BY <3>1 DEF Entry, Entries, RenderedSurface
  <2>2. Made \in [1 .. m -> Entries]
    BY <1>1, <2>1
  <2> HIDE DEF Made, m
  <2> QED BY <1>1, <2>2, SeqOfFunction
<1>8. /\ resources' \in Seq(Entries) /\ Len(resources') = old + m
      /\ \A i \in 1 .. old : resources'[i] = resources[i]
      /\ \A n \in 1 .. m : resources'[old + n] = Entry(new[n])
  <2>1. \A n \in 1 .. m : Made[n] = Entry(new[n])
    BY <1>1
  <2> HIDE DEF Made, m, new
  <2>2. /\ resources \o Made \in Seq(Entries)
        /\ Len(resources \o Made) = old + Len(Made)
        /\ \A i \in 1 .. old : (resources \o Made)[i] = resources[i]
        /\ \A n \in 1 .. Len(Made) : (resources \o Made)[old + n] = Made[n]
    <3>1. resources \in Seq(Entries) /\ Made \in Seq(Entries)
      BY <1>4, <1>7
    <3> HIDE DEF old
    <3> QED BY <3>1, Appended DEF old
  <2> HIDE DEF old
  <2> QED BY <1>2, <1>7, <2>1, <2>2
<1>9. ASSUME NEW w \in W, Found(w) = {}
      PROVE  resources'[lease[w]] = Entry(w) /\ lease[w] \in old + 1 .. old + m
  <2> HIDE DEF W, lease, new, old, New, m
  <2>1. PICK n \in 1 .. m : lease[w] = old + n /\ new[n] = w
    BY <1>6, <1>9
  <2>2. resources'[old + n] = Entry(new[n])
    BY <1>8
  <2>3. old + n \in old + 1 .. old + m
    BY <1>1, <1>4
  <2> QED BY <2>1, <2>2, <2>3
<1>10. ASSUME NEW i \in old + 1 .. old + m
       PROVE  \E w \in W : Found(w) = {} /\ resources'[i] = Entry(w) /\ lease[w] = i
  <2> DEFINE n == i - old
             w == new[n]
  <2>1. n \in 1 .. m /\ i = old + n
    <3> HIDE DEF old, m
    <3> QED BY <1>1, <1>4
  <2>2. w \in W /\ Found(w) = {}
    BY <1>1, <2>1
  <2>3. PICK o \in 1 .. m : lease[w] = old + o /\ new[o] = w
    BY <1>6, <2>2
  <2>4. o = n
    BY <1>1, <2>1, <2>3
  <2>5. resources'[i] = Entry(w)
    BY <1>8, <2>1
  <2> HIDE DEF W, lease, old, New, m, n, w
  <2> QED BY <2>1, <2>2, <2>3, <2>4, <2>5
<1>11. lease \in [W -> 1 .. old + m]
  <2>1. lease = [w \in W |-> lease[w]]
    BY DEF acquire
  <2> HIDE DEF W, lease, new, old, New, m
  <2>2. \A w \in W : lease[w] \in 1 .. old + m
    BY <1>1, <1>4, <1>5, <1>9
  <2> QED BY <2>1, <2>2
<1>12. \A w \in W : resources'[lease[w]].stage = "ready" <=>
                      lease[w] \in DOMAIN resources /\ resources[lease[w]].stage = "ready"
  <2>1. ASSUME NEW w \in W, Found(w) # {} PROVE lease[w] \in DOMAIN resources
    BY <1>5, <2>1 DEF Found
  <2>2. ASSUME NEW w \in W, Found(w) = {}
        PROVE  resources'[lease[w]].stage # "ready" /\ lease[w] \notin DOMAIN resources
    <3>1. Entry(w).stage # "ready"
      BY DEF Entry
    <3> HIDE DEF W, lease, new, old, New, m
    <3> QED BY <1>1, <1>4, <1>9, <2>2, <3>1
  <2> HIDE DEF W, lease, new, old, New, m
  <2> QED BY <1>4, <1>8, <2>1, <2>2
<1>13. /\ DOMAIN surfaces' = {w.react : w \in W}
       /\ \A w \in W :
            surfaces'[w.react] =
              [cloud |-> w.cloud, key |-> w.key, url |-> w.url, lease |-> lease[w],
               loaded |-> IF resources'[lease[w]].stage = "ready" THEN lease[w]
                          ELSE Before(w).loaded,
               failed |-> StillFailed(w) /\ ~(resources'[lease[w]].stage = "ready")]
  <2> DEFINE Ready(w) == lease[w] \in DOMAIN resources /\ resources[lease[w]].stage = "ready"
             Surface(w) == [cloud |-> w.cloud, key |-> w.key, url |-> w.url, lease |-> lease[w],
                            loaded |-> IF Ready(w) THEN lease[w] ELSE Before(w).loaded,
                            failed |-> StillFailed(w) /\ ~Ready(w)]
  <2>1. surfaces' = [k \in {w.react : w \in W} |-> Surface(CHOOSE w \in W : w.react = k)]
    BY DEF Commits
  <2>2. \A w \in W : (CHOOSE v \in W : v.react = w.react) = w
    BY SurfacesDiffer
  <2>3. \A w \in W : surfaces'[w.react] = Surface(w)
    <3> HIDE DEF Surface, W
    <3> QED BY <2>1, <2>2
  <2>4. DOMAIN surfaces' = {w.react : w \in W}
    BY <2>1
  <2> HIDE DEF W, lease, new, old, New, m
  <2> QED BY <1>12, <2>3, <2>4
<1>14. ~s.mounted => m = 0
  BY <1>1, NothingRendered
<1>15. Committed(s, b, m, lease)
  <2>1. \A w \in W : IF Found(w) # {} THEN lease[w] \in Found(w)
                     ELSE resources'[lease[w]] = Entry(w) /\ lease[w] > old
    <3> HIDE DEF W, lease, new, old, New, m
    <3> QED BY <1>1, <1>4, <1>5, <1>9
  <2>2. Committed(s, b, m, lease) <=>
     /\ m \in Nat /\ lease \in [W -> 1 .. old + m]
     /\ ~s.mounted => m = 0
     /\ scene' = s
     /\ releases' = releases \cup Leases
     /\ backend' = createClouds(b, old + 1 .. old + m)
     /\ resources' \in Seq(Entries) /\ Len(resources') = old + m
     /\ \A i \in 1 .. old : resources'[i] = resources[i]
     /\ \A i \in old + 1 .. old + m :
          \E w \in W : Found(w) = {} /\ resources'[i] = Entry(w) /\ lease[w] = i
     /\ \A w \in W : IF Found(w) # {} THEN lease[w] \in Found(w)
                     ELSE resources'[lease[w]] = Entry(w) /\ lease[w] > old
     /\ DOMAIN surfaces' = {w.react : w \in W}
     /\ \A w \in W :
          surfaces'[w.react] =
            [cloud |-> w.cloud, key |-> w.key, url |-> w.url, lease |-> lease[w],
             loaded |-> IF resources'[lease[w]].stage = "ready" THEN lease[w]
                        ELSE Before(w).loaded,
             failed |-> StillFailed(w) /\ ~(resources'[lease[w]].stage = "ready")]
    <3> HIDE DEF lease, new, New, m
    <3> QED BY Zenon DEF Committed
  <2> HIDE DEF W, lease, new, old, New, m
  <2> QED BY <1>1, <1>2, <1>8, <1>10, <1>11, <1>13, <1>14, <2>1, <2>2
<1> QED BY <1>15

-----------------------------------------------------------------------------
(* A commit keeps the invariant *)

\* The backend that a commit starts from: only its pass may be another one.
Base(b) ==
  /\ b \in Backends(DOMAIN resources) /\ BackendFits(b)
  /\ b.tiles = backend.tiles /\ b.disposed = backend.disposed
  /\ b.loads = backend.loads /\ b.clouds = backend.clouds /\ b.alive = backend.alive

PageOf(s) ==
  /\ s.mounted => ~s.timer /\ ~backend.disposed
  /\ ~s.mounted => s.preview = 0

LEMMA Ids ==
  ASSUME SceneTypeOK
  PROVE  /\ Len(resources) \in Nat /\ DOMAIN resources = 1 .. Len(resources)
         /\ \A i \in DOMAIN resources : resources[i] \in Entries
BY DEF SceneTypeOK

LEMMA CommittedIds ==
  ASSUME SceneInv, NEW s, NEW b, NEW m, NEW lease, Committed(s, b, m, lease)
  PROVE  /\ m \in Nat /\ Len(resources) \in Nat
         /\ DOMAIN resources = 1 .. Len(resources)
         /\ DOMAIN resources' = 1 .. Len(resources) + m
         /\ DOMAIN resources \subseteq DOMAIN resources'
         /\ \A i \in DOMAIN resources : resources'[i] = resources[i]
         /\ \A i \in DOMAIN resources' \ DOMAIN resources :
              i \in Len(resources) + 1 .. Len(resources) + m
         /\ scene' = s
<1>1. Len(resources) \in Nat /\ DOMAIN resources = 1 .. Len(resources)
  BY Ids DEF SceneInv
<1>2. m \in Nat /\ Len(resources') = Len(resources) + m /\ resources' \in Seq(Entries)
  BY DEF Committed
<1>3. \A i \in 1 .. Len(resources) : resources'[i] = resources[i]
  BY DEF Committed
<1>4. scene' = s
  BY DEF Committed
<1>5. DOMAIN resources' = 1 .. Len(resources) + m
  BY <1>1, <1>2
<1> QED BY <1>1, <1>2, <1>3, <1>4, <1>5

\* A new entry is that of a surface for which none was found.
LEMMA NewEntries ==
  ASSUME SceneInv, NEW s, Committable(s), NEW b, NEW m, NEW lease,
         Committed(s, b, m, lease), NEW i \in DOMAIN resources' \ DOMAIN resources
  PROVE  \E w \in Surfaces(s) :
           /\ w \in RenderedSurface /\ w.url <= s.url
           /\ Found(w) = {} /\ resources'[i] = Entry(w) /\ lease[w] = i
<1>1. i \in Len(resources) + 1 .. Len(resources) + m
  BY CommittedIds
<1>2. \E w \in Surfaces(s) : Found(w) = {} /\ resources'[i] = Entry(w) /\ lease[w] = i
  BY <1>1 DEF Committed
<1> QED BY <1>2, SurfacesFit DEF Committable

LEMMA CommittedEntries ==
  ASSUME SceneInv, NEW s, Committable(s), NEW b, NEW m, NEW lease,
         Committed(s, b, m, lease)
  PROVE  EntriesFit'
<1>3. \A i \in DOMAIN resources' \ DOMAIN resources :
        \E w \in Surfaces(s) :
           /\ w \in RenderedSurface /\ w.url <= s.url
           /\ Found(w) = {} /\ resources'[i] = Entry(w) /\ lease[w] = i
  <2>1. ASSUME NEW i \in DOMAIN resources' \ DOMAIN resources
        PROVE  \E w \in Surfaces(s) :
                 /\ w \in RenderedSurface /\ w.url <= s.url
                 /\ Found(w) = {} /\ resources'[i] = Entry(w) /\ lease[w] = i
    BY NewEntries
  <2> QED BY <2>1
<1>4. \A i \in DOMAIN resources : i \in DOMAIN resources' /\ resources'[i] = resources[i]
  BY CommittedIds
<1>1. ASSUME NEW i \in DOMAIN resources'
      PROVE  /\ resources'[i].url <= s.url
             /\ resources'[i].stage # "failed" /\ ~resources'[i].disposed => resources'[i].listed
  <2>1. CASE i \in DOMAIN resources
    <3>1. resources[i].url \in Nat
      BY <2>1, Ids DEF SceneInv, Entries
    <3>2. scene.url \in Nat /\ s.url \in Nat /\ scene.url <= s.url
      BY DEF SceneInv, SceneTypeOK, Committable, Scenes
    <3> QED BY <1>4, <2>1, <3>1, <3>2 DEF SceneInv, EntriesFit
  <2>2. CASE i \notin DOMAIN resources
    BY <1>3, <2>2 DEF Entry
  <2> QED BY <2>1, <2>2
<1>2. ASSUME NEW i \in DOMAIN resources', NEW j \in DOMAIN resources',
             Live(resources'[i]), Live(resources'[j]),
             SameResource(resources'[i], resources'[j])
      PROVE  i = j
  <2>1. CASE i \in DOMAIN resources /\ j \in DOMAIN resources
    BY <1>2, <1>4, <2>1 DEF SceneInv, EntriesFit
  <2>2. CASE i \in DOMAIN resources /\ j \notin DOMAIN resources
    <3>1. PICK w \in Surfaces(s) : Found(w) = {} /\ resources'[j] = Entry(w)
      BY <1>3, <2>2
    <3>2. SameResource(resources[i], w)
      BY <1>2, <1>4, <2>2, <3>1 DEF SameResource, Entry
    <3>3. i \in Found(w)
      BY <1>2, <1>4, <2>2, <3>2 DEF Found, Live
    <3> QED BY <3>1, <3>3
  <2>3. CASE i \notin DOMAIN resources /\ j \in DOMAIN resources
    <3>1. PICK w \in Surfaces(s) : Found(w) = {} /\ resources'[i] = Entry(w)
      BY <1>3, <2>3
    <3>2. SameResource(resources[j], w)
      BY <1>2, <1>4, <2>3, <3>1 DEF SameResource, Entry
    <3>3. j \in Found(w)
      BY <1>2, <1>4, <2>3, <3>2 DEF Found, Live
    <3> QED BY <3>1, <3>3
  <2>4. CASE i \notin DOMAIN resources /\ j \notin DOMAIN resources
    <3>1. PICK w \in Surfaces(s) : resources'[i] = Entry(w) /\ lease[w] = i
      BY <1>3, <2>4
    <3>2. PICK v \in Surfaces(s) : resources'[j] = Entry(v) /\ lease[v] = j
      BY <1>3, <2>4
    <3>3. SameResource(w, v)
      BY <1>2, <3>1, <3>2 DEF SameResource, Entry
    <3>4. w = v
      BY <3>3, SurfacesDiffer DEF Committable
    <3> QED BY <3>1, <3>2, <3>4
  <2> QED BY <2>1, <2>2, <2>3, <2>4
<1>5. scene'.url = s.url
  BY DEF Committed
<1>6. \A i \in DOMAIN resources' :
        /\ resources'[i].url <= scene'.url
        /\ resources'[i].stage # "failed" /\ ~resources'[i].disposed => resources'[i].listed
  BY <1>1, <1>5
<1>7. \A i, j \in DOMAIN resources' :
        Live(resources'[i]) /\ Live(resources'[j]) /\ SameResource(resources'[i], resources'[j]) =>
           i = j
  BY <1>2
<1> QED BY <1>6, <1>7 DEF EntriesFit

\* What is leased can be used.
LEMMA CommittedLeases ==
  ASSUME SceneInv, NEW s, Committable(s), NEW b, NEW m, NEW lease,
         Committed(s, b, m, lease), NEW w \in Surfaces(s)
  PROVE  /\ lease[w] \in DOMAIN resources' /\ Live(resources'[lease[w]])
         /\ SameResource(resources'[lease[w]], w)
<1> USE CommittedIds
<1>1. lease[w] \in DOMAIN resources'
  BY DEF Committed
<1>2. CASE Found(w) # {}
  <2>1. lease[w] \in Found(w)
    BY <1>2 DEF Committed
  <2> QED BY <1>1, <2>1 DEF Found, Live
<1>3. CASE Found(w) = {}
  <2>1. resources'[lease[w]] = Entry(w)
    BY <1>3 DEF Committed
  <2> QED BY <1>1, <2>1 DEF Entry, Live, SameResource
<1> QED BY <1>2, <1>3

\* The entry that a surface draws is the one it leases next.
LEMMA LeaseIsKept ==
  ASSUME SceneInv, NEW s, Committable(s), NEW b, NEW m, NEW lease,
         Committed(s, b, m, lease), NEW w \in Surfaces(s),
         w.react \in DOMAIN surfaces, surfaces[w.react].loaded # 0,
         SameResource(resources[surfaces[w.react].loaded], w)
  PROVE  lease[w] = surfaces[w.react].loaded
<1> DEFINE k == w.react
           i == surfaces[k].loaded
<1>1. PICK v \in Surfaces(scene) : v.react = k
  BY DEF SceneInv, Rendered
<1>2. surfaces[k].cloud = v.cloud /\ surfaces[k].key = v.key /\ surfaces[k].url = v.url
  BY <1>1 DEF SceneInv, Rendered
<1>3. i \in DOMAIN resources /\ resources[i].url <= scene.url /\ resources[i].url \in Nat
  <2>1. i \in DOMAIN resources
    BY DEF SceneInv, SceneTypeOK, Leased
  <2> QED BY <2>1, Ids DEF SceneInv, EntriesFit, Entries
<1>4. /\ w \in RenderedSurface
      /\ IF w.key = 0 THEN w.react = w.cloud /\ w.cloud \in DOMAIN s.clouds /\ w.url = s.url
         ELSE w.react = w.key
  BY SurfacesFit DEF Committable
<1>5. /\ v \in RenderedSurface
      /\ IF v.key = 0
         THEN v.react = v.cloud /\ v.cloud \in DOMAIN scene.clouds /\ v.url = scene.url
         ELSE v.react = v.key
  BY SurfacesFit DEF SceneInv, SceneTypeOK
<1>6. v.key = w.key
  <2>1. Clouds \cap Int = {} /\ Keys \subseteq Int
    BY SceneAssumption DEF SceneAssumption, Keys
  <2>2. DOMAIN s.clouds \subseteq Clouds /\ DOMAIN scene.clouds \subseteq Clouds
    BY CloudKeys DEF SceneInv, SceneTypeOK, Committable
  <2> QED BY <1>1, <1>4, <1>5, <2>1, <2>2 DEF RenderedSurface
<1>7. SameResource(resources[i], surfaces[k])
  <2>1. CASE w.key # 0
    BY <1>2, <1>6, <2>1 DEF SameResource
  <2>2. CASE w.key = 0
    <3>1. resources[i].url = s.url
      BY <1>4, <2>2 DEF SameResource
    <3>2. scene.url \in Nat /\ s.url \in Nat /\ scene.url <= s.url
      BY DEF SceneInv, SceneTypeOK, Committable, Scenes
    <3>3. s.url = scene.url
      BY <1>3, <3>1, <3>2
    <3> QED BY <1>1, <1>2, <1>4, <1>5, <1>6, <2>2, <3>3 DEF SameResource
  <2> QED BY <2>1, <2>2
<1>8. Drawn(k) = i
  BY <1>7 DEF Drawn
<1>9. i = surfaces[k].lease /\ ~resources[i].disposed /\ resources[i].stage = "ready"
  BY <1>8 DEF SceneInv, Held
<1>10. i \in Found(w)
  BY <1>3, <1>9 DEF SceneInv, EntriesFit, Found
<1>11. Found(w) = {i}
  BY <1>4, <1>10, FoundOnce
<1> QED BY <1>10, <1>11 DEF Committed

LEMMA CommittedHeld ==
  ASSUME SceneInv, NEW s, Committable(s), NEW b, NEW m, NEW lease,
         Committed(s, b, m, lease)
  PROVE  Held'
<1> USE CommittedIds
<1>1. ASSUME NEW w \in Surfaces(s)
      PROVE  LET f == surfaces'[w.react] IN
             /\ ~resources'[f.lease].disposed
             /\ f.loaded # 0 => resources'[f.loaded].stage = "ready"
             /\ f.loaded # 0 /\ SameResource(resources'[f.loaded], f) => f.loaded = f.lease
  <2> DEFINE f == surfaces'[w.react]
             Ready == resources'[lease[w]].stage = "ready"
  <2>1. /\ f.cloud = w.cloud /\ f.key = w.key /\ f.url = w.url /\ f.lease = lease[w]
        /\ f.loaded = IF Ready THEN lease[w] ELSE Before(w).loaded
    <3>1. f = [cloud |-> w.cloud, key |-> w.key, url |-> w.url, lease |-> lease[w],
                loaded |-> IF Ready THEN lease[w] ELSE Before(w).loaded,
                failed |-> StillFailed(w) /\ ~Ready]
      BY Zenon DEF Committed
    <3> HIDE DEF f, Ready
    <3> QED BY <3>1
  <2>2. ~resources'[lease[w]].disposed
    BY CommittedLeases DEF Live
  <2>3. ASSUME f.loaded # 0, ~Ready
        PROVE  /\ w.react \in DOMAIN surfaces /\ f.loaded = surfaces[w.react].loaded
               /\ f.loaded \in DOMAIN resources /\ resources[f.loaded].stage = "ready"
    <3>1. w.react \in DOMAIN surfaces /\ f.loaded = surfaces[w.react].loaded
      BY <2>1, <2>3 DEF Before
    <3>2. f.loaded \in DOMAIN resources
      BY <2>3, <3>1 DEF SceneInv, SceneTypeOK, Leased
    <3> QED BY <2>3, <3>1, <3>2 DEF SceneInv, Held
  <2>4. ASSUME f.loaded # 0, ~Ready, SameResource(resources'[f.loaded], f)
        PROVE  FALSE
    <3>1. SameResource(resources[f.loaded], w)
      BY <2>1, <2>3, <2>4 DEF SameResource
    <3>2. lease[w] = f.loaded
      BY <2>3, <2>4, <3>1, LeaseIsKept
    <3> QED BY <2>3, <2>4, <3>2
  <2> HIDE DEF f
  <2> QED BY <2>1, <2>2, <2>3, <2>4 DEF f
<1>2. DOMAIN surfaces' = {w.react : w \in Surfaces(s)}
  BY DEF Committed
<1>3. \A k \in DOMAIN surfaces' :
        /\ ~resources'[surfaces'[k].lease].disposed
        /\ surfaces'[k].loaded # 0 => resources'[surfaces'[k].loaded].stage = "ready"
        /\ surfaces'[k].loaded # 0
             /\ SameResource(resources'[surfaces'[k].loaded], surfaces'[k])
           => surfaces'[k].loaded = surfaces'[k].lease
  BY <1>1, <1>2
<1>4. \A k \in DOMAIN surfaces' : Drawn(k)' # 0 => Drawn(k)' = surfaces'[k].lease
  BY <1>3 DEF Drawn
<1> QED BY <1>3, <1>4 DEF Held

LEMMA CommittedModels ==
  ASSUME SceneInv, NEW s, Committable(s), NEW b, NEW m, NEW lease,
         Committed(s, b, m, lease)
  PROVE  ModelsStay
<1> USE CommittedIds
<1> SUFFICES ASSUME NEW k \in DOMAIN surfaces,
                    k \in DOMAIN surfaces', k \in Keys, Drawn(k) # 0
             PROVE  Drawn(k)' = Drawn(k)
  BY DEF ModelsStay
<1>1. PICK v \in Surfaces(scene) : v.react = k
  BY DEF SceneInv, Rendered
<1>2. surfaces[k].key = k /\ k # 0
  <2>1. scene \in Scenes /\ KeysFit(scene)
    BY DEF SceneInv, SceneTypeOK
  <2>2. v.key = k /\ k # 0
    BY <1>1, <2>1, KeyedSurface
  <2> QED BY <1>1, <2>2 DEF SceneInv, Rendered
<1>3. PICK w \in Surfaces(s) : w.react = k
  BY DEF Committed
<1>4. w.key = k
  BY <1>3, KeyedSurface DEF Committable
<1> DEFINE i == surfaces[k].loaded
<1>5. /\ Drawn(k) = i /\ i # 0 /\ i \in DOMAIN resources /\ resources[i].key = k
      /\ resources[i].stage = "ready"
  BY <1>2 DEF Drawn, SameResource, SceneInv, SceneTypeOK, Leased, Held
<1>6. lease[w] = i
  <2>1. SameResource(resources[i], w)
    BY <1>2, <1>4, <1>5 DEF SameResource
  <2> QED BY <1>3, <1>5, <2>1, LeaseIsKept
<1>7. resources'[i] = resources[i]
  BY <1>5
<1>8. surfaces'[k].loaded = i /\ surfaces'[k].key = k
  <2>1. surfaces'[w.react] =
          [cloud |-> w.cloud, key |-> w.key, url |-> w.url, lease |-> lease[w],
           loaded |-> IF resources'[lease[w]].stage = "ready" THEN lease[w]
                      ELSE Before(w).loaded,
           failed |-> StillFailed(w) /\ ~(resources'[lease[w]].stage = "ready")]
    BY Zenon DEF Committed
  <2>2. surfaces'[w.react].loaded = lease[w] /\ surfaces'[w.react].key = w.key
    BY <1>5, <1>6, <1>7, <2>1
  <2> QED BY <1>3, <1>4, <1>6, <2>2
<1> QED BY <1>2, <1>5, <1>7, <1>8 DEF Drawn, SameResource

LEMMA CommittedRendered ==
  ASSUME NEW s, NEW b, NEW m, NEW lease, Committed(s, b, m, lease)
  PROVE  Rendered'
<1>1. scene' = s /\ DOMAIN surfaces' = {w.react : w \in Surfaces(s)}
  BY DEF Committed
<1>2. ASSUME NEW w \in Surfaces(s)
      PROVE  /\ surfaces'[w.react].cloud = w.cloud
             /\ surfaces'[w.react].key = w.key
             /\ surfaces'[w.react].url = w.url
  <2> DEFINE f == surfaces'[w.react]
             Ready == resources'[lease[w]].stage = "ready"
             loaded == IF Ready THEN lease[w] ELSE Before(w).loaded
             failed == StillFailed(w) /\ ~Ready
  <2>1. f = [cloud |-> w.cloud, key |-> w.key, url |-> w.url, lease |-> lease[w],
             loaded |-> loaded, failed |-> failed]
    BY Zenon DEF Committed
  <2> HIDE DEF f, loaded, failed
  <2>2. f.cloud = w.cloud /\ f.key = w.key /\ f.url = w.url
    BY <2>1
  <2> QED BY <2>2 DEF f
<1> QED BY <1>1, <1>2 DEF Rendered

LEMMA CommittedBackend ==
  ASSUME SceneInv, NEW s, Committable(s), PageOf(s), NEW b, Base(b),
         NEW m, NEW lease, Committed(s, b, m, lease)
  PROVE  /\ backend' \in Backends(DOMAIN resources') /\ BackendFits(backend')
         /\ AliveFits' /\ PageFits'
<1> DEFINE new == Len(resources) + 1 .. Len(resources) + m
           ids == DOMAIN resources'
<1>1. backend' = createClouds(b, new)
  BY DEF Committed
<1>2. DOMAIN resources \subseteq ids /\ new \subseteq ids /\ ids = DOMAIN resources \cup new
  <2>1. m \in Nat /\ Len(resources) \in Nat /\ DOMAIN resources = 1 .. Len(resources)
          /\ ids = 1 .. Len(resources) + m
    BY CommittedIds
  <2> HIDE DEF ids
  <2> QED BY <2>1
<1>3. b \in Backends(ids)
  BY <1>2 DEF Base, Backends
<1>4. new # {} => ~b.disposed
  <2>1. ~s.mounted => m = 0
    BY DEF Committed
  <2>2. Len(resources) \in Nat
    BY CommittedIds
  <2>3. m = 0 => new = {}
    BY <2>2
  <2> QED BY <2>1, <2>3 DEF PageOf, Base
<1>5. LET r == createClouds(b, new) IN
      r \in Backends(ids) /\ BackendFits(r) /\ LoadsBegin(b, new, r)
  <2>1. /\ b \in Backends(ids) /\ BackendFits(b)
        /\ new \in SUBSET ids /\ (new # {} => ~b.disposed)
    BY <1>2, <1>3, <1>4 DEF Base
  <2> HIDE DEF new, ids
  <2> QED BY <2>1, CreatedClouds
<1>6. /\ backend' \in Backends(ids) /\ BackendFits(backend')
      /\ backend'.tiles = backend.tiles /\ backend'.disposed = backend.disposed
      /\ backend'.loads = backend.loads \cup new
      /\ backend'.alive = IF backend.tiles THEN backend.alive ELSE backend.alive \cup new
  <2> HIDE DEF new, ids
  <2> QED BY <1>1, <1>5 DEF Base, LoadsBegin
<1>7. ASSUME NEW i \in DOMAIN resources
      PROVE  resources'[i] = resources[i]
  BY CommittedIds
<1>8. ASSUME NEW i \in new
      PROVE  resources'[i].stage = "download"
  <2>1. \E w \in Surfaces(s) : resources'[i] = Entry(w)
    BY DEF Committed
  <2> QED BY <2>1 DEF Entry
<1>9. backend.loads \subseteq DOMAIN resources
  BY DEF SceneInv, SceneTypeOK, Backends
<1>10. ASSUME NEW i \in ids
       PROVE  LET e == resources'[i] IN
              /\ ~backend'.disposed /\ ~e.disposed /\ e.stage \in {"render", "ready"} =>
                    i \in backend'.alive
              /\ e.stage = "render" => backend'.tiles
  <2> HIDE DEF new, ids
  <2>1. CASE i \in DOMAIN resources
    BY <1>6, <1>7, <2>1 DEF SceneInv, AliveFits
  <2>2. CASE i \in new
    BY <1>8, <2>2
  <2> QED BY <1>2, <2>1, <2>2
<1>11. ASSUME NEW i \in backend'.loads
       PROVE  /\ resources'[i].stage \in {"download", "render"}
              /\ ~backend'.tiles /\ ~backend'.disposed => i \in backend'.alive
  <2> HIDE DEF new, ids
  <2>1. CASE i \in backend.loads
    BY <1>6, <1>7, <1>9, <2>1 DEF SceneInv, AliveFits
  <2>2. CASE i \in new
    BY <1>6, <1>8, <2>2
  <2> QED BY <1>6, <1>11, <2>1, <2>2
<1>12. scene' = s
  BY DEF Committed
<1>13. PageFits'
  BY <1>6, <1>12 DEF PageFits, PageOf
<1>14. AliveFits'
  BY <1>10, <1>11 DEF AliveFits
<1> QED BY <1>6, <1>13, <1>14

LEMMA CommittedTypes ==
  ASSUME SceneInv, NEW s, Committable(s), PageOf(s), NEW b, Base(b),
         NEW m, NEW lease, Committed(s, b, m, lease),
         signed' = signed, turns' \in 0 .. MaxTurns
  PROVE  SceneTypeOK'
<1>1. signed' \in BOOLEAN /\ scene' \in Scenes
  BY DEF Committed, Committable, SceneInv, SceneTypeOK
<1>2. resources' \in Seq(Entries)
  BY DEF Committed
<1>3. backend' \in Backends(DOMAIN resources')
  BY CommittedBackend
<1>4. releases' \subseteq DOMAIN resources'
  <2>1. Leases \subseteq DOMAIN resources /\ releases \subseteq DOMAIN resources
    BY DEF SceneInv, SceneTypeOK, Leases, Leased
  <2>2. releases' = releases \cup Leases
    BY DEF Committed
  <2>3. DOMAIN resources \subseteq DOMAIN resources'
    BY CommittedIds
  <2> QED BY <2>1, <2>2, <2>3
<1>5. DOMAIN surfaces' = {w.react : w \in Surfaces(s)}
  BY DEF Committed
<1>6. DOMAIN surfaces' \subseteq Clouds \cup Keys
  BY <1>5, SurfacesFit DEF RenderedSurface, Committable
<1>7. ASSUME NEW w \in Surfaces(s)
      PROVE  surfaces'[w.react] \in Leased(DOMAIN resources')
  <2> DEFINE f == surfaces'[w.react]
             Ready == resources'[lease[w]].stage = "ready"
  <2>1. f = [cloud |-> w.cloud, key |-> w.key, url |-> w.url, lease |-> lease[w],
             loaded |-> IF Ready THEN lease[w] ELSE Before(w).loaded,
             failed |-> StillFailed(w) /\ ~Ready]
    BY Zenon DEF Committed
  <2>2. w \in RenderedSurface
    BY SurfacesFit DEF Committable
  <2>3. lease[w] \in DOMAIN resources'
    BY CommittedLeases
  <2>4. Before(w).loaded \in {0} \cup DOMAIN resources'
    <3>1. DOMAIN resources \subseteq DOMAIN resources'
      BY CommittedIds
    <3> QED BY <3>1 DEF Before, SceneInv, SceneTypeOK, Leased
  <2> DEFINE failed == StillFailed(w) /\ ~Ready
             loaded == IF Ready THEN lease[w] ELSE Before(w).loaded
  <2>5. failed \in BOOLEAN /\ loaded \in {0} \cup DOMAIN resources'
    BY <2>3, <2>4
  <2>6. f = [cloud |-> w.cloud, key |-> w.key, url |-> w.url, lease |-> lease[w],
             loaded |-> loaded, failed |-> failed]
    BY <2>1
  <2> HIDE DEF f, Ready, failed, loaded
  <2> QED BY <2>2, <2>3, <2>5, <2>6 DEF f, RenderedSurface, Leased
<1>8. \A k \in DOMAIN surfaces' : surfaces'[k] \in Leased(DOMAIN resources')
  BY <1>5, <1>7
<1> QED BY <1>1, <1>2, <1>3, <1>4, <1>6, <1>8 DEF SceneTypeOK

\* Whatever is committed, the invariant holds.
\* The steps in which React commits a scene.
Commit ==
  /\ \E s, b : Committable(s) /\ PageOf(s) /\ Base(b) /\ Commits(s, b)
  /\ signed' = signed /\ turns' \in 0 .. MaxTurns

LEMMA CommitKeeps == ASSUME SceneInv, Commit PROVE SceneInv' /\ ModelsStay
<1>1. PICK s, b : Committable(s) /\ PageOf(s) /\ Base(b) /\ Commits(s, b)
  BY DEF Commit
<1>2. PICK m, lease : Committed(s, b, m, lease)
  BY <1>1, CommitsAre
<1>3. scene' = s
  BY <1>2 DEF Committed
<1>4. IsFiniteSet(DOMAIN scene'.clouds) /\ KeysFit(scene')
  BY <1>1, <1>3 DEF Committable
<1>5. SceneTypeOK'
  BY <1>1, <1>2, CommittedTypes DEF Commit
<1>6. PageFits' /\ AliveFits' /\ BackendFits(backend')
  BY <1>1, <1>2, CommittedBackend
<1>7. Rendered'
  BY <1>2, CommittedRendered
<1>8. Held' /\ EntriesFit' /\ ModelsStay
  BY <1>1, <1>2, CommittedHeld, CommittedEntries, CommittedModels
<1> QED BY <1>4, <1>5, <1>6, <1>7, <1>8 DEF SceneInv

-----------------------------------------------------------------------------
(* The steps that commit a scene *)

LEMMA SceneFits ==
  ASSUME SceneInv
  PROVE  /\ scene \in Scenes /\ KeysFit(scene) /\ IsFiniteSet(DOMAIN scene.clouds)
         /\ scene.url \in Nat /\ PageOf(scene) /\ Base(backend) /\ turns \in 0 .. MaxTurns
         /\ Turn => turns' \in 0 .. MaxTurns
<1>1. Base(backend)
  BY DEF SceneInv, SceneTypeOK, Base
<1>2. scene \in Scenes /\ turns \in 0 .. MaxTurns
  BY DEF SceneInv, SceneTypeOK
<1>3. PageOf(scene)
  BY DEF SceneInv, PageFits, PageOf
<1>4. scene.url \in Nat
  BY <1>2 DEF Scenes
<1>5. Turn => turns' \in 0 .. MaxTurns
  BY <1>2, SceneAssumption DEF SceneAssumption, Turn
<1> QED BY <1>1, <1>2, <1>3, <1>4, <1>5 DEF SceneInv

LEMMA ListsFit ==
  ASSUME SceneInv, NEW list \in Answers
  PROVE  /\ list \in Lists /\ IsFiniteSet(DOMAIN list)
         /\ \A c \in DOMAIN list \ DOMAIN scene.clouds : scene.transferred[c] = 0
<1> DEFINE D == DOMAIN scene.clouds
<1>1. scene.clouds \in Lists /\ D \subseteq Clouds /\ scene.clouds \in [D -> Spots]
        /\ IsFiniteSet(D)
  BY SceneFits DEF Scenes, Lists
<1>2. CASE list \in Added
  <2>1. PICK c \in Fresh, spot \in Spots :
          list = [d \in D \cup {c} |-> IF d = c THEN spot ELSE scene.clouds[d]]
    <3>1. PICK c \in Fresh, spot \in Spots : list = Plus(c, spot)
      BY <1>2 DEF Added
    <3> QED BY <3>1 DEF Plus
  <2>2. DOMAIN list = D \cup {c} /\ c \in Clouds /\ scene.transferred[c] = 0
    BY <2>1 DEF Fresh
  <2>3. IsFiniteSet(D \cup {c})
    BY <1>1, FS_AddElement
  <2>4. list \in [D \cup {c} -> Spots]
    BY <1>1, <2>1
  <2>5. list \in Lists
    BY <1>1, <2>2, <2>4 DEF Lists
  <2> QED BY <2>2, <2>3, <2>5
<1>3. CASE list \in Removed
  <2>1. PICK c \in D : list = [d \in D \ {c} |-> scene.clouds[d]]
    BY <1>3 DEF Removed
  <2>2. IsFiniteSet(D \ {c})
    BY <1>1, FS_RemoveElement
  <2>3. list \in [D \ {c} -> Spots] /\ DOMAIN list = D \ {c}
    BY <1>1, <2>1
  <2>4. list \in Lists
    BY <1>1, <2>3 DEF Lists
  <2> QED BY <2>2, <2>3, <2>4
<1>4. CASE list = scene.clouds
  BY <1>1, <1>4
<1>5. CASE list \in Moved
  <2>1. DOMAIN list = D /\ list \in [D -> Spots]
    BY <1>1, <1>5 DEF Moved
  <2>2. list \in Lists
    BY <1>1, <2>1 DEF Lists
  <2> QED BY <1>1, <2>1, <2>2
<1> QED BY <1>2, <1>3, <1>4, <1>5 DEF Answers

LEMMA ReadFits ==
  ASSUME SceneInv, NEW list \in Answers
  PROVE  LET s == Read(scene, list) IN
         /\ Committable(s)
         /\ s.mounted = scene.mounted /\ s.timer = scene.timer /\ s.preview = scene.preview
         /\ s.transferred = scene.transferred
         /\ s.placed = scene.placed /\ s.adding = scene.adding
<1> DEFINE s == Read(scene, list)
           url == IF signed THEN scene.url + 1 ELSE scene.url
<1>1. s = [scene EXCEPT !.clouds = list, !.url = url]
  BY SceneFits DEF Read, Scenes
<1>2. url \in Nat /\ scene.url <= url
  BY SceneFits
<1>3. /\ list \in Lists /\ IsFiniteSet(DOMAIN list)
      /\ \A c \in DOMAIN list \ DOMAIN scene.clouds : scene.transferred[c] = 0
  BY ListsFit
<1> HIDE DEF s, url
<1>4. /\ s \in Scenes /\ s.clouds = list /\ s.url = url
      /\ s.mounted = scene.mounted /\ s.timer = scene.timer /\ s.preview = scene.preview
      /\ s.placed = scene.placed /\ s.adding = scene.adding
      /\ s.transferred = scene.transferred /\ s.next = scene.next
  BY <1>1, <1>2, <1>3, SceneFits DEF Scenes
<1>5. KeysFit(s)
  <2>1. KeysFit(scene)
    BY SceneFits
  <2>2. \A c \in DOMAIN list \ scene.placed.before :
          scene.placed # Nobody => scene.transferred[c] = 0
    BY <1>3, <2>1 DEF KeysFit
  <2> QED BY <1>4, <2>1, <2>2 DEF KeysFit
<1>6. Committable(s)
  BY <1>2, <1>3, <1>4, <1>5 DEF Committable
<1> QED BY <1>4, <1>6 DEF s

LEMMA MountCommits == ASSUME SceneInv, Mount PROVE Commit
<1> DEFINE s == [scene EXCEPT !.mounted = TRUE]
<1>1. /\ s \in Scenes /\ s.mounted /\ s.timer = scene.timer /\ s.preview = scene.preview
      /\ s.clouds = scene.clouds /\ s.url = scene.url /\ s.placed = scene.placed
      /\ s.transferred = scene.transferred /\ s.next = scene.next
  BY SceneFits DEF Scenes
<1> HIDE DEF s
<1>2. KeysFit(s)
  BY <1>1, SceneFits DEF KeysFit
<1>3. Committable(s) /\ PageOf(s)
  BY <1>1, <1>2, SceneFits DEF Committable, PageOf, Mount
<1> QED BY <1>3, SceneFits DEF Commit, Mount, s

LEMMA RefetchCommits == ASSUME SceneInv, Refetch PROVE Commit
<1>1. PICK list \in Answers :
        Commits(Read(scene, list), backend)
  BY DEF Refetch
<1> DEFINE s == Read(scene, list)
<1>2. Committable(s) /\ PageOf(s)
  BY ReadFits, SceneFits DEF PageOf
<1> HIDE DEF s
<1> QED BY <1>1, <1>2, SceneFits DEF Commit, Refetch, s

LEMMA UpdatePreviewCommits == ASSUME SceneInv, updatePreview PROVE Commit
<1>1. Committable(scene)
  BY SceneFits DEF Committable
<1> QED BY <1>1, SceneFits DEF Commit, updatePreview

LEMMA StartCommits == ASSUME SceneInv, startCloudPlacement PROVE Commit
<1> DEFINE s == [scene EXCEPT !.next = @ + 1, !.preview = scene.next + 1]
<1>1. scene.next \in Nat /\ scene.next + 1 \in Keys /\ Keys \subseteq Nat
  BY SceneFits, SceneAssumption DEF SceneAssumption, startCloudPlacement, Scenes, Keys
<1>2. s \in Scenes
  BY <1>1, SceneFits DEF Scenes
<1>3. /\ s.next = scene.next + 1 /\ s.preview = scene.next + 1 /\ s.clouds = scene.clouds
      /\ s.placed = scene.placed /\ s.transferred = scene.transferred /\ s.url = scene.url
      /\ s.mounted = scene.mounted /\ s.timer = scene.timer
  BY SceneFits DEF Scenes
<1> HIDE DEF s
<1>4. \A c \in Clouds : scene.transferred[c] \in Nat
  BY <1>1, SceneFits DEF Scenes
<1>5. scene.placed # Nobody => scene.placed.key \in Nat
  BY <1>1, SceneFits DEF Scenes
<1>6. KeysFit(s)
  <2>1. KeysFit(scene)
    BY SceneFits
  <2>2. \A c \in Clouds : scene.transferred[c] <= scene.next
    BY <2>1 DEF KeysFit
  <2>3. \A c \in Clouds : /\ s.transferred[c] <= s.next
                          /\ s.transferred[c] # 0 => s.transferred[c] # s.preview
    <3>1. \A x, n \in Nat : x <= n => x <= n + 1 /\ x # n + 1
      OBVIOUS
    <3> QED BY <1>1, <1>3, <1>4, <2>2, <3>1
  <2>4. s.placed # Nobody => s.placed.key <= s.next /\ s.placed.key # s.preview
    <3>1. s.placed # Nobody => s.placed.key <= scene.next
      BY <1>3, <2>1 DEF KeysFit
    <3>2. \A x, n \in Nat : x <= n => x <= n + 1 /\ x # n + 1
      OBVIOUS
    <3> QED BY <1>1, <1>3, <1>5, <3>1, <3>2
  <2> QED BY <1>3, <2>1, <2>3, <2>4 DEF KeysFit
<1>7. Committable(s) /\ PageOf(s)
  BY <1>2, <1>3, <1>6, SceneFits DEF Committable, PageOf, startCloudPlacement
<1> QED BY <1>7, SceneFits DEF Commit, startCloudPlacement, s

LEMMA CancelCommits == ASSUME SceneInv, cancel PROVE Commit
<1> DEFINE s == [scene EXCEPT !.preview = 0]
<1>1. 0 \in Keys
  BY SceneAssumption DEF SceneAssumption, Keys
<1>2. s \in Scenes
  BY <1>1, SceneFits DEF Scenes
<1>3. /\ s.next = scene.next /\ s.preview = 0 /\ s.clouds = scene.clouds
      /\ s.placed = scene.placed /\ s.transferred = scene.transferred /\ s.url = scene.url
      /\ s.mounted = scene.mounted /\ s.timer = scene.timer
  BY SceneFits DEF Scenes
<1> HIDE DEF s
<1>4. scene.placed # Nobody => scene.placed.key # 0
  BY SceneFits DEF Scenes
<1>5. KeysFit(s)
  <2>1. KeysFit(scene)
    BY SceneFits
  <2> QED BY <1>3, <1>4, <2>1 DEF KeysFit
<1>6. Committable(s) /\ PageOf(s)
  BY <1>2, <1>3, <1>5, SceneFits DEF Committable, PageOf
<1> QED BY <1>6, SceneFits DEF Commit, cancel, s

LEMMA TapCommits == ASSUME SceneInv, onTap PROVE Commit
<1>1. scene.mounted /\ scene.preview # 0
  BY DEF onTap
<1>2. PICK spot \in Spots :
        LET asked == [key |-> scene.preview, spot |-> spot] IN
        Commits(IF scene.adding = Nobody
                THEN [scene EXCEPT !.preview = 0, !.adding = asked,
                        !.placed = [key |-> scene.preview, spot |-> spot,
                                    before |-> DOMAIN scene.clouds]]
                ELSE [scene EXCEPT !.preview = 0, !.placed = Nobody], backend)
  BY DEF onTap
<1> DEFINE asked == [key |-> scene.preview, spot |-> spot]
           placed == [key |-> scene.preview, spot |-> spot, before |-> DOMAIN scene.clouds]
           s == [scene EXCEPT !.preview = 0, !.adding = asked, !.placed = placed]
           r == [scene EXCEPT !.preview = 0, !.placed = Nobody]
<1>3. /\ scene.preview \in Keys \ {0} /\ 0 \in Keys
      /\ DOMAIN scene.clouds \in SUBSET Clouds
      /\ scene.next \in Nat
  BY <1>1, SceneFits, SceneAssumption DEF SceneAssumption, Scenes, Keys, Lists
<1>4. /\ asked \in [key : Keys \ {0}, spot : Spots]
      /\ placed \in [key : Keys \ {0}, spot : Spots, before : SUBSET Clouds]
  BY <1>3
<1>5. s \in Scenes /\ r \in Scenes
  <2> HIDE DEF asked, placed
  <2> QED BY <1>3, <1>4, SceneFits DEF Scenes
<1>6. /\ s.next = scene.next /\ s.preview = 0 /\ s.clouds = scene.clouds
      /\ s.placed = placed /\ s.transferred = scene.transferred /\ s.url = scene.url
      /\ s.mounted = scene.mounted /\ s.timer = scene.timer
  <2> HIDE DEF asked, placed
  <2> QED BY SceneFits DEF Scenes
<1>7. /\ r.next = scene.next /\ r.preview = 0 /\ r.clouds = scene.clouds
      /\ r.placed = Nobody /\ r.transferred = scene.transferred /\ r.url = scene.url
      /\ r.mounted = scene.mounted /\ r.timer = scene.timer
  BY SceneFits DEF Scenes
<1>8. KeysFit(scene)
  BY SceneFits
<1>9. scene.preview = scene.next
  BY <1>1, <1>8 DEF KeysFit
<1>10. placed.key = scene.preview /\ placed.before = DOMAIN scene.clouds
  OBVIOUS
<1> HIDE DEF s, r, placed, asked
<1>11. KeysFit(s)
  <2>1. /\ \A c \in Clouds : /\ scene.transferred[c] <= scene.next
                             /\ scene.transferred[c] # 0 => scene.transferred[c] # scene.preview
        /\ \A c, d \in Clouds : scene.transferred[c] = scene.transferred[d] =>
                                   c = d \/ scene.transferred[c] = 0
    BY <1>8 DEF KeysFit
  <2>2. \A c \in Clouds : scene.transferred[c] # scene.preview
    BY <1>1, <2>1
  <2>3. scene.next <= scene.next
    BY <1>3
  <2> QED BY <1>1, <1>6, <1>9, <1>10, <2>1, <2>2, <2>3 DEF KeysFit
<1>12. KeysFit(r)
  BY <1>7, <1>8 DEF KeysFit
<1>13. Committable(s) /\ PageOf(s) /\ Committable(r) /\ PageOf(r)
  BY <1>5, <1>6, <1>7, <1>11, <1>12, SceneFits DEF Committable, PageOf
<1>14. Commits(s, backend) \/ Commits(r, backend)
  BY <1>2 DEF s, r, placed, asked
<1> QED BY <1>13, <1>14, SceneFits DEF Commit, onTap

LEMMA PlaceCommits == ASSUME SceneInv, onPlace PROVE Commit
<1>1. scene.mounted
  BY DEF onPlace
<1>2. ASSUME NEW list \in Answers,
             NEW placed \in {scene.placed, Nobody}
      PROVE  LET s == [Read(scene, list) EXCEPT !.adding = Nobody, !.placed = placed] IN
             Committable(s) /\ PageOf(s)
  <2> DEFINE q == Read(scene, list)
             s == [q EXCEPT !.adding = Nobody, !.placed = placed]
  <2>1. /\ Committable(q)
        /\ q.mounted = scene.mounted /\ q.timer = scene.timer /\ q.preview = scene.preview
        /\ q.placed = scene.placed
    BY ReadFits
  <2> HIDE DEF q
  <2>2. placed \in {Nobody} \cup [key : Keys \ {0}, spot : Spots, before : SUBSET Clouds]
    BY SceneFits DEF Scenes
  <2>3. s \in Scenes /\ s.placed = placed /\ s.clouds = q.clouds /\ s.url = q.url
          /\ s.mounted = q.mounted /\ s.timer = q.timer /\ s.preview = q.preview
          /\ s.next = q.next /\ s.transferred = q.transferred
    BY <2>1, <2>2 DEF Committable, Scenes
  <2> HIDE DEF s
  <2>4. KeysFit(s)
    BY <2>1, <2>3 DEF Committable, KeysFit
  <2>5. Committable(s)
    BY <2>1, <2>3, <2>4 DEF Committable
  <2>6. PageOf(s)
    BY <2>1, <2>3, SceneFits DEF PageOf
  <2> QED BY <2>5, <2>6 DEF s, q
<1>3. \E list \in Added \cup {scene.clouds}, placed \in {scene.placed, Nobody} :
        Commits([Read(scene, list) EXCEPT !.adding = Nobody, !.placed = placed], backend)
  <2>1. ASSUME NEW list \in Added,
               Commits([Read(scene, list) EXCEPT !.adding = Nobody], backend)
        PROVE  Commits([Read(scene, list) EXCEPT !.adding = Nobody, !.placed = scene.placed],
                       backend)
    <3> DEFINE q == Read(scene, list)
    <3>1. q \in Scenes /\ q.placed = scene.placed
      BY ReadFits DEF Committable, Answers
    <3> HIDE DEF q
    <3>2. [q EXCEPT !.adding = Nobody] = [q EXCEPT !.adding = Nobody, !.placed = scene.placed]
      BY <3>1 DEF Scenes
    <3> QED BY <2>1, <3>2 DEF q
  <2>2. ASSUME Commits([Read(scene, scene.clouds) EXCEPT
                      !.adding = Nobody,
                      !.placed = IF @ # Nobody /\ @.key = scene.adding.key
                                 THEN Nobody ELSE @], backend)
        PROVE \E placed \in {scene.placed, Nobody} :
                Commits([Read(scene, scene.clouds) EXCEPT !.adding = Nobody,
                                                          !.placed = placed], backend)
    <3> DEFINE q == Read(scene, scene.clouds)
               placed == IF scene.placed # Nobody /\ scene.placed.key = scene.adding.key
                         THEN Nobody ELSE scene.placed
    <3>1. q.placed = scene.placed
      BY ReadFits DEF Answers
    <3>2. placed \in {scene.placed, Nobody}
      OBVIOUS
    <3>3. Commits([q EXCEPT !.adding = Nobody, !.placed = placed], backend)
      BY <2>2, <3>1
    <3> HIDE DEF q, placed
    <3> QED BY <3>2, <3>3 DEF q
  <2> QED BY <2>1, <2>2 DEF onPlace
<1>4. turns' \in 0 .. MaxTurns /\ signed' = signed
  BY SceneFits DEF onPlace
<1>5. Added \cup {scene.clouds} \subseteq Answers
  BY DEF Answers
<1> QED BY <1>2, <1>3, <1>4, <1>5, SceneFits DEF Commit

LEMMA FinishCommits == ASSUME SceneInv, finishPlacement PROVE Commit
<1>1. PICK k \in DOMAIN surfaces :
        /\ surfaces[k].cloud \in placedCloud(scene)
        /\ Commits([scene EXCEPT !.transferred[surfaces[k].cloud] = scene.placed.key,
                                 !.placed = Nobody], backend)
  BY DEF finishPlacement
<1> DEFINE c == surfaces[k].cloud
           s == [scene EXCEPT !.transferred[c] = scene.placed.key, !.placed = Nobody]
<1>2. c \in Clouds /\ scene.placed # Nobody /\ scene.placed.key \in Keys
  <2>1. c \in DOMAIN scene.clouds /\ scene.placed # Nobody
    BY <1>1, PlacedClouds
  <2> QED BY <2>1, SceneFits DEF Scenes, Lists
<1>3. scene.transferred \in [Clouds -> Keys]
  BY SceneFits DEF Scenes
<1> HIDE DEF c
<1>4. /\ s \in Scenes /\ s.next = scene.next /\ s.preview = scene.preview
      /\ s.clouds = scene.clouds /\ s.placed = Nobody /\ s.url = scene.url
      /\ s.mounted = scene.mounted /\ s.timer = scene.timer
      /\ s.transferred = [scene.transferred EXCEPT ![c] = scene.placed.key]
  BY <1>2, <1>3, SceneFits DEF Scenes
<1> HIDE DEF s
<1>5. \A d \in Clouds : s.transferred[d] = IF d = c THEN scene.placed.key
                                           ELSE scene.transferred[d]
  BY <1>3, <1>4
<1>6. KeysFit(s)
  <2>1. KeysFit(scene)
    BY SceneFits
  <2> QED BY <1>2, <1>4, <1>5, <2>1 DEF KeysFit
<1>7. Committable(s) /\ PageOf(s)
  BY <1>4, <1>6, SceneFits DEF Committable, PageOf
<1>8. Commits(s, backend)
  BY <1>1 DEF s, c
<1> QED BY <1>7, <1>8, SceneFits DEF Commit, finishPlacement

LEMMA LeaveCommits == ASSUME SceneInv, Leave PROVE Commit
<1> DEFINE s == [scene EXCEPT !.mounted = FALSE, !.timer = TRUE, !.preview = 0,
                              !.placed = Nobody, !.adding = Nobody]
           d == setDepthEnabled(backend, FALSE)
           b == syncLidarFrame([d EXCEPT !.lidar = FALSE])
<1>1. 0 \in Keys
  BY SceneAssumption DEF SceneAssumption, Keys
<1>2. /\ s \in Scenes /\ s.next = scene.next /\ s.preview = 0
      /\ s.clouds = scene.clouds /\ s.placed = Nobody /\ s.url = scene.url
      /\ ~s.mounted /\ s.transferred = scene.transferred
  BY <1>1, SceneFits DEF Scenes
<1> HIDE DEF s
<1>3. KeysFit(s)
  BY <1>2, SceneFits DEF KeysFit
<1>4. Committable(s) /\ PageOf(s)
  BY <1>2, <1>3, SceneFits DEF Committable, PageOf
<1>5. /\ backend \in Backends(DOMAIN resources) /\ BackendFits(backend) /\ ~backend.disposed
  BY SceneFits DEF Base, PageOf, Leave
<1>6. /\ d \in Backends(DOMAIN resources) /\ PassFits(d) /\ (d.pass = 0 <=> backend.pass = 0)
      /\ d = [backend EXCEPT !.depth = FALSE, !.pass = d.pass, !.passes = d.passes,
                             !.layers = d.layers]
  BY <1>5, SwitchedDepth DEF BackendFits
<1> HIDE DEF d
<1>7. /\ d.disposed = backend.disposed /\ d.tiles = backend.tiles /\ d.loads = backend.loads
      /\ d.clouds = backend.clouds /\ d.alive = backend.alive
  BY <1>5, <1>6 DEF Backends
<1>8. /\ b \in Backends(DOMAIN resources) /\ PassFits(b)
      /\ b = [d EXCEPT !.lidar = FALSE, !.layers = b.layers]
  BY <1>5, <1>6, <1>7, SyncedLidar
<1> HIDE DEF b
<1>9. /\ b.disposed = backend.disposed /\ b.tiles = backend.tiles /\ b.loads = backend.loads
      /\ b.clouds = backend.clouds /\ b.alive = backend.alive /\ b.pass = d.pass
  BY <1>6, <1>7, <1>8 DEF Backends
<1>10. Base(b)
  BY <1>5, <1>6, <1>8, <1>9 DEF Base, BackendFits, Needed
<1>11. Commits(s, b)
  BY DEF Leave, s, b, d
<1> QED BY <1>4, <1>10, <1>11, SceneFits DEF Commit, Leave

-----------------------------------------------------------------------------
(* The other steps *)

LEMMA SwitchKeeps == ASSUME SceneInv, Switch PROVE SceneInv' /\ ModelsStay
<1> DEFINE d == setDepthEnabled(backend, ~backend.depth)
           l == syncLidarFrame([backend EXCEPT !.lidar = ~@])
<1>1. /\ backend \in Backends(DOMAIN resources) /\ BackendFits(backend) /\ ~backend.disposed
  BY SceneFits DEF Base, PageOf, Switch
<1>2. backend.depth \in BOOLEAN /\ backend.lidar \in BOOLEAN
  BY <1>1 DEF Backends
<1>3. /\ d \in Backends(DOMAIN resources) /\ PassFits(d) /\ (d.pass = 0 <=> backend.pass = 0)
      /\ d = [backend EXCEPT !.depth = ~backend.depth, !.pass = d.pass, !.passes = d.passes,
                             !.layers = d.layers]
  <2>1. (~backend.depth) \in BOOLEAN
    BY <1>2
  <2> QED BY <1>1, <2>1, SwitchedDepth DEF BackendFits
<1>4. /\ l \in Backends(DOMAIN resources) /\ PassFits(l)
      /\ l = [backend EXCEPT !.lidar = ~backend.lidar, !.layers = l.layers]
  <2>1. (~backend.lidar) \in BOOLEAN
    BY <1>2
  <2>2. l = syncLidarFrame([backend EXCEPT !.lidar = ~backend.lidar])
    OBVIOUS
  <2> HIDE DEF l
  <2> QED BY <1>1, <2>1, <2>2, SyncedLidar DEF BackendFits
<1> HIDE DEF d, l
<1>5. backend' = d \/ backend' = l
  BY DEF Switch, d, l
<1>6. /\ backend' \in Backends(DOMAIN resources) /\ PassFits(backend')
      /\ backend'.pass = 0 <=> backend.pass = 0
      /\ backend'.disposed = backend.disposed /\ backend'.tiles = backend.tiles
      /\ backend'.loads = backend.loads /\ backend'.clouds = backend.clouds
      /\ backend'.alive = backend.alive
  <2>1. CASE backend' = d
    BY <1>1, <1>3, <2>1 DEF Backends
  <2>2. CASE backend' = l
    BY <1>1, <1>4, <2>2 DEF Backends
  <2> QED BY <1>5, <2>1, <2>2
<1>7. BackendFits(backend')
  BY <1>1, <1>6 DEF BackendFits, Needed
<1>8. UNCHANGED <<signed, scene, surfaces, resources, releases>> /\ turns' \in 0 .. MaxTurns
  BY SceneFits DEF Switch
<1>9. SceneTypeOK'
  BY <1>6, <1>8 DEF SceneInv, SceneTypeOK
<1>10. AliveFits' /\ PageFits'
  BY <1>6, <1>8 DEF SceneInv, AliveFits, PageFits
<1>11. Rendered' /\ EntriesFit'
  BY <1>8 DEF SceneInv, Rendered, EntriesFit
<1>12. Held'
  BY <1>8 DEF SceneInv, Held, Drawn
<1>13. ModelsStay
  BY <1>8 DEF ModelsStay, Drawn
<1> QED BY <1>7, <1>8, <1>9, <1>10, <1>11, <1>12, <1>13 DEF SceneInv

\* A microtask gives up what no surface leases.
LEMMA ReleaseKeeps == ASSUME SceneInv, releaseMicrotasks PROVE SceneInv' /\ ModelsStay
<1> DEFINE unused == {i \in releases \ Leases : ~resources[i].disposed}
           b == [backend EXCEPT !.alive = @ \ {i \in unused : resources[i].stage = "render"}]
           gone == {i \in unused : resources[i].stage = "ready"}
<1>1. UNCHANGED <<signed, scene, surfaces, turns>> /\ releases' = {}
  BY DEF releaseMicrotasks
<1>2. /\ resources' = [i \in DOMAIN resources |->
                         IF i \in unused
                         THEN [resources[i] EXCEPT !.disposed = TRUE, !.listed = FALSE]
                         ELSE resources[i]]
      /\ backend' = Without(b, gone)
  BY DEF releaseMicrotasks
<1>3. /\ DOMAIN resources = 1 .. Len(resources) /\ Len(resources) \in Nat
      /\ \A i \in DOMAIN resources : resources[i] \in Entries
      /\ unused \subseteq DOMAIN resources
  BY Ids DEF SceneInv, SceneTypeOK
<1>4. /\ backend \in Backends(DOMAIN resources) /\ BackendFits(backend)
  BY SceneFits DEF Base
<1>5. /\ b \in Backends(DOMAIN resources) /\ BackendFits(b)
      /\ b.tiles = backend.tiles /\ b.disposed = backend.disposed
      /\ b.clouds = backend.clouds /\ b.loads = backend.loads
      /\ b.alive = backend.alive \ {i \in unused : resources[i].stage = "render"}
  <2> DEFINE lost == {i \in unused : resources[i].stage = "render"}
  <2> HIDE DEF lost
  <2>1. /\ b \in Backends(DOMAIN resources) /\ b.alive = backend.alive \ lost
        /\ b.tiles = backend.tiles /\ b.disposed = backend.disposed /\ b.lidar = backend.lidar
        /\ b.clouds = backend.clouds /\ b.loads = backend.loads
        /\ b.pass = backend.pass /\ b.passes = backend.passes /\ b.layers = backend.layers
    BY <1>4 DEF Backends, lost
  <2> HIDE DEF b
  <2> QED BY <1>4, <2>1 DEF BackendFits, PassFits, Needed, lost
<1> HIDE DEF unused, b
<1>6. /\ backend' \in Backends(DOMAIN resources) /\ BackendFits(backend')
      /\ backend'.tiles = backend.tiles /\ backend'.disposed = backend.disposed
      /\ backend'.loads = backend.loads \ gone /\ backend'.alive = b.alive \ gone
  <2> HIDE DEF gone
  <2>1. LET r == Without(b, gone) IN
         /\ r \in Backends(DOMAIN resources) /\ BackendFits(r)
         /\ r.tiles = b.tiles /\ r.disposed = b.disposed
         /\ r.clouds = b.clouds \ gone /\ r.loads = b.loads \ gone
         /\ r.alive = b.alive \ gone
    BY <1>5, WithoutClouds
  <2> QED BY <1>2, <1>5, <2>1
<1>7. ASSUME NEW i \in DOMAIN resources
      PROVE  LET e == resources'[i] IN
             /\ e \in Entries /\ e.stage = resources[i].stage
             /\ e.key = resources[i].key /\ e.cloud = resources[i].cloud
             /\ e.url = resources[i].url
             /\ i \in unused => e.disposed /\ ~e.listed
             /\ i \notin unused => e = resources[i]
  <2>1. resources'[i] = IF i \in unused
                        THEN [resources[i] EXCEPT !.disposed = TRUE, !.listed = FALSE]
                        ELSE resources[i]
    BY <1>2
  <2> QED BY <1>3, <2>1 DEF Entries
<1>8. DOMAIN resources' = DOMAIN resources /\ resources' \in Seq(Entries)
  <2>1. DOMAIN resources' = DOMAIN resources
    BY <1>2
  <2>2. resources' = [i \in 1 .. Len(resources) |-> resources'[i]]
    BY <1>2, <1>3
  <2>3. resources' \in [1 .. Len(resources) -> Entries]
    BY <1>3, <1>7, <2>2
  <2> QED BY <1>3, <2>1, <2>3, SeqOfFunction
<1>9. SceneTypeOK'
  BY <1>1, <1>6, <1>8 DEF SceneInv, SceneTypeOK
<1>10. Rendered' /\ PageFits'
  BY <1>1, <1>6 DEF SceneInv, Rendered, PageFits
<1>11. EntriesFit'
  <2>1. ASSUME NEW i \in DOMAIN resources, NEW j \in DOMAIN resources,
               Live(resources'[i]), Live(resources'[j]),
               SameResource(resources'[i], resources'[j])
        PROVE  i = j
    <3>1. resources'[i] = resources[i] /\ resources'[j] = resources[j]
      BY <1>7, <2>1 DEF Live
    <3> QED BY <2>1, <3>1 DEF SceneInv, EntriesFit
  <2>2. ASSUME NEW i \in DOMAIN resources
        PROVE  /\ resources'[i].url <= scene.url
               /\ resources'[i].stage # "failed" /\ ~resources'[i].disposed =>
                     resources'[i].listed
    BY <1>7 DEF SceneInv, EntriesFit
  <2> QED BY <1>1, <1>8, <2>1, <2>2 DEF EntriesFit
<1>12. Held' /\ ModelsStay
  <2>1. ASSUME NEW k \in DOMAIN surfaces
        PROVE  /\ ~resources'[surfaces[k].lease].disposed
               /\ surfaces[k].loaded # 0 => resources'[surfaces[k].loaded].stage = "ready"
               /\ Drawn(k)' = Drawn(k)
    <3>1. /\ surfaces[k].lease \in DOMAIN resources
          /\ surfaces[k].loaded \in {0} \cup DOMAIN resources
      BY DEF SceneInv, SceneTypeOK, Leased
    <3>2. surfaces[k].lease \notin unused
      BY DEF unused, Leases
    <3>3. Drawn(k)' = Drawn(k)
      BY <1>1, <1>7, <3>1 DEF Drawn, SameResource
    <3> QED BY <1>7, <3>1, <3>2, <3>3 DEF SceneInv, Held
  <2> QED BY <1>1, <2>1 DEF SceneInv, Held, ModelsStay
<1>13. AliveFits'
  <2>1. ASSUME NEW i \in DOMAIN resources
        PROVE  LET e == resources'[i] IN
               /\ ~backend'.disposed /\ ~e.disposed /\ e.stage \in {"render", "ready"} =>
                     i \in backend'.alive
               /\ e.stage = "render" => backend'.tiles
    BY <1>5, <1>6, <1>7 DEF SceneInv, AliveFits
  <2>2. ASSUME NEW i \in backend'.loads
        PROVE  /\ resources'[i].stage \in {"download", "render"}
               /\ ~backend'.tiles /\ ~backend'.disposed => i \in backend'.alive
    <3>1. i \in backend.loads /\ i \in DOMAIN resources /\ i \notin gone
      BY <1>4, <1>6, <2>2 DEF Backends
    <3>2. /\ resources[i].stage \in {"download", "render"}
          /\ ~backend.tiles /\ ~backend.disposed => i \in backend.alive
          /\ resources[i].stage = "render" => backend.tiles
      BY <3>1 DEF SceneInv, AliveFits
    <3> QED BY <1>5, <1>6, <1>7, <3>1, <3>2
  <2> QED BY <1>8, <2>1, <2>2 DEF AliveFits
<1>14. IsFiniteSet(DOMAIN scene'.clouds) /\ KeysFit(scene')
  BY <1>1, SceneFits
<1> QED BY <1>6, <1>9, <1>10, <1>11, <1>12, <1>13, <1>14 DEF SceneInv

\* One entry goes on to another stage, perhaps out of the list.
Staged(i, stage, listed) ==
  resources' = [resources EXCEPT ![i].stage = stage, ![i].listed = listed]

LEMMA StagedEntries ==
  ASSUME SceneInv, NEW i \in DOMAIN resources,
         NEW stage \in {"download", "render", "ready", "failed"}, NEW listed \in BOOLEAN,
         Staged(i, stage, listed)
  PROVE  /\ DOMAIN resources' = DOMAIN resources /\ resources' \in Seq(Entries)
         /\ \A j \in DOMAIN resources \ {i} : resources'[j] = resources[j]
         /\ resources'[i].stage = stage /\ resources'[i].listed = listed
         /\ \A j \in DOMAIN resources :
              /\ resources'[j].disposed = resources[j].disposed
              /\ resources'[j].key = resources[j].key
              /\ resources'[j].cloud = resources[j].cloud
              /\ resources'[j].url = resources[j].url
<1>1. /\ resources \in Seq(Entries) /\ DOMAIN resources = 1 .. Len(resources)
      /\ Len(resources) \in Nat /\ resources[i] \in Entries
  BY Ids DEF SceneInv, SceneTypeOK
<1> DEFINE e == [resources[i] EXCEPT !.stage = stage, !.listed = listed]
<1>2. resources' = [resources EXCEPT ![i] = e]
  BY <1>1 DEF Staged
<1>3. /\ e \in Entries /\ e.stage = stage /\ e.listed = listed
      /\ e.disposed = resources[i].disposed /\ e.key = resources[i].key
      /\ e.cloud = resources[i].cloud /\ e.url = resources[i].url
  BY <1>1 DEF Entries
<1> HIDE DEF e
<1> QED BY <1>1, <1>2, <1>3

LEMMA StageAlone ==
  ASSUME SceneInv, NEW i \in DOMAIN resources, NEW stage,
         resources' = [resources EXCEPT ![i].stage = stage]
  PROVE  Staged(i, stage, resources[i].listed) /\ resources[i].listed \in BOOLEAN
<1> DEFINE listed == resources[i].listed
<1>1. resources[i] \in Entries /\ resources \in Seq(Entries)
  BY Ids DEF SceneInv, SceneTypeOK
<1>2. [resources[i] EXCEPT !.stage = stage]
        = [resources[i] EXCEPT !.stage = stage, !.listed = listed]
  BY <1>1 DEF Entries
<1>3. [resources EXCEPT ![i].stage = stage]
        = [resources EXCEPT ![i] = [resources[i] EXCEPT !.stage = stage]]
  OBVIOUS
<1>4. [resources EXCEPT ![i].stage = stage, ![i].listed = listed]
        = [resources EXCEPT ![i] = [resources[i] EXCEPT !.stage = stage, !.listed = listed]]
  BY <1>1
<1> QED BY <1>1, <1>2, <1>3, <1>4 DEF Staged, Entries

\* The list, the surfaces and the entries still belong together.
LEMMA StagedFits ==
  ASSUME SceneInv, NEW i \in DOMAIN resources,
         NEW stage \in {"download", "render", "ready", "failed"}, NEW listed \in BOOLEAN,
         Staged(i, stage, listed), resources[i].stage # "ready",
         listed => resources[i].listed, listed \/ stage = "failed" \/ resources[i].disposed,
         UNCHANGED scene
  PROVE  /\ EntriesFit'
         /\ \A k \in DOMAIN surfaces :
              /\ ~resources'[surfaces[k].lease].disposed
              /\ surfaces[k].loaded # 0 => resources'[surfaces[k].loaded].stage = "ready"
<1> USE StagedEntries
<1>1. ASSUME NEW j \in DOMAIN resources
      PROVE  /\ resources'[j].url <= scene.url
             /\ resources'[j].stage # "failed" /\ ~resources'[j].disposed => resources'[j].listed
  BY DEF SceneInv, EntriesFit
<1>2. ASSUME NEW j \in DOMAIN resources, NEW l \in DOMAIN resources,
             Live(resources'[j]), Live(resources'[l]),
             SameResource(resources'[j], resources'[l])
      PROVE  j = l
  <2>1. Live(resources[j]) /\ Live(resources[l]) /\ SameResource(resources[j], resources[l])
    BY <1>2 DEF Live, SameResource
  <2> QED BY <2>1 DEF SceneInv, EntriesFit
<1>3. EntriesFit'
  BY <1>1, <1>2 DEF EntriesFit
<1>4. ASSUME NEW k \in DOMAIN surfaces
      PROVE  /\ ~resources'[surfaces[k].lease].disposed
             /\ surfaces[k].loaded # 0 => resources'[surfaces[k].loaded].stage = "ready"
  <2>1. /\ surfaces[k].lease \in DOMAIN resources
        /\ surfaces[k].loaded \in {0} \cup DOMAIN resources
    BY DEF SceneInv, SceneTypeOK, Leased
  <2> QED BY <2>1 DEF SceneInv, Held
<1> QED BY <1>3, <1>4

LEMMA DownloadsKeep == ASSUME SceneInv, Downloads PROVE SceneInv' /\ ModelsStay
<1>1. PICK i \in DOMAIN resources :
        /\ resources[i].stage = "download" /\ backend.tiles /\ ~Aborted(i)
        /\ resources' = [resources EXCEPT ![i].stage = "render"]
        /\ backend' = [backend EXCEPT !.alive = @ \cup {i}]
  BY DEF Downloads
<1>2. UNCHANGED <<signed, scene, surfaces, releases, turns>>
  BY DEF Downloads
<1>3. resources[i].listed /\ ~backend.disposed
  BY <1>1 DEF Aborted, SceneInv, EntriesFit
<1>4. Staged(i, "render", TRUE)
  BY <1>1, <1>3, StageAlone
<1>5. /\ DOMAIN resources' = DOMAIN resources /\ resources' \in Seq(Entries)
      /\ \A j \in DOMAIN resources \ {i} : resources'[j] = resources[j]
      /\ resources'[i].stage = "render" /\ resources'[i].listed
      /\ \A j \in DOMAIN resources :
           /\ resources'[j].disposed = resources[j].disposed
           /\ resources'[j].key = resources[j].key
           /\ resources'[j].cloud = resources[j].cloud
           /\ resources'[j].url = resources[j].url
  BY <1>4, StagedEntries
<1>6. /\ EntriesFit'
      /\ \A k \in DOMAIN surfaces :
           /\ ~resources'[surfaces[k].lease].disposed
           /\ surfaces[k].loaded # 0 => resources'[surfaces[k].loaded].stage = "ready"
  BY <1>1, <1>2, <1>3, <1>4, StagedFits
<1>7. /\ backend' \in Backends(DOMAIN resources) /\ BackendFits(backend')
      /\ backend'.tiles = backend.tiles /\ backend'.disposed = backend.disposed
      /\ backend'.loads = backend.loads /\ backend'.alive = backend.alive \cup {i}
  <2>1. backend \in Backends(DOMAIN resources) /\ BackendFits(backend)
    BY SceneFits DEF Base
  <2> QED BY <1>1, <2>1 DEF Backends, BackendFits, PassFits, Needed
<1>8. SceneTypeOK'
  BY <1>2, <1>5, <1>7 DEF SceneInv, SceneTypeOK
<1>9. Rendered' /\ PageFits'
  BY <1>2, <1>7 DEF SceneInv, Rendered, PageFits
<1>10. Held' /\ ModelsStay
  <2>1. ASSUME NEW k \in DOMAIN surfaces PROVE Drawn(k)' = Drawn(k)
    <3>1. surfaces[k].loaded \in {0} \cup DOMAIN resources
      BY DEF SceneInv, SceneTypeOK, Leased
    <3> QED BY <1>2, <1>5, <3>1 DEF Drawn, SameResource
  <2> QED BY <1>2, <1>6, <2>1 DEF SceneInv, Held, ModelsStay
<1>11. AliveFits'
  <2>1. ASSUME NEW j \in DOMAIN resources
        PROVE  LET e == resources'[j] IN
               /\ ~backend'.disposed /\ ~e.disposed /\ e.stage \in {"render", "ready"} =>
                     j \in backend'.alive
               /\ e.stage = "render" => backend'.tiles
    BY <1>1, <1>5, <1>7 DEF SceneInv, AliveFits
  <2>2. ASSUME NEW j \in backend.loads
        PROVE  /\ resources'[j].stage \in {"download", "render"}
               /\ ~backend'.tiles /\ ~backend'.disposed => j \in backend'.alive
    <3>1. j \in DOMAIN resources
      BY SceneFits DEF Base, Backends
    <3> QED BY <1>5, <1>7, <3>1 DEF SceneInv, AliveFits
  <2> QED BY <1>5, <1>7, <2>1, <2>2 DEF AliveFits
<1>12. IsFiniteSet(DOMAIN scene'.clouds) /\ KeysFit(scene')
  BY <1>2, SceneFits
<1> QED BY <1>6, <1>7, <1>8, <1>9, <1>10, <1>11, <1>12 DEF SceneInv

\* The surfaces that wait for a load get it.
LEMMA ToldLoaded ==
  ASSUME SceneInv, NEW i \in DOMAIN resources, Told(i, "loaded", i)
  PROVE  /\ DOMAIN surfaces' = DOMAIN surfaces
         /\ \A k \in DOMAIN surfaces :
              /\ surfaces'[k] \in Leased(DOMAIN resources)
              /\ surfaces'[k].cloud = surfaces[k].cloud /\ surfaces'[k].key = surfaces[k].key
              /\ surfaces'[k].url = surfaces[k].url /\ surfaces'[k].lease = surfaces[k].lease
              /\ surfaces'[k].loaded = IF surfaces[k].lease = i THEN i
                                       ELSE surfaces[k].loaded
<1>1. ASSUME NEW k \in DOMAIN surfaces
      PROVE  /\ surfaces'[k] \in Leased(DOMAIN resources)
             /\ surfaces'[k].cloud = surfaces[k].cloud /\ surfaces'[k].key = surfaces[k].key
             /\ surfaces'[k].url = surfaces[k].url /\ surfaces'[k].lease = surfaces[k].lease
             /\ surfaces'[k].loaded = IF surfaces[k].lease = i THEN i ELSE surfaces[k].loaded
  <2>1. surfaces[k] \in Leased(DOMAIN resources)
    BY DEF SceneInv, SceneTypeOK
  <2>2. surfaces'[k] = IF surfaces[k].lease # i THEN surfaces[k]
                       ELSE [surfaces[k] EXCEPT !["loaded"] = i,
                               !.failed = "loaded" = "failed"]
    BY DEF Told
  <2> QED BY <2>1, <2>2 DEF Leased
<1> QED BY <1>1 DEF Told

LEMMA ToldFailed ==
  ASSUME SceneInv, NEW i \in DOMAIN resources, Told(i, "failed", TRUE)
  PROVE  /\ DOMAIN surfaces' = DOMAIN surfaces
         /\ \A k \in DOMAIN surfaces :
              /\ surfaces'[k] \in Leased(DOMAIN resources)
              /\ surfaces'[k].cloud = surfaces[k].cloud /\ surfaces'[k].key = surfaces[k].key
              /\ surfaces'[k].url = surfaces[k].url /\ surfaces'[k].lease = surfaces[k].lease
              /\ surfaces'[k].loaded = surfaces[k].loaded
<1>1. ASSUME NEW k \in DOMAIN surfaces
      PROVE  /\ surfaces'[k] \in Leased(DOMAIN resources)
             /\ surfaces'[k].cloud = surfaces[k].cloud /\ surfaces'[k].key = surfaces[k].key
             /\ surfaces'[k].url = surfaces[k].url /\ surfaces'[k].lease = surfaces[k].lease
             /\ surfaces'[k].loaded = surfaces[k].loaded
  <2>1. surfaces[k] \in Leased(DOMAIN resources)
    BY DEF SceneInv, SceneTypeOK
  <2>2. \/ surfaces'[k] = surfaces[k]
        \/ surfaces'[k] = [surfaces[k] EXCEPT !["failed"] = TRUE,
                             !.failed = "failed" = "failed"]
    BY DEF Told
  <2> QED BY <2>1, <2>2 DEF Leased
<1> QED BY <1>1 DEF Told

\* The scene stays as it is rendered.
LEMMA ToldIsRendered ==
  ASSUME SceneInv, UNCHANGED scene, DOMAIN surfaces' = DOMAIN surfaces,
         \A k \in DOMAIN surfaces :
              /\ surfaces'[k].cloud = surfaces[k].cloud /\ surfaces'[k].key = surfaces[k].key
              /\ surfaces'[k].url = surfaces[k].url
  PROVE  Rendered'
<1>1. ASSUME NEW w \in Surfaces(scene)
      PROVE  /\ surfaces'[w.react].cloud = w.cloud
             /\ surfaces'[w.react].key = w.key
             /\ surfaces'[w.react].url = w.url
  <2>1. w.react \in DOMAIN surfaces
    BY DEF SceneInv, Rendered
  <2> QED BY <2>1 DEF SceneInv, Rendered
<1> QED BY <1>1 DEF SceneInv, Rendered

LEMMA LoadsKeep == ASSUME SceneInv, Loads PROVE SceneInv' /\ ModelsStay
<1>1. PICK i \in DOMAIN resources :
        /\ i \in backend.loads
        /\ resources[i].stage = IF backend.tiles THEN "render" ELSE "download"
        /\ ~backend.disposed /\ (backend.tiles => ~resources[i].disposed)
        /\ resources' = [resources EXCEPT ![i].stage = "ready"]
        /\ Told(i, "loaded", i)
        /\ backend' = IF resources[i].disposed THEN Without(backend, {i})
                      ELSE [backend EXCEPT !.loads = @ \ {i}, !.clouds = @ \cup {i}]
  BY DEF Loads
<1>2. UNCHANGED <<signed, scene, releases, turns>>
  BY DEF Loads
<1>3. Staged(i, "ready", resources[i].listed) /\ resources[i].listed \in BOOLEAN
  BY <1>1, StageAlone
<1>4. /\ DOMAIN resources' = DOMAIN resources /\ resources' \in Seq(Entries)
      /\ \A j \in DOMAIN resources \ {i} : resources'[j] = resources[j]
      /\ resources'[i].stage = "ready"
      /\ \A j \in DOMAIN resources :
           /\ resources'[j].disposed = resources[j].disposed
           /\ resources'[j].key = resources[j].key
           /\ resources'[j].cloud = resources[j].cloud
           /\ resources'[j].url = resources[j].url
  BY <1>3, StagedEntries
<1>5. resources[i].stage \notin {"ready", "failed"}
  BY <1>1
<1>6. /\ EntriesFit'
      /\ \A k \in DOMAIN surfaces :
           /\ ~resources'[surfaces[k].lease].disposed
           /\ surfaces[k].loaded # 0 => resources'[surfaces[k].loaded].stage = "ready"
  <2>1. resources[i].listed \/ resources[i].disposed
    BY <1>5 DEF SceneInv, EntriesFit
  <2> QED BY <1>2, <1>3, <1>5, <2>1, StagedFits
<1>7. /\ DOMAIN surfaces' = DOMAIN surfaces
      /\ \A k \in DOMAIN surfaces :
           /\ surfaces'[k] \in Leased(DOMAIN resources)
           /\ surfaces'[k].cloud = surfaces[k].cloud /\ surfaces'[k].key = surfaces[k].key
           /\ surfaces'[k].url = surfaces[k].url /\ surfaces'[k].lease = surfaces[k].lease
           /\ surfaces'[k].loaded = IF surfaces[k].lease = i THEN i ELSE surfaces[k].loaded
  <2>1. Told(i, "loaded", i)
    BY <1>1
  <2> QED BY <2>1, ToldLoaded
<1>8. /\ backend' \in Backends(DOMAIN resources) /\ BackendFits(backend')
      /\ backend'.tiles = backend.tiles /\ backend'.disposed = backend.disposed
      /\ backend'.loads = backend.loads \ {i}
      /\ backend'.alive = IF resources[i].disposed THEN backend.alive \ {i} ELSE backend.alive
  <2>1. backend \in Backends(DOMAIN resources) /\ BackendFits(backend)
    BY SceneFits DEF Base
  <2>2. CASE resources[i].disposed
    <3>1. LET r == Without(backend, {i}) IN
         /\ r \in Backends(DOMAIN resources) /\ BackendFits(r)
         /\ r.tiles = backend.tiles /\ r.disposed = backend.disposed
         /\ r.clouds = backend.clouds \ {i} /\ r.loads = backend.loads \ {i}
         /\ r.alive = backend.alive \ {i}
      BY <2>1, WithoutClouds
    <3> QED BY <1>1, <2>2, <3>1
  <2>3. CASE ~resources[i].disposed
    <3>1. backend' = [backend EXCEPT !.loads = @ \ {i}, !.clouds = @ \cup {i}]
      BY <1>1, <2>3
    <3>2. /\ backend' \in Backends(DOMAIN resources)
          /\ backend'.tiles = backend.tiles /\ backend'.disposed = backend.disposed
          /\ backend'.loads = backend.loads \ {i} /\ backend'.clouds = backend.clouds \cup {i}
          /\ backend'.alive = backend.alive /\ backend'.lidar = backend.lidar
          /\ backend'.pass = backend.pass /\ backend'.passes = backend.passes
          /\ backend'.layers = backend.layers
      BY <2>1, <3>1 DEF Backends
    <3>3. Needed(backend) <=> Needed(backend')
      BY <1>1, <3>2 DEF Needed
    <3> QED BY <2>1, <2>3, <3>2, <3>3 DEF BackendFits, PassFits
  <2> QED BY <2>2, <2>3
<1>9. SceneTypeOK'
  BY <1>2, <1>4, <1>7, <1>8 DEF SceneInv, SceneTypeOK
<1>10. Rendered' /\ PageFits'
  BY <1>2, <1>7, <1>8, ToldIsRendered DEF SceneInv, PageFits
<1>11. Held' /\ ModelsStay
  <2>1. ASSUME NEW k \in DOMAIN surfaces
        PROVE  /\ surfaces'[k].loaded # 0 => resources'[surfaces'[k].loaded].stage = "ready"
               /\ Drawn(k)' # 0 => Drawn(k)' = surfaces'[k].lease
               /\ Drawn(k) # 0 => Drawn(k)' = Drawn(k)
    <3>1. surfaces[k].loaded \in {0} \cup DOMAIN resources
      BY DEF SceneInv, SceneTypeOK, Leased
    <3>2. CASE surfaces[k].lease = i
      <4>1. Drawn(k)' \in {0, i}
        BY <1>7, <3>2 DEF Drawn
      <4>2. ASSUME Drawn(k) # 0 PROVE Drawn(k)' = Drawn(k)
        <5>1. Drawn(k) = i /\ surfaces[k].loaded = i
          BY <3>2, <4>2 DEF SceneInv, Held, Drawn
        <5> QED BY <1>4, <1>7, <5>1 DEF Drawn, SameResource
      <4> QED BY <1>4, <1>7, <3>2, <4>1, <4>2
    <3>3. CASE surfaces[k].lease # i
      <4>1. Drawn(k)' = Drawn(k)
        BY <1>4, <1>7, <3>1, <3>3 DEF Drawn, SameResource
      <4> QED BY <1>6, <1>7, <3>3, <4>1 DEF SceneInv, Held
    <3> QED BY <3>2, <3>3
  <2> QED BY <1>6, <1>7, <2>1 DEF Held, ModelsStay
<1>12. AliveFits'
  <2>1. ASSUME NEW j \in DOMAIN resources
        PROVE  LET e == resources'[j] IN
               /\ ~backend'.disposed /\ ~e.disposed /\ e.stage \in {"render", "ready"} =>
                     j \in backend'.alive
               /\ e.stage = "render" => backend'.tiles
    <3>1. CASE j = i
      <4>1. ~resources[i].disposed => i \in backend.alive
        BY <1>1 DEF SceneInv, AliveFits
      <4> QED BY <1>4, <1>8, <3>1, <4>1
    <3>2. CASE j # i
      BY <1>4, <1>8, <3>2 DEF SceneInv, AliveFits
    <3> QED BY <3>1, <3>2
  <2>2. ASSUME NEW j \in backend'.loads
        PROVE  /\ resources'[j].stage \in {"download", "render"}
               /\ ~backend'.tiles /\ ~backend'.disposed => j \in backend'.alive
    <3>1. j \in backend.loads /\ j # i /\ j \in DOMAIN resources
      BY <1>8, <2>2, SceneFits DEF Base, Backends
    <3> QED BY <1>4, <1>8, <3>1 DEF SceneInv, AliveFits
  <2> QED BY <1>4, <2>1, <2>2 DEF AliveFits
<1>13. IsFiniteSet(DOMAIN scene'.clouds) /\ KeysFit(scene')
  BY <1>2, SceneFits
<1> QED BY <1>6, <1>8, <1>9, <1>10, <1>11, <1>12, <1>13 DEF SceneInv

LEMMA LoadFailsKeeps == ASSUME SceneInv, LoadFails PROVE SceneInv' /\ ModelsStay
<1>1. PICK i \in DOMAIN resources :
        /\ i \in backend.loads
        /\ turns' = turns \/ Turn
        /\ resources' = [resources EXCEPT ![i].stage = "failed", ![i].listed = FALSE]
        /\ Told(i, "failed", TRUE)
        /\ backend' = Without(backend, {i})
  BY DEF LoadFails
<1>2. UNCHANGED <<signed, scene, releases>> /\ turns' \in 0 .. MaxTurns
  BY <1>1, SceneFits DEF LoadFails
<1>3. Staged(i, "failed", FALSE) /\ resources[i].stage # "ready"
  BY <1>1 DEF Staged, SceneInv, AliveFits
<1>4. /\ DOMAIN resources' = DOMAIN resources /\ resources' \in Seq(Entries)
      /\ \A j \in DOMAIN resources \ {i} : resources'[j] = resources[j]
      /\ resources'[i].stage = "failed"
      /\ \A j \in DOMAIN resources :
           /\ resources'[j].disposed = resources[j].disposed
           /\ resources'[j].key = resources[j].key
           /\ resources'[j].cloud = resources[j].cloud
           /\ resources'[j].url = resources[j].url
  BY <1>3, StagedEntries
<1>5. /\ EntriesFit'
      /\ \A k \in DOMAIN surfaces :
           /\ ~resources'[surfaces[k].lease].disposed
           /\ surfaces[k].loaded # 0 => resources'[surfaces[k].loaded].stage = "ready"
  BY <1>2, <1>3, StagedFits
<1>6. /\ DOMAIN surfaces' = DOMAIN surfaces
      /\ \A k \in DOMAIN surfaces :
           /\ surfaces'[k] \in Leased(DOMAIN resources)
           /\ surfaces'[k].cloud = surfaces[k].cloud /\ surfaces'[k].key = surfaces[k].key
           /\ surfaces'[k].url = surfaces[k].url /\ surfaces'[k].lease = surfaces[k].lease
           /\ surfaces'[k].loaded = surfaces[k].loaded
  <2>1. Told(i, "failed", TRUE)
    BY <1>1
  <2> QED BY <2>1, ToldFailed
<1>7. /\ backend' \in Backends(DOMAIN resources) /\ BackendFits(backend')
      /\ backend'.tiles = backend.tiles /\ backend'.disposed = backend.disposed
      /\ backend'.loads = backend.loads \ {i} /\ backend'.alive = backend.alive \ {i}
  <2>1. backend \in Backends(DOMAIN resources) /\ BackendFits(backend)
    BY SceneFits DEF Base
  <2>2. LET r == Without(backend, {i}) IN
         /\ r \in Backends(DOMAIN resources) /\ BackendFits(r)
         /\ r.tiles = backend.tiles /\ r.disposed = backend.disposed
         /\ r.clouds = backend.clouds \ {i} /\ r.loads = backend.loads \ {i}
         /\ r.alive = backend.alive \ {i}
    BY <2>1, WithoutClouds
  <2> QED BY <1>1, <2>2
<1>8. SceneTypeOK'
  BY <1>2, <1>4, <1>6, <1>7 DEF SceneInv, SceneTypeOK
<1>9. Rendered' /\ PageFits'
  BY <1>2, <1>6, <1>7, ToldIsRendered DEF SceneInv, PageFits
<1>10. Held' /\ ModelsStay
  <2>1. ASSUME NEW k \in DOMAIN surfaces PROVE Drawn(k)' = Drawn(k)
    <3>1. surfaces[k].loaded \in {0} \cup DOMAIN resources
      BY DEF SceneInv, SceneTypeOK, Leased
    <3> QED BY <1>4, <1>6, <3>1 DEF Drawn, SameResource
  <2> QED BY <1>5, <1>6, <2>1 DEF SceneInv, Held, ModelsStay
<1>11. AliveFits'
  <2>1. ASSUME NEW j \in DOMAIN resources
        PROVE  LET e == resources'[j] IN
               /\ ~backend'.disposed /\ ~e.disposed /\ e.stage \in {"render", "ready"} =>
                     j \in backend'.alive
               /\ e.stage = "render" => backend'.tiles
    BY <1>4, <1>7 DEF SceneInv, AliveFits
  <2>2. ASSUME NEW j \in backend'.loads
        PROVE  /\ resources'[j].stage \in {"download", "render"}
               /\ ~backend'.tiles /\ ~backend'.disposed => j \in backend'.alive
    <3>1. j \in backend.loads /\ j # i /\ j \in DOMAIN resources
      BY <1>7, <2>2, SceneFits DEF Base, Backends
    <3> QED BY <1>4, <1>7, <3>1 DEF SceneInv, AliveFits
  <2> QED BY <1>4, <2>1, <2>2 DEF AliveFits
<1>12. IsFiniteSet(DOMAIN scene'.clouds) /\ KeysFit(scene')
  BY <1>2, SceneFits
<1> QED BY <1>5, <1>7, <1>8, <1>9, <1>10, <1>11, <1>12 DEF SceneInv

LEMMA DisposeKeeps == ASSUME SceneInv, disposeBackend PROVE SceneInv' /\ ModelsStay
<1> DEFINE b == [backend EXCEPT !.disposed = TRUE, !.clouds = {},
                                !.alive = IF backend.tiles THEN {} ELSE @ \ backend.clouds]
<1>1. /\ scene.timer /\ scene' = [scene EXCEPT !.timer = FALSE]
      /\ backend' = disposePass(b)
      /\ UNCHANGED <<signed, surfaces, resources, releases, turns>>
  BY DEF disposeBackend
<1>2. /\ backend \in Backends(DOMAIN resources) /\ BackendFits(backend)
  BY SceneFits DEF Base
<1>3. /\ b \in Backends(DOMAIN resources) /\ PassFits(b)
      /\ b.disposed /\ b.tiles = backend.tiles /\ b.loads = backend.loads
  <2> DEFINE alive == IF backend.tiles THEN {} ELSE backend.alive \ backend.clouds
  <2>1. alive \in SUBSET DOMAIN resources
    BY <1>2 DEF Backends
  <2>2. b = [backend EXCEPT !.disposed = TRUE, !.clouds = {}, !.alive = alive]
    OBVIOUS
  <2> HIDE DEF b, alive
  <2>3. /\ b \in Backends(DOMAIN resources)
        /\ b.disposed /\ b.tiles = backend.tiles /\ b.loads = backend.loads
        /\ b.lidar = backend.lidar /\ b.pass = backend.pass /\ b.passes = backend.passes
        /\ b.layers = backend.layers
    BY <1>2, <2>1, <2>2 DEF Backends
  <2> QED BY <1>2, <2>3 DEF BackendFits, PassFits
<1> HIDE DEF b
<1>4. /\ backend' \in Backends(DOMAIN resources) /\ BackendFits(backend')
      /\ backend'.disposed /\ backend'.tiles = backend.tiles /\ backend'.loads = backend.loads
  <2>1. LET r == disposePass(b) IN
         /\ r \in Backends(DOMAIN resources) /\ PassFits(r) /\ r.pass = 0
         /\ r = [b EXCEPT !.layers = {}, !.passes = {}, !.pass = 0]
    BY <1>3, DisposedPass
  <2>2. /\ backend' \in Backends(DOMAIN resources) /\ PassFits(backend') /\ backend'.pass = 0
        /\ backend' = [b EXCEPT !.layers = {}, !.passes = {}, !.pass = 0]
    BY <1>1, <2>1
  <2>3. backend'.disposed /\ backend'.tiles = b.tiles /\ backend'.loads = b.loads
    BY <1>3, <2>2 DEF Backends
  <2> QED BY <1>3, <2>2, <2>3 DEF BackendFits, Needed
<1>5. /\ scene' \in Scenes /\ ~scene'.timer /\ ~scene.mounted
      /\ scene'.mounted = scene.mounted /\ scene'.preview = scene.preview
      /\ scene'.clouds = scene.clouds /\ scene'.url = scene.url
      /\ scene'.placed = scene.placed /\ scene'.transferred = scene.transferred
      /\ scene'.next = scene.next
  BY <1>1, SceneFits DEF Scenes, PageOf
<1>6. SceneTypeOK'
  BY <1>1, <1>4, <1>5 DEF SceneInv, SceneTypeOK
<1>7. IsFiniteSet(DOMAIN scene'.clouds) /\ KeysFit(scene')
  BY <1>5, SceneFits DEF KeysFit
<1>8. PageFits'
  BY <1>5 DEF SceneInv, PageFits
<1>9. Rendered'
  <2>1. Surfaces(scene) = {} /\ Surfaces(scene') = {}
    BY <1>5, NothingRendered
  <2> QED BY <1>1, <2>1 DEF SceneInv, Rendered
<1>10. Held' /\ EntriesFit' /\ AliveFits'
  <2>1. Held'
    BY <1>1 DEF SceneInv, Held, Drawn
  <2>2. EntriesFit'
    BY <1>1, <1>5 DEF SceneInv, EntriesFit
  <2>3. AliveFits'
    BY <1>1, <1>4 DEF SceneInv, AliveFits
  <2> QED BY <2>1, <2>2, <2>3
<1>11. ModelsStay
  BY <1>1 DEF ModelsStay, Drawn
<1> QED BY <1>4, <1>6, <1>7, <1>8, <1>9, <1>10, <1>11 DEF SceneInv

LEMMA SceneInvInit == SceneInit => SceneInv
<1> SUFFICES ASSUME SceneInit PROVE SceneInv
  OBVIOUS
<1>1. PICK list \in [First -> Spots] :
        scene = [mounted |-> FALSE, timer |-> FALSE, clouds |-> list, url |-> 0,
                 preview |-> 0, placed |-> Nobody, adding |-> Nobody,
                 transferred |-> [c \in Clouds |-> 0], next |-> 0]
  BY DEF SceneInit
<1>2. PICK tiles \in BOOLEAN :
        backend = [tiles |-> tiles, disposed |-> FALSE, depth |-> FALSE, lidar |-> FALSE,
                   loads |-> {}, clouds |-> {}, alive |-> {}, pass |-> 0,
                   passes |-> {}, layers |-> {}]
  BY DEF SceneInit
<1>3. /\ surfaces = << >> /\ resources = << >> /\ releases = {} /\ turns = 0
      /\ signed \in BOOLEAN
  BY DEF SceneInit
<1>4. 0 \in Keys /\ 0 \in 0 .. MaxTurns
  BY SceneAssumption DEF SceneAssumption, Keys
<1>5. list \in Lists /\ IsFiniteSet(DOMAIN list)
  BY SceneAssumption DEF SceneAssumption, Lists
<1>6. scene \in Scenes /\ IsFiniteSet(DOMAIN scene.clouds)
  BY <1>1, <1>4, <1>5 DEF Scenes
<1>7. KeysFit(scene)
  BY <1>1 DEF KeysFit
<1>8. /\ backend \in Backends(DOMAIN resources) /\ BackendFits(backend)
  BY <1>2 DEF Backends, BackendFits, PassFits, Needed
<1>9. SceneTypeOK
  <2>1. resources \in Seq(Entries)
    BY <1>3
  <2>2. DOMAIN surfaces = {}
    BY <1>3
  <2> QED BY <1>3, <1>4, <1>6, <1>8, <2>1, <2>2 DEF SceneTypeOK
<1>10. DOMAIN surfaces = {} /\ DOMAIN resources = {} /\ Surfaces(scene) = {}
  BY <1>1, <1>3, NothingRendered
<1>11. PageFits
  BY <1>1 DEF PageFits
<1>12. Rendered /\ Held /\ EntriesFit
  BY <1>10 DEF Rendered, Held, EntriesFit
<1>13. AliveFits
  BY <1>2, <1>10 DEF AliveFits
<1> QED BY <1>6, <1>7, <1>8, <1>9, <1>11, <1>12, <1>13 DEF SceneInv

\* Every step is a commit, or one of the steps above.
Others ==
  \/ Switch \/ releaseMicrotasks \/ Downloads \/ Loads \/ LoadFails \/ disposeBackend

LEMMA StepsAre == ASSUME SceneInv, SceneNext PROVE Commit \/ Others
BY MountCommits, RefetchCommits, UpdatePreviewCommits, StartCommits, CancelCommits, TapCommits,
   PlaceCommits, FinishCommits, LeaveCommits
DEF SceneNext, Settling, Others

LEMMA SceneInvStep == SceneInv /\ [SceneNext]_sceneVars => SceneInv' /\ ModelsStay
<1>1. ASSUME SceneInv, UNCHANGED sceneVars PROVE SceneInv' /\ ModelsStay
  BY <1>1 DEF sceneVars, SceneInv, SceneTypeOK, PageFits, Rendered, Held, Drawn, EntriesFit,
              AliveFits, ModelsStay
<1>2. ASSUME SceneInv, Others PROVE SceneInv' /\ ModelsStay
  BY <1>2, SwitchKeeps, ReleaseKeeps, DownloadsKeep, LoadsKeep, LoadFailsKeeps, DisposeKeeps
  DEF Others
<1> QED BY <1>1, <1>2, StepsAre, CommitKeeps

\* The parts hold together: a key belongs to one cloud or placement, what is mounted is
\* what the scene asks for, what is leased is there, no resource is held twice, and the
\* backend has one pass for what it loads and draws.
THEOREM SceneInvHolds == SceneSpec => []SceneInv
BY SceneInvInit, SceneInvStep, PTL DEF SceneSpec

\* The list, the surfaces, the cache and the backend keep their types.
THEOREM SceneTypeCorrect == SceneSpec => []SceneTypeOK
<1>1. SceneInv => SceneTypeOK
  BY DEF SceneInv
<1> QED BY <1>1, SceneInvHolds, PTL

LEMMA SceneInvSuffices == SceneInv => PassDrawsLiveClouds
<1> SUFFICES ASSUME SceneInv PROVE PassDrawsLiveClouds
  OBVIOUS
<1>1. ASSUME NEW k \in DOMAIN surfaces, Drawn(k) # 0 PROVE Drawn(k) \in backend.alive
  <2>1. /\ Drawn(k) = surfaces[k].loaded /\ Drawn(k) = surfaces[k].lease
    BY <1>1 DEF SceneInv, Held, Drawn
  <2>2. /\ Drawn(k) \in DOMAIN resources /\ ~resources[Drawn(k)].disposed
        /\ resources[Drawn(k)].stage = "ready"
    BY <1>1, <2>1 DEF SceneInv, SceneTypeOK, Leased, Held
  <2>3. ~backend.disposed
    <3>1. Surfaces(scene) # {}
      BY <1>1 DEF SceneInv, Rendered
    <3> QED BY <3>1, NothingRendered DEF SceneInv, PageFits
  <2> QED BY <2>2, <2>3 DEF SceneInv, AliveFits
<1>2. backend.pass # 0 <=> Needed(backend)
  BY DEF SceneInv, BackendFits
<1>3. /\ backend.passes = {backend.pass} \ {0}
      /\ backend.layers = IF backend.pass = 0 THEN {}
                          ELSE IF backend.lidar THEN LayersOf(backend.pass)
                          ELSE {<<"clouds", backend.pass>>}
  BY DEF SceneInv, BackendFits, PassFits
<1> QED BY <1>1, <1>2, <1>3 DEF PassDrawsLiveClouds, Needed

\* Every cloud a surface draws is alive on the GPU, and the pass that draws them exists
\* exactly while there is something to draw or to load (GaussianCloudResourceCache,
\* useGaussianCloud, TileGaussianRenderingBackend).
THEOREM LiveCloudsAreDrawn == SceneSpec => []PassDrawsLiveClouds
BY SceneInvHolds, SceneInvSuffices, PTL

-----------------------------------------------------------------------------
(* From the preview to the saved cloud *)

\* A placement's key is handed over only when its cloud is there.
LEMMA KeysStay ==
  ASSUME SceneInv, [SceneNext]_sceneVars, ~finishPlacement
  PROVE  scene'.transferred = scene.transferred
<1> USE SceneFits
<1>1. ASSUME NEW list \in Answers
      PROVE  LET q == Read(scene, list) IN
             q \in Scenes /\ q.transferred = scene.transferred
  BY ReadFits DEF Committable
<1>2. CASE Mount \/ updatePreview \/ startCloudPlacement \/ cancel \/ onTap \/ Leave
  BY <1>2 DEF Mount, updatePreview, startCloudPlacement, cancel, onTap, Leave, Commits, Scenes
<1>3. CASE Refetch
  BY <1>1, <1>3 DEF Refetch, Commits
<1>4. CASE onPlace
  <2>1. PICK list \in Added \cup {scene.clouds} :
          \E placed : scene' \in {[Read(scene, list) EXCEPT !.adding = Nobody],
                                 [Read(scene, list) EXCEPT !.adding = Nobody, !.placed = placed]}
    <3>1. CASE \E list \in Added : Commits([Read(scene, list) EXCEPT !.adding = Nobody], backend)
      BY <3>1 DEF Commits
    <3>2. CASE \E placed :
                 Commits([Read(scene, scene.clouds) EXCEPT !.adding = Nobody, !.placed = placed],
                         backend)
      BY <3>2 DEF Commits
    <3> QED BY <1>4, <3>1, <3>2 DEF onPlace
  <2> DEFINE q == Read(scene, list)
  <2>2. q \in Scenes /\ q.transferred = scene.transferred
    BY <1>1 DEF Answers
  <2> HIDE DEF q
  <2>3. PICK placed : scene' \in {[q EXCEPT !.adding = Nobody],
                                 [q EXCEPT !.adding = Nobody, !.placed = placed]}
    BY <2>1 DEF q
  <2> QED BY <2>2, <2>3 DEF Scenes
<1>5. CASE \/ Switch \/ releaseMicrotasks \/ Downloads \/ Loads \/ LoadFails
           \/ UNCHANGED sceneVars
  BY <1>5 DEF Switch, releaseMicrotasks, Downloads, Loads, LoadFails, sceneVars
<1>6. CASE disposeBackend
  BY <1>6 DEF disposeBackend, Scenes
<1> QED BY <1>2, <1>3, <1>4, <1>5, <1>6 DEF SceneNext, Settling

\* The cloud it is handed to takes the surface over, and all others keep theirs.
LEMMA FinishKeepsSurfaces ==
  ASSUME SceneInv, finishPlacement, NEW k \in DOMAIN surfaces, k \in Keys
  PROVE  k \in DOMAIN surfaces'
<1>1. PICK j \in DOMAIN surfaces :
        /\ surfaces[j].cloud \in placedCloud(scene)
        /\ Commits([scene EXCEPT !.transferred[surfaces[j].cloud] = scene.placed.key,
                                 !.placed = Nobody], backend)
  BY DEF finishPlacement
<1> DEFINE c == surfaces[j].cloud
           s == [scene EXCEPT !.transferred[c] = scene.placed.key, !.placed = Nobody]
<1>2. /\ c \in DOMAIN scene.clouds \ scene.placed.before /\ scene.placed # Nobody
      /\ c \in Clouds /\ scene.transferred \in [Clouds -> Keys]
      /\ DOMAIN scene.clouds \subseteq Clouds
      /\ scene.placed.key # 0
  <2>1. c \in DOMAIN scene.clouds \ scene.placed.before /\ scene.placed # Nobody
    BY <1>1, PlacedClouds
  <2> QED BY <2>1, SceneFits DEF Scenes, Lists
<1>3. DOMAIN surfaces' = {w.react : w \in Surfaces(s)}
  BY <1>1 DEF Commits
<1>4. c \in placedCloud(scene)
  BY <1>1
<1> HIDE DEF c
<1>5. /\ s.preview = scene.preview /\ s.clouds = scene.clouds /\ s.placed = Nobody
      /\ s.mounted = scene.mounted
      /\ \A d \in Clouds : s.transferred[d] = IF d = c THEN scene.placed.key
                                              ELSE scene.transferred[d]
  BY <1>2, SceneFits DEF Scenes
<1> HIDE DEF s
<1>6. PICK w \in Surfaces(scene) : w.react = k
  BY DEF SceneInv, Rendered
<1>7. w.key = k /\ k # 0 /\ scene.mounted
  BY <1>6, SceneFits, KeyedSurface, NothingRendered
<1>8. placedCloud(scene) = {c} /\ placedCloud(s) = {}
  BY <1>4, <1>5, PlacedClouds
<1>9. scene.transferred[c] = 0
  BY <1>2, SceneFits DEF KeysFit
<1>10. \A d \in DOMAIN scene.clouds : resourceKeyForCloud(s, d) = resourceKeyForCloud(scene, d)
  BY <1>2, <1>5, <1>8, <1>9 DEF resourceKeyForCloud
<1>11. ASSUME NEW d \in DOMAIN scene.clouds, resourceKeyForCloud(s, d) = k
       PROVE  k \in DOMAIN surfaces'
  <2>1. Saved(s, d) \in Surfaces(s)
    BY <1>5, <1>7, SurfacesAre
  <2>2. Saved(s, d).react = k
    BY <1>7, <1>11 DEF Saved
  <2> QED BY <1>3, <2>1, <2>2
<1>12. CASE \E d \in DOMAIN scene.clouds : w = Saved(scene, d)
  <2>1. PICK d \in DOMAIN scene.clouds : w = Saved(scene, d)
    BY <1>12
  <2>2. resourceKeyForCloud(scene, d) = k
    BY <1>7, <2>1 DEF Saved
  <2> QED BY <1>10, <1>11, <2>2
<1>13. CASE k \in Candidates(scene) /\ Kept(scene, k)
  <2>1. resourceKeyForCloud(scene, c) = scene.placed.key
    BY <1>8, <1>9 DEF resourceKeyForCloud
  <2>2. k = scene.preview
    BY <1>2, <1>13, <2>1 DEF Candidates, Kept
  <2>3. k \in Candidates(s)
    BY <1>5, <1>7, <2>2 DEF Candidates
  <2>4. CASE Kept(s, k)
    <3>1. Preview(k) \in Surfaces(s)
      BY <1>5, <1>7, <2>3, <2>4, SurfacesAre
    <3>2. Preview(k).react = k
      BY DEF Preview
    <3> QED BY <1>3, <3>1, <3>2
  <2>5. CASE ~Kept(s, k)
    BY <1>5, <1>11, <2>5 DEF Kept
  <2> QED BY <2>4, <2>5
<1>14. \/ \E d \in DOMAIN scene.clouds : w = Saved(scene, d)
       \/ k \in Candidates(scene) /\ Kept(scene, k)
  <2>1. \/ \E d \in DOMAIN scene.clouds : w = Saved(scene, d)
        \/ \E i \in Candidates(scene) : Kept(scene, i) /\ w = Preview(i)
    BY <1>7, SurfacesAre
  <2>2. \A i : Preview(i).react = i
    BY DEF Preview
  <2> QED BY <1>6, <2>1, <2>2
<1> QED BY <1>12, <1>13, <1>14

\* A cloud comes with a read, which leaves everything else about the placement.
LEMMA CloudsComeWithReads ==
  ASSUME SceneInv, [SceneNext]_sceneVars, NEW c \in DOMAIN scene'.clouds \ DOMAIN scene.clouds
  PROVE  /\ scene.mounted /\ scene'.mounted /\ scene'.clouds \in Added
         /\ scene'.placed = scene.placed
<1> USE SceneFits
<1>1. ASSUME NEW list \in Answers
      PROVE  LET q == Read(scene, list) IN
             /\ q \in Scenes /\ q.clouds = list
             /\ q.mounted = scene.mounted /\ q.placed = scene.placed
  BY ReadFits DEF Committable, Read, Scenes
<1>2. ASSUME NEW list \in Answers \ Added PROVE DOMAIN list \subseteq DOMAIN scene.clouds
  <2>1. CASE list \in Removed
    <3>1. PICK d \in DOMAIN scene.clouds :
            list = [e \in DOMAIN scene.clouds \ {d} |-> scene.clouds[e]]
      BY <2>1 DEF Removed
    <3> QED BY <3>1
  <2>2. CASE list \in Moved
    BY <2>2 DEF Moved
  <2> QED BY <1>2, <2>1, <2>2 DEF Answers
<1>3. CASE Refetch
  <2>1. PICK list \in Answers : scene' = Read(scene, list)
    BY <1>3 DEF Refetch, Commits
  <2> QED BY <1>1, <1>2, <1>3, <2>1 DEF Refetch
<1>4. CASE onPlace
  <2>1. CASE \E list \in Added : scene' = [Read(scene, list) EXCEPT !.adding = Nobody]
    <3>1. PICK list \in Added : scene' = [Read(scene, list) EXCEPT !.adding = Nobody]
      BY <2>1
    <3> DEFINE q == Read(scene, list)
    <3>2. /\ q \in Scenes /\ q.clouds = list
          /\ q.mounted = scene.mounted /\ q.placed = scene.placed
      BY <1>1 DEF Answers
    <3> HIDE DEF q
    <3> QED BY <1>4, <3>1, <3>2 DEF q, Scenes, onPlace
  <2>2. CASE \E placed : scene' = [Read(scene, scene.clouds) EXCEPT !.adding = Nobody,
                                                                   !.placed = placed]
    <3> DEFINE q == Read(scene, scene.clouds)
    <3>1. q \in Scenes /\ q.clouds = scene.clouds
      BY <1>1 DEF Answers
    <3> HIDE DEF q
    <3> QED BY <2>2, <3>1 DEF q, Scenes
  <2>3. \/ \E list \in Added : scene' = [Read(scene, list) EXCEPT !.adding = Nobody]
        \/ \E placed : scene' = [Read(scene, scene.clouds) EXCEPT !.adding = Nobody,
                                                                 !.placed = placed]
    BY <1>4 DEF onPlace, Commits
  <2> QED BY <2>1, <2>2, <2>3
<1>5. CASE ~Refetch /\ ~onPlace
  <2>1. CASE finishPlacement
    BY <2>1 DEF finishPlacement, Commits, Scenes
  <2>2. CASE Mount \/ updatePreview \/ startCloudPlacement \/ cancel \/ onTap \/ Leave
    BY <2>2 DEF Mount, updatePreview, startCloudPlacement, cancel, onTap, Leave, Commits, Scenes
  <2>3. CASE \/ Switch \/ releaseMicrotasks \/ Downloads \/ Loads \/ LoadFails
             \/ UNCHANGED sceneVars
    BY <2>3 DEF Switch, releaseMicrotasks, Downloads, Loads, LoadFails, sceneVars
  <2>4. CASE disposeBackend
    BY <2>4 DEF disposeBackend, Scenes
  <2> QED BY <1>5, <2>1, <2>2, <2>3, <2>4 DEF SceneNext, Settling
<1> QED BY <1>3, <1>4, <1>5

\* The one that comes where a cloud was placed is recognised.
LEMMA PlacedIsRecognised ==
  ASSUME SceneInv, [SceneNext]_sceneVars, NEW c \in DOMAIN scene'.clouds \ DOMAIN scene.clouds
  PROVE  TakesOver(c)
<1> SUFFICES ASSUME scene.placed # Nobody, placedCloud(scene) = {},
                    c \notin scene.placed.before, scene'.clouds[c] = scene.placed.spot
             PROVE  /\ scene.placed.key \in DOMAIN surfaces'
                    /\ surfaces'[scene.placed.key].cloud = c
  BY DEF TakesOver
<1> DEFINE p == scene.placed
           New(s) == {d \in DOMAIN s.clouds \ p.before : s.clouds[d] = p.spot}
<1>1. scene'.mounted /\ scene'.clouds \in Added /\ scene'.placed = p
  BY CloudsComeWithReads
<1>2. PICK e \in Fresh, spot \in Spots : scene'.clouds = Plus(e, spot)
  BY <1>1 DEF Added
<1>3. \A d \in DOMAIN scene'.clouds \ {c} :
        d \in DOMAIN scene.clouds /\ scene'.clouds[d] = scene.clouds[d]
  BY <1>2 DEF Plus
<1>4. New(scene) = {}
  BY DEF placedCloud
<1>5. New(scene') = {c}
  BY <1>3, <1>4
<1>6. placedCloud(scene') = {c}
  BY <1>1, <1>5 DEF placedCloud
<1>7. SceneInv'
  BY SceneInvStep
<1>8. c \in Clouds /\ scene'.transferred[c] = 0 /\ p.key # 0
  BY <1>1, <1>7, SceneFits DEF SceneInv, SceneTypeOK, Scenes, Lists, KeysFit
<1>9. resourceKeyForCloud(scene', c) = p.key
  BY <1>1, <1>6, <1>8 DEF resourceKeyForCloud
<1>10. Saved(scene', c) \in Surfaces(scene')
  BY <1>1, SurfacesAre
<1>11. Saved(scene', c).react = p.key /\ Saved(scene', c).cloud = c
  BY <1>8, <1>9 DEF Saved
<1> QED BY <1>7, <1>10, <1>11 DEF SceneInv, Rendered

\* Whatever is read, placed, cancelled, refused or loaded meanwhile, the surface of a
\* placement draws the same loaded model from the preview to the saved cloud and after
\* (use-cloud-placement, SceneClouds, GaussianCloudResourceCache).
THEOREM ModelsAreHandedOver == SceneSpec => HandOverKeepsTheModel
<1>1. ASSUME SceneInv, [SceneNext]_sceneVars, NEW k \in DOMAIN surfaces
      PROVE  KeepsWhatItDraws(k)
  <2> SUFFICES ASSUME k \in Keys, Drawn(k) # 0,
                      k \in DOMAIN surfaces' \/ scene'.transferred # scene.transferred
               PROVE  k \in DOMAIN surfaces' /\ Drawn(k)' = Drawn(k)
    BY DEF KeepsWhatItDraws
  <2>1. k \in DOMAIN surfaces'
    <3>1. CASE finishPlacement
      BY <1>1, <3>1, FinishKeepsSurfaces
    <3>2. CASE ~finishPlacement
      BY <1>1, <3>2, KeysStay
    <3> QED BY <3>1, <3>2
  <2> QED BY <1>1, <2>1, SceneInvStep DEF ModelsStay
<1>2. SceneInv /\ [SceneNext]_sceneVars =>
        [/\ \A k \in DOMAIN surfaces : KeepsWhatItDraws(k)
         /\ \A c \in DOMAIN scene'.clouds \ DOMAIN scene.clouds : TakesOver(c)]_sceneVars
  BY <1>1, PlacedIsRecognised
<1> QED BY <1>2, SceneInvHolds, PTL DEF SceneSpec, HandOverKeepsTheModel

-----------------------------------------------------------------------------
(* The clouds that are shared *)

\* A surface leases the one live entry of its resource, if there is one, and gets what is
\* loaded; what nobody leases is about to be released.
LeasesFit ==
  /\ \A k \in DOMAIN surfaces :
       LET i == surfaces[k].lease IN
       /\ SameResource(resources[i], surfaces[k])
       /\ resources[i].stage = "ready" => surfaces[k].loaded = i
       /\ \A j \in DOMAIN resources :
            Live(resources[j]) /\ SameResource(resources[j], surfaces[k]) => j = i
  /\ \A i \in DOMAIN resources :
       Live(resources[i]) => resources[i].stage # "failed" /\ i \in Leases \cup releases

HeldNow == {ResourceOf(surfaces[k]) : k \in DOMAIN surfaces}
DrawnNow == {ResourceOf(surfaces[k]) : k \in {l \in DOMAIN surfaces : Drawn(l) # 0}}
LoadingNow == Usable({"download", "render"})
ReadyNow == Usable({"ready"})

LEMMA ResourcesAre ==
  ASSUME NEW e, NEW f
  PROVE  /\ SameResource(e, f) => ResourceOf(e) = ResourceOf(f)
         /\ ResourceOf(e) = ResourceOf(f) => SameResource(e, f)
BY DEF SameResource, ResourceOf

LEMMA UsableIs ==
  ASSUME NEW stages
  PROVE  \A r : r \in Usable(stages) <=>
           \E i \in DOMAIN resources : /\ Live(resources[i]) /\ resources[i].stage \in stages
                                       /\ r = ResourceOf(resources[i])
BY DEF Usable, Live

\* Whoever holds a loaded cloud draws it.
LEMMA DrawnIsHeld ==
  ASSUME SceneInv, LeasesFit PROVE DrawnNow = HeldNow \cap ReadyNow
<1>1. ASSUME NEW k \in DOMAIN surfaces, Drawn(k) # 0
      PROVE  ResourceOf(surfaces[k]) \in ReadyNow
  <2> DEFINE i == surfaces[k].lease
  <2>1. /\ i \in DOMAIN resources /\ surfaces[k].loaded = i
        /\ resources[i].stage = "ready" /\ ~resources[i].disposed
    BY <1>1 DEF SceneInv, SceneTypeOK, Leased, Held, Drawn
  <2>2. Live(resources[i])
    BY <2>1 DEF SceneInv, EntriesFit, Live
  <2>3. ResourceOf(resources[i]) = ResourceOf(surfaces[k])
    BY ResourcesAre DEF LeasesFit
  <2> HIDE DEF i
  <2> QED BY <2>1, <2>2, <2>3, UsableIs DEF ReadyNow
<1>2. ASSUME NEW k \in DOMAIN surfaces, ResourceOf(surfaces[k]) \in ReadyNow
      PROVE  Drawn(k) # 0
  <2>1. PICK j \in DOMAIN resources :
          /\ Live(resources[j]) /\ resources[j].stage = "ready"
          /\ ResourceOf(surfaces[k]) = ResourceOf(resources[j])
    BY <1>2, UsableIs DEF ReadyNow
  <2>2. SameResource(resources[j], surfaces[k])
    BY <2>1, ResourcesAre
  <2>3. j = surfaces[k].lease /\ surfaces[k].loaded = j
    BY <2>1, <2>2 DEF LeasesFit
  <2>4. j # 0
    BY Ids DEF SceneInv
  <2> QED BY <2>2, <2>3, <2>4 DEF Drawn
<1> QED BY <1>1, <1>2 DEF DrawnNow, HeldNow

\* A commit leases what it finds or makes.
LEMMA CommittedFits ==
  ASSUME SceneInv, LeasesFit, NEW s, Committable(s), NEW b, NEW m, NEW lease,
         Committed(s, b, m, lease), EntriesFit'
  PROVE  LeasesFit'
<1> USE CommittedIds
<1>1. ASSUME NEW w \in Surfaces(s)
      PROVE  LET f == surfaces'[w.react] IN
             /\ SameResource(resources'[f.lease], f)
             /\ resources'[f.lease].stage = "ready" => f.loaded = f.lease
             /\ \A j \in DOMAIN resources' :
                  Live(resources'[j]) /\ SameResource(resources'[j], f) => j = f.lease
  <2> DEFINE f == surfaces'[w.react]
  <2>1. /\ f.cloud = w.cloud /\ f.key = w.key /\ f.url = w.url /\ f.lease = lease[w]
        /\ resources'[lease[w]].stage = "ready" => f.loaded = lease[w]
    <3>1. f = [cloud |-> w.cloud, key |-> w.key, url |-> w.url, lease |-> lease[w],
                loaded |-> IF resources'[lease[w]].stage = "ready" THEN lease[w]
                           ELSE Before(w).loaded,
                failed |-> StillFailed(w) /\ ~(resources'[lease[w]].stage = "ready")]
      BY Zenon DEF Committed
    <3> HIDE DEF f
    <3> QED BY <3>1
  <2>2. /\ lease[w] \in DOMAIN resources' /\ Live(resources'[lease[w]])
        /\ SameResource(resources'[lease[w]], w)
    BY CommittedLeases
  <2> HIDE DEF f
  <2>3. SameResource(resources'[lease[w]], f)
    BY <2>1, <2>2 DEF SameResource
  <2>4. ASSUME NEW j \in DOMAIN resources',
               Live(resources'[j]), SameResource(resources'[j], f)
        PROVE  j = lease[w]
    <3>1. SameResource(resources'[j], resources'[lease[w]])
      BY <2>3, <2>4, ResourcesAre
    <3> QED BY <2>2, <2>4, <3>1 DEF EntriesFit
  <2> QED BY <2>1, <2>3, <2>4 DEF f
<1>2. DOMAIN surfaces' = {w.react : w \in Surfaces(s)}
  BY DEF Committed
<1>3. ASSUME NEW i \in DOMAIN resources', Live(resources'[i])
      PROVE  resources'[i].stage # "failed" /\ i \in Leases' \cup releases'
  <2>1. CASE i \in DOMAIN resources
    BY <1>3, <2>1 DEF LeasesFit, Committed
  <2>2. CASE i \notin DOMAIN resources
    <3>1. PICK w \in Surfaces(s) : resources'[i] = Entry(w) /\ lease[w] = i
      BY <2>2, NewEntries
    <3>2. surfaces'[w.react].lease = i
      <4>1. surfaces'[w.react] =
              [cloud |-> w.cloud, key |-> w.key, url |-> w.url, lease |-> lease[w],
               loaded |-> IF resources'[lease[w]].stage = "ready" THEN lease[w]
                          ELSE Before(w).loaded,
               failed |-> StillFailed(w) /\ ~(resources'[lease[w]].stage = "ready")]
        BY Zenon DEF Committed
      <4> QED BY <3>1, <4>1
    <3> QED BY <1>2, <3>1, <3>2 DEF Leases, Entry
  <2> QED BY <2>1, <2>2
<1> QED BY <1>1, <1>2, <1>3 DEF LeasesFit

\* What a step does to what is held, being loaded and ready; what is drawn follows.
Resources == Keys \X (Clouds \cup {Nobody}) \X Nat

Asks == /\ HeldNow' \subseteq Resources
        /\ LoadingNow' = LoadingNow \cup (HeldNow' \ ReadyNow)
        /\ ReadyNow' = ReadyNow

Ends == /\ \E r \in LoadingNow : /\ LoadingNow' = LoadingNow \ {r}
                                 /\ ReadyNow' \in {ReadyNow, ReadyNow \cup {r}}
        /\ HeldNow' = HeldNow

GivesUp == /\ LoadingNow' = LoadingNow \cap HeldNow
           /\ ReadyNow' = ReadyNow \cap HeldNow
           /\ HeldNow' = HeldNow

Rests == LoadingNow' = LoadingNow /\ ReadyNow' = ReadyNow /\ HeldNow' = HeldNow

\* In a commit all surfaces ask anew.
LEMMA CommittedAsks ==
  ASSUME SceneInv, LeasesFit, NEW s, Committable(s), NEW b, NEW m, NEW lease,
         Committed(s, b, m, lease), SceneInv', LeasesFit'
  PROVE  Asks
<1>5. \A i \in DOMAIN resources' \ DOMAIN resources :
        \E w \in Surfaces(s) : Found(w) = {} /\ resources'[i] = Entry(w) /\ lease[w] = i
  <2>1. ASSUME NEW i \in DOMAIN resources' \ DOMAIN resources
        PROVE  \E w \in Surfaces(s) : Found(w) = {} /\ resources'[i] = Entry(w) /\ lease[w] = i
    BY NewEntries
  <2> QED BY <2>1
<1> USE CommittedIds
<1>6. HeldNow' = {ResourceOf(w) : w \in Surfaces(s)}
  <2>1. DOMAIN surfaces' = {w.react : w \in Surfaces(s)}
    BY DEF Committed
  <2>2. scene' = s
    BY DEF Committed
  <2>3. \A w \in Surfaces(s) : /\ surfaces'[w.react].cloud = w.cloud
                               /\ surfaces'[w.react].key = w.key
                               /\ surfaces'[w.react].url = w.url
    <3>1. \A w \in Surfaces(scene') : /\ surfaces'[w.react].cloud = w.cloud
                                      /\ surfaces'[w.react].key = w.key
                                      /\ surfaces'[w.react].url = w.url
      BY DEF SceneInv, Rendered
    <3> QED BY <2>2, <3>1
  <2>4. \A w \in Surfaces(s) : ResourceOf(surfaces'[w.react]) = ResourceOf(w)
    BY <2>3 DEF ResourceOf
  <2>5. ASSUME NEW w \in Surfaces(s) PROVE ResourceOf(w) \in HeldNow'
    BY <2>1, <2>4 DEF HeldNow
  <2>6. ASSUME NEW k \in DOMAIN surfaces'
        PROVE  \E w \in Surfaces(s) : ResourceOf(surfaces'[k]) = ResourceOf(w)
    BY <2>1, <2>4
  <2> QED BY <2>5, <2>6 DEF HeldNow
<1>7. HeldNow' \subseteq Resources
  <2>1. Surfaces(s) \subseteq RenderedSurface
    BY SurfacesFit DEF Committable
  <2>2. 0 \in Keys
    BY SceneAssumption DEF SceneAssumption, Keys
  <2>3. \A w \in RenderedSurface : ResourceOf(w) \in Resources
    BY <2>2 DEF RenderedSurface, ResourceOf, Resources
  <2> QED BY <1>6, <2>1, <2>3
<1>8. ReadyNow' = ReadyNow
  <2>1. ASSUME NEW i \in DOMAIN resources', resources'[i].stage = "ready"
        PROVE  i \in DOMAIN resources
    BY <1>5, <2>1 DEF Entry
  <2> QED BY <2>1 DEF ReadyNow, Usable
<1>9. ASSUME NEW r \in LoadingNow PROVE r \in LoadingNow'
  BY <1>9 DEF LoadingNow, Usable
<1>10. ASSUME NEW r \in HeldNow' \ ReadyNow PROVE r \in LoadingNow'
  <2>1. PICK w \in Surfaces(s) : r = ResourceOf(w)
    BY <1>6
  <2> DEFINE i == lease[w]
  <2>2. i \in DOMAIN resources' /\ Live(resources'[i]) /\ ResourceOf(resources'[i]) = r
    BY <2>1, CommittedLeases, ResourcesAre
  <2>3. resources'[i].stage # "failed"
    BY <2>2 DEF LeasesFit
  <2>4. resources'[i].stage # "ready"
    BY <1>8, <1>10, <2>2 DEF ReadyNow, Usable, Live
  <2>5. resources'[i] \in Entries
    BY <2>2 DEF SceneInv, SceneTypeOK
  <2>6. resources'[i].stage \in {"download", "render"}
    BY <2>3, <2>4, <2>5 DEF Entries
  <2> QED BY <2>2, <2>6 DEF LoadingNow, Usable, Live
<1>11. ASSUME NEW r \in LoadingNow', r \notin LoadingNow PROVE r \in HeldNow' \ ReadyNow
  <2>1. PICK i \in DOMAIN resources' :
          /\ Live(resources'[i]) /\ resources'[i].stage \in {"download", "render"}
          /\ r = ResourceOf(resources'[i])
    BY <1>11 DEF LoadingNow, Usable, Live
  <2>2. i \notin DOMAIN resources
    BY <1>11, <2>1 DEF LoadingNow, Usable, Live
  <2>3. PICK w \in Surfaces(s) : Found(w) = {} /\ resources'[i] = Entry(w)
    BY <1>5, <2>1, <2>2
  <2>4. r = ResourceOf(w)
    BY <2>1, <2>3 DEF ResourceOf, Entry
  <2>5. ASSUME r \in ReadyNow PROVE FALSE
    <3>1. PICK j \in DOMAIN resources : Live(resources[j]) /\ r = ResourceOf(resources[j])
      BY <2>5, UsableIs DEF ReadyNow
    <3>2. j \in Found(w)
      BY <2>4, <3>1, ResourcesAre DEF Found, Live
    <3> QED BY <2>3, <3>2
  <2> QED BY <1>6, <2>4, <2>5
<1> QED BY <1>7, <1>8, <1>9, <1>10, <1>11 DEF Asks

LEMMA CommitAsks == ASSUME SceneInv, LeasesFit, Commit PROVE LeasesFit' /\ Asks
<1>1. PICK s, b : Committable(s) /\ PageOf(s) /\ Base(b) /\ Commits(s, b)
  BY DEF Commit
<1>2. PICK m, lease : Committed(s, b, m, lease)
  BY <1>1, CommitsAre
<1>3. SceneInv'
  BY CommitKeeps
<1>4. LeasesFit'
  BY <1>1, <1>2, <1>3, CommittedFits DEF SceneInv
<1> QED BY <1>1, <1>2, <1>3, <1>4, CommittedAsks

\* Every surface keeps asking for the same, every entry holds the same.
Unasked ==
  /\ DOMAIN resources' = DOMAIN resources /\ DOMAIN surfaces' = DOMAIN surfaces
  /\ \A i \in DOMAIN resources :
       /\ resources'[i].key = resources[i].key /\ resources'[i].cloud = resources[i].cloud
       /\ resources'[i].url = resources[i].url
  /\ \A k \in DOMAIN surfaces :
       /\ surfaces'[k].cloud = surfaces[k].cloud /\ surfaces'[k].key = surfaces[k].key
       /\ surfaces'[k].url = surfaces[k].url /\ surfaces'[k].lease = surfaces[k].lease

LEMMA UnaskedHolds ==
  ASSUME Unasked
  PROVE  /\ HeldNow' = HeldNow /\ Leases' = Leases
         /\ \A i \in DOMAIN resources : ResourceOf(resources'[i]) = ResourceOf(resources[i])
<1>1. \A k \in DOMAIN surfaces : ResourceOf(surfaces'[k]) = ResourceOf(surfaces[k])
  BY DEF Unasked, ResourceOf
<1>2. \A i \in DOMAIN resources : ResourceOf(resources'[i]) = ResourceOf(resources[i])
  BY DEF Unasked, ResourceOf
<1>3. HeldNow' = HeldNow
  BY <1>1 DEF Unasked, HeldNow
<1>4. Leases' = Leases
  BY DEF Unasked, Leases
<1> QED BY <1>2, <1>3, <1>4

LEMMA UnaskedUsable ==
  ASSUME Unasked, NEW stages
  PROVE  \A r : r \in Usable(stages)' <=>
           \E i \in DOMAIN resources : /\ Live(resources'[i]) /\ resources'[i].stage \in stages
                                       /\ r = ResourceOf(resources[i])
<1>1. DOMAIN resources' = DOMAIN resources
  BY DEF Unasked
<1> QED BY <1>1, UnaskedHolds DEF Usable, Live

LEMMA UnaskedFits ==
  ASSUME SceneInv, LeasesFit, Unasked,
         \A i \in DOMAIN resources : Live(resources'[i]) =>
           /\ Live(resources[i]) /\ resources'[i].stage # "failed"
           /\ i \in Leases \cup releases',
         \A k \in DOMAIN surfaces : resources'[surfaces[k].lease].stage = "ready" =>
           surfaces'[k].loaded = surfaces[k].lease
  PROVE  LeasesFit'
<1>1. ASSUME NEW k \in DOMAIN surfaces
      PROVE  LET i == surfaces'[k].lease IN
             /\ SameResource(resources'[i], surfaces'[k])
             /\ resources'[i].stage = "ready" => surfaces'[k].loaded = i
             /\ \A j \in DOMAIN resources' :
                  Live(resources'[j]) /\ SameResource(resources'[j], surfaces'[k]) => j = i
  <2> DEFINE i == surfaces[k].lease
  <2>1. i \in DOMAIN resources /\ surfaces'[k].lease = i
    BY DEF SceneInv, SceneTypeOK, Leased, Unasked
  <2>2. SameResource(resources'[i], surfaces'[k])
    BY <2>1 DEF LeasesFit, SameResource, Unasked
  <2>3. ASSUME NEW j \in DOMAIN resources,
               Live(resources'[j]), SameResource(resources'[j], surfaces'[k])
        PROVE  j = i
    <3>1. SameResource(resources[j], surfaces[k])
      BY <2>3 DEF SameResource, Unasked
    <3> QED BY <2>3, <3>1 DEF LeasesFit
  <2>4. DOMAIN resources' = DOMAIN resources
    BY DEF Unasked
  <2> QED BY <2>1, <2>2, <2>3, <2>4
<1>2. /\ DOMAIN resources' = DOMAIN resources /\ DOMAIN surfaces' = DOMAIN surfaces
      /\ Leases' = Leases
  BY UnaskedHolds DEF Unasked
<1> QED BY <1>1, <1>2 DEF LeasesFit

\* A load goes on or ends, and ends the load of its resource unless it was given up.
LEMMA StagedShares ==
  ASSUME SceneInv, LeasesFit, NEW i \in DOMAIN resources,
         NEW stage \in {"render", "ready", "failed"}, NEW listed \in BOOLEAN,
         Staged(i, stage, listed), resources[i].stage \in {"download", "render"},
         listed = (resources[i].listed /\ stage # "failed"),
         Unasked, releases' = releases,
         \A k \in DOMAIN surfaces :
           surfaces'[k].loaded = IF surfaces[k].lease = i /\ stage = "ready" THEN i
                                 ELSE surfaces[k].loaded
  PROVE  LeasesFit' /\ (Ends \/ Rests)
<1>1. /\ \A j \in DOMAIN resources \ {i} : resources'[j] = resources[j]
      /\ resources'[i].stage = stage /\ resources'[i].listed = listed
      /\ resources'[i].disposed = resources[i].disposed
  BY StagedEntries
<1>2. LeasesFit'
  <2>1. ASSUME NEW j \in DOMAIN resources, Live(resources'[j])
        PROVE  /\ Live(resources[j]) /\ resources'[j].stage # "failed"
               /\ j \in Leases \cup releases'
    <3>1. Live(resources[j]) /\ resources'[j].stage # "failed"
      BY <1>1, <2>1 DEF Live, LeasesFit
    <3> QED BY <3>1 DEF LeasesFit
  <2>2. ASSUME NEW k \in DOMAIN surfaces, resources'[surfaces[k].lease].stage = "ready"
        PROVE  surfaces'[k].loaded = surfaces[k].lease
    <3>1. surfaces[k].lease \in DOMAIN resources
      BY DEF SceneInv, SceneTypeOK, Leased
    <3> QED BY <1>1, <2>2, <3>1 DEF LeasesFit
  <2> QED BY <2>1, <2>2, UnaskedFits
<1> DEFINE r == ResourceOf(resources[i])
<1>3. ASSUME Live(resources[i])
      PROVE  \A j \in DOMAIN resources :
               Live(resources[j]) /\ ResourceOf(resources[j]) = r => j = i
  BY <1>3, ResourcesAre DEF SceneInv, EntriesFit
<1>4. CASE ~Live(resources[i])
  <2>1. \A j \in DOMAIN resources :
          /\ Live(resources'[j]) <=> Live(resources[j])
          /\ Live(resources[j]) => resources'[j] = resources[j]
    BY <1>1, <1>4 DEF Live
  <2>2. \A q : q \in LoadingNow' <=> q \in LoadingNow
    BY <2>1, UsableIs, UnaskedUsable DEF LoadingNow
  <2>3. \A q : q \in ReadyNow' <=> q \in ReadyNow
    BY <2>1, UsableIs, UnaskedUsable DEF ReadyNow
  <2> QED BY <1>2, <2>2, <2>3, UnaskedHolds DEF Rests
<1>5. CASE Live(resources[i])
  <2>1. /\ \A j \in DOMAIN resources : Live(resources'[j]) <=>
             Live(resources[j]) /\ (j = i => stage # "failed")
        /\ \A j \in DOMAIN resources :
             resources'[j].stage = IF j = i THEN stage ELSE resources[j].stage
    BY <1>1, <1>5 DEF Live
  <2> HIDE DEF r
  <2>2. r \in LoadingNow
    BY <1>5, UsableIs DEF LoadingNow, r
  <2>3. \A q : q \in LoadingNow' <=> q \in LoadingNow /\ (q = r => stage = "render")
    <3>1. ASSUME NEW q, q \in LoadingNow'
          PROVE  q \in LoadingNow /\ (q = r => stage = "render")
      <4>1. PICK j \in DOMAIN resources :
              /\ Live(resources'[j]) /\ resources'[j].stage \in {"download", "render"}
              /\ q = ResourceOf(resources[j])
        BY <3>1, UnaskedUsable DEF LoadingNow
      <4>2. q \in LoadingNow
        BY <2>1, <2>2, <4>1, UsableIs DEF LoadingNow, r
      <4>3. q = r => j = i
        BY <1>3, <1>5, <2>1, <4>1 DEF r
      <4> QED BY <2>1, <4>1, <4>2, <4>3
    <3>2. ASSUME NEW q, q \in LoadingNow, q = r => stage = "render"
          PROVE  q \in LoadingNow'
      <4>1. PICK j \in DOMAIN resources :
              /\ Live(resources[j]) /\ resources[j].stage \in {"download", "render"}
              /\ q = ResourceOf(resources[j])
        BY <3>2, UsableIs DEF LoadingNow
      <4>2. Live(resources'[j]) /\ resources'[j].stage \in {"download", "render"}
        BY <2>1, <3>2, <4>1 DEF r
      <4> QED BY <4>1, <4>2, UnaskedUsable DEF LoadingNow
    <3> QED BY <3>1, <3>2
  <2>4. \A q : q \in ReadyNow' <=> q \in ReadyNow \/ (q = r /\ stage = "ready")
    <3>1. ASSUME NEW q, q \in ReadyNow'
          PROVE  q \in ReadyNow \/ (q = r /\ stage = "ready")
      <4>1. PICK j \in DOMAIN resources :
              /\ Live(resources'[j]) /\ resources'[j].stage = "ready"
              /\ q = ResourceOf(resources[j])
        BY <3>1, UnaskedUsable DEF ReadyNow
      <4> QED BY <2>1, <4>1, UsableIs DEF ReadyNow, r
    <3>2. ASSUME NEW q, q \in ReadyNow \/ (q = r /\ stage = "ready")
          PROVE  q \in ReadyNow'
      <4>1. CASE q \in ReadyNow
        <5>1. PICK j \in DOMAIN resources :
                /\ Live(resources[j]) /\ resources[j].stage = "ready"
                /\ q = ResourceOf(resources[j])
          BY <4>1, UsableIs DEF ReadyNow
        <5>2. Live(resources'[j]) /\ resources'[j].stage = "ready"
          BY <2>1, <5>1
        <5> QED BY <5>1, <5>2, UnaskedUsable DEF ReadyNow
      <4>2. CASE q = r /\ stage = "ready"
        BY <1>5, <2>1, <4>2, UnaskedUsable DEF ReadyNow, r
      <4> QED BY <3>2, <4>1, <4>2
    <3> QED BY <3>1, <3>2
  <2>5. HeldNow' = HeldNow
    BY UnaskedHolds
  <2>6. CASE stage = "render"
    BY <1>2, <2>3, <2>4, <2>5, <2>6 DEF Rests
  <2>7. CASE stage # "render"
    <3>1. LoadingNow' = LoadingNow \ {r}
      BY <2>3, <2>7
    <3>2. ReadyNow' \in {ReadyNow, ReadyNow \cup {r}}
      <4>1. CASE stage = "ready"
        BY <2>4, <4>1
      <4>2. CASE stage # "ready"
        BY <2>4, <4>2
      <4> QED BY <4>1, <4>2
    <3> QED BY <1>2, <2>2, <2>5, <3>1, <3>2 DEF Ends
  <2> QED BY <2>6, <2>7
<1> QED BY <1>4, <1>5

LEMMA DownloadsShare ==
  ASSUME SceneInv, LeasesFit, Downloads PROVE LeasesFit' /\ (Ends \/ Rests)
<1>1. PICK i \in DOMAIN resources :
        /\ resources[i].stage = "download"
        /\ resources' = [resources EXCEPT ![i].stage = "render"]
  BY DEF Downloads
<1>2. UNCHANGED <<surfaces, releases>>
  BY DEF Downloads
<1>3. Staged(i, "render", resources[i].listed) /\ resources[i].listed \in BOOLEAN
  BY <1>1, StageAlone
<1>4. Unasked
  BY <1>2, <1>3, StagedEntries DEF Unasked
<1> QED BY <1>1, <1>2, <1>3, <1>4, StagedShares

LEMMA LoadsShare ==
  ASSUME SceneInv, LeasesFit, Loads PROVE LeasesFit' /\ (Ends \/ Rests)
<1>1. PICK i \in DOMAIN resources :
        /\ resources[i].stage = IF backend.tiles THEN "render" ELSE "download"
        /\ resources' = [resources EXCEPT ![i].stage = "ready"]
        /\ Told(i, "loaded", i)
  BY DEF Loads
<1>2. UNCHANGED releases
  BY DEF Loads
<1>3. Staged(i, "ready", resources[i].listed) /\ resources[i].listed \in BOOLEAN
  BY <1>1, StageAlone
<1>4. /\ DOMAIN surfaces' = DOMAIN surfaces
      /\ \A k \in DOMAIN surfaces :
           /\ surfaces'[k].cloud = surfaces[k].cloud /\ surfaces'[k].key = surfaces[k].key
           /\ surfaces'[k].url = surfaces[k].url /\ surfaces'[k].lease = surfaces[k].lease
           /\ surfaces'[k].loaded = IF surfaces[k].lease = i THEN i ELSE surfaces[k].loaded
  BY <1>1, ToldLoaded
<1>5. Unasked
  BY <1>3, <1>4, StagedEntries DEF Unasked
<1>6. resources[i].stage \in {"download", "render"}
  BY <1>1
<1> QED BY <1>2, <1>3, <1>4, <1>5, <1>6, StagedShares

LEMMA LoadFailsShares ==
  ASSUME SceneInv, LeasesFit, LoadFails PROVE LeasesFit' /\ (Ends \/ Rests)
<1>1. PICK i \in DOMAIN resources :
        /\ i \in backend.loads
        /\ resources' = [resources EXCEPT ![i].stage = "failed", ![i].listed = FALSE]
        /\ Told(i, "failed", TRUE)
  BY DEF LoadFails
<1>2. UNCHANGED releases
  BY DEF LoadFails
<1>3. Staged(i, "failed", FALSE)
  BY <1>1 DEF Staged
<1>4. /\ DOMAIN surfaces' = DOMAIN surfaces
      /\ \A k \in DOMAIN surfaces :
           /\ surfaces'[k].cloud = surfaces[k].cloud /\ surfaces'[k].key = surfaces[k].key
           /\ surfaces'[k].url = surfaces[k].url /\ surfaces'[k].lease = surfaces[k].lease
           /\ surfaces'[k].loaded = surfaces[k].loaded
  BY <1>1, ToldFailed
<1>5. Unasked
  BY <1>3, <1>4, StagedEntries DEF Unasked
<1>6. resources[i].stage \in {"download", "render"}
  BY <1>1 DEF SceneInv, AliveFits
<1> QED BY <1>2, <1>3, <1>4, <1>5, <1>6, StagedShares

\* The microtasks give up what no surface holds.
LEMMA ReleaseShares ==
  ASSUME SceneInv, LeasesFit, releaseMicrotasks PROVE LeasesFit' /\ GivesUp
<1> DEFINE unused == {i \in releases \ Leases : ~resources[i].disposed}
<1>1. surfaces' = surfaces /\ releases' = {}
  BY DEF releaseMicrotasks
<1>2. resources' = [i \in DOMAIN resources |->
                     IF i \in unused
                     THEN [resources[i] EXCEPT !.disposed = TRUE, !.listed = FALSE]
                     ELSE resources[i]]
  BY DEF releaseMicrotasks
<1> HIDE DEF unused
<1>3. ASSUME NEW i \in DOMAIN resources
      PROVE  LET e == resources'[i] IN
             /\ e.stage = resources[i].stage /\ e.key = resources[i].key
             /\ e.cloud = resources[i].cloud /\ e.url = resources[i].url
             /\ i \in unused => e.disposed /\ ~e.listed
             /\ i \notin unused => e = resources[i]
  <2>1. resources[i] \in Entries
    BY Ids DEF SceneInv
  <2>2. resources'[i] = IF i \in unused
                        THEN [resources[i] EXCEPT !.disposed = TRUE, !.listed = FALSE]
                        ELSE resources[i]
    BY <1>2
  <2> QED BY <2>1, <2>2 DEF Entries
<1>4. Unasked
  BY <1>1, <1>2, <1>3 DEF Unasked
<1>5. \A i \in DOMAIN resources :
        Live(resources'[i]) <=> Live(resources[i]) /\ i \in Leases
  BY <1>3 DEF Live, LeasesFit, unused
<1>6. LeasesFit'
  <2>1. \A i \in DOMAIN resources : Live(resources'[i]) =>
          /\ Live(resources[i]) /\ resources'[i].stage # "failed"
          /\ i \in Leases \cup releases'
    BY <1>3, <1>5 DEF LeasesFit
  <2>2. ASSUME NEW k \in DOMAIN surfaces, resources'[surfaces[k].lease].stage = "ready"
        PROVE  surfaces'[k].loaded = surfaces[k].lease
    <3>1. surfaces[k].lease \in DOMAIN resources
      BY DEF SceneInv, SceneTypeOK, Leased
    <3> QED BY <1>1, <1>3, <2>2, <3>1 DEF LeasesFit
  <2> QED BY <1>4, <2>1, <2>2, UnaskedFits
\* What is leased is what is held.
<1>7. ASSUME NEW i \in DOMAIN resources, Live(resources[i])
      PROVE  i \in Leases <=> ResourceOf(resources[i]) \in HeldNow
  <2>1. ASSUME i \in Leases PROVE ResourceOf(resources[i]) \in HeldNow
    <3>1. PICK k \in DOMAIN surfaces : i = surfaces[k].lease
      BY <2>1 DEF Leases
    <3>2. ResourceOf(resources[i]) = ResourceOf(surfaces[k])
      BY <3>1, ResourcesAre DEF LeasesFit
    <3> QED BY <3>2 DEF HeldNow
  <2>2. ASSUME ResourceOf(resources[i]) \in HeldNow PROVE i \in Leases
    <3>1. PICK k \in DOMAIN surfaces : ResourceOf(resources[i]) = ResourceOf(surfaces[k])
      BY <2>2 DEF HeldNow
    <3>2. SameResource(resources[i], surfaces[k])
      BY <3>1, ResourcesAre
    <3> QED BY <1>7, <3>2 DEF LeasesFit, Leases
  <2> QED BY <2>1, <2>2
<1>8. \A i \in DOMAIN resources :
        /\ resources'[i].stage = resources[i].stage
        /\ Live(resources'[i]) <=> Live(resources[i]) /\ ResourceOf(resources[i]) \in HeldNow
  BY <1>3, <1>5, <1>7
<1>9. \A q : q \in LoadingNow' <=> q \in LoadingNow \cap HeldNow
  BY <1>4, <1>8, UsableIs, UnaskedUsable DEF LoadingNow
<1>10. \A q : q \in ReadyNow' <=> q \in ReadyNow \cap HeldNow
  BY <1>4, <1>8, UsableIs, UnaskedUsable DEF ReadyNow
<1>11. HeldNow' = HeldNow
  BY <1>4, UnaskedHolds
<1> QED BY <1>6, <1>9, <1>10, <1>11 DEF GivesUp

LEMMA NothingShared ==
  ASSUME UNCHANGED <<surfaces, resources, releases>>, LeasesFit PROVE LeasesFit' /\ Rests
BY DEF LeasesFit, Leases, HeldNow, LoadingNow, ReadyNow, Usable, Rests

LEMMA SharedStep ==
  SceneInv /\ LeasesFit /\ [SceneNext]_sceneVars =>
    LeasesFit' /\ (Asks \/ Ends \/ GivesUp \/ Rests)
<1> SUFFICES ASSUME SceneInv, LeasesFit, [SceneNext]_sceneVars
             PROVE  LeasesFit' /\ (Asks \/ Ends \/ GivesUp \/ Rests)
  OBVIOUS
<1>1. CASE Commit
  BY <1>1, CommitAsks
<1>2. CASE Switch \/ disposeBackend \/ UNCHANGED sceneVars
  BY <1>2, NothingShared DEF Switch, disposeBackend, sceneVars
<1>3. CASE Downloads \/ Loads \/ LoadFails
  BY <1>3, DownloadsShare, LoadsShare, LoadFailsShares
<1>4. CASE releaseMicrotasks
  BY <1>4, ReleaseShares
<1> QED BY <1>1, <1>2, <1>3, <1>4, StepsAre DEF Others

LEMMA NothingSharedInit ==
  ASSUME SceneInit
  PROVE  /\ LeasesFit /\ HeldNow = {} /\ LoadingNow = {} /\ ReadyNow = {} /\ DrawnNow = {}
<1>1. DOMAIN surfaces = {} /\ DOMAIN resources = {}
  BY DEF SceneInit
<1> QED BY <1>1 DEF LeasesFit, HeldNow, LoadingNow, ReadyNow, DrawnNow, Usable

\* However often effects run again, whatever is released and taken again before the
\* microtasks run: one load for each resource, no surface without a cloud that is there,
\* no entry without a surface after the microtasks (GaussianCloudResourceCache,
\* useGaussianCloud).
THEOREM CloudsAreShared == SceneSpec => SharesClouds
<1> DEFINE Follows == DrawnNow = HeldNow \cap ReadyNow
<1>1. SceneInit => Shared!Init
  BY NothingSharedInit DEF Shared!Init, HeldNow, LoadingNow, ReadyNow, DrawnNow
<1>2. SceneInit => SceneInv /\ LeasesFit
  BY SceneInvInit, NothingSharedInit
<1>3. SceneInv /\ LeasesFit => Follows
  BY DrawnIsHeld
<1>4. SceneInv /\ LeasesFit /\ [SceneNext]_sceneVars =>
        SceneInv' /\ LeasesFit' /\ (Asks \/ Ends \/ GivesUp \/ Rests)
  BY SceneInvStep, SharedStep
<1>5. Follows /\ Follows' /\ (Asks \/ Ends \/ GivesUp \/ Rests) => [Shared!Next]_(Shared!vars)
  <2> SUFFICES ASSUME Follows, Follows', Asks \/ Ends \/ GivesUp \/ Rests
               PROVE  [Shared!Next]_(Shared!vars)
    OBVIOUS
  <2>1. CASE Asks
    <3>1. Shared!Lease
      BY <2>1 DEF Asks, Shared!Lease, HeldNow, LoadingNow, ReadyNow, DrawnNow, Resources
    <3> QED BY <3>1 DEF Shared!Next
  <2>2. CASE Ends
    <3>1. PICK r \in LoadingNow : /\ LoadingNow' = LoadingNow \ {r}
                                 /\ ReadyNow' \in {ReadyNow, ReadyNow \cup {r}}
      BY <2>2 DEF Ends
    <3>2. HeldNow' = HeldNow
      BY <2>2 DEF Ends
    <3>3. CASE ReadyNow' = ReadyNow
      <4>1. DrawnNow' = DrawnNow
        BY <3>2, <3>3
      <4>2. Shared!Fail(r)
        BY <3>1, <3>2, <3>3, <4>1
        DEF Shared!Fail, HeldNow, LoadingNow, ReadyNow, DrawnNow
      <4> QED BY <3>1, <4>2 DEF Shared!Next, LoadingNow
    <3>4. CASE ReadyNow' = ReadyNow \cup {r}
      <4>1. DrawnNow' = DrawnNow \cup ({r} \cap HeldNow)
        BY <3>2, <3>4
      <4>2. Shared!Load(r)
        BY <3>1, <3>2, <3>4, <4>1
        DEF Shared!Load, HeldNow, LoadingNow, ReadyNow, DrawnNow
      <4> QED BY <3>1, <4>2 DEF Shared!Next, LoadingNow
    <3> QED BY <3>1, <3>3, <3>4
  <2>3. CASE GivesUp
    <3>1. DrawnNow' = DrawnNow
      BY <2>3 DEF GivesUp
    <3>2. Shared!GiveUp
      BY <2>3, <3>1
      DEF GivesUp, Shared!GiveUp, HeldNow, LoadingNow, ReadyNow, DrawnNow
    <3> QED BY <3>2 DEF Shared!Next
  <2>4. CASE Rests
    <3>1. DrawnNow' = DrawnNow
      BY <2>4 DEF Rests
    <3> QED BY <2>4, <3>1 DEF Rests, Shared!vars, HeldNow, LoadingNow, ReadyNow, DrawnNow
  <2> QED BY <2>1, <2>2, <2>3, <2>4
<1> QED BY <1>1, <1>2, <1>3, <1>4, <1>5, PTL DEF SceneSpec, SharesClouds, Shared!Spec

=============================================================================
