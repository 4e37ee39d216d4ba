---------------------------- MODULE SiftSession ----------------------------
(***************************************************************************)
(* One session of the SIFT lab: a camera, an image or a video, the         *)
(* detector's worker, the viewport and the page                            *)
(* (frontend/packages/features/sift/src).  The session captures a picture  *)
(* at an animation frame, sends it to the worker, and shows the points     *)
(* that come back if nothing has moved since: a seek, a pause, a step or   *)
(* a setting.  All of it runs on one thread, so that every handler is one  *)
(* step; what interleaves is the order in which the browser delivers       *)
(* media events, animation frames, timers, worker messages and clicks.     *)
(***************************************************************************)
EXTENDS Integers, Sequences

CONSTANTS
  Nothing,       \* no points, no picture held, no playback to control
  Sources,       \* the kinds of source looked at, of camera, image and video
  Configs,       \* the settings of the page: the longest edge and parameters
  Frames,        \* how many frames the video has
  MaxClicks,     \* bound: how often the user acts on a session
  MaxFailures    \* bound: errors of the worker, the decoder and the devices

ASSUME SiftAssumption ==
  /\ Sources \subseteq {"camera", "image", "video"}
  /\ Frames \in Nat \ {0, 1} /\ Nothing \notin Nat
  /\ MaxClicks \in Nat /\ MaxFailures \in Nat

VARIABLES
  source, \* the kind of the session's source
  sift,   \* the variables of createSiftSession
  media,  \* the <video> element
  events, \* the media events queued for the session's listeners
  work,   \* the requests the worker has
  view,   \* the viewport: the points it draws, the picture it holds
  page,   \* the state the session reports to the page
  owned,  \* the resources the session has open
  config, clicks, failures

siftVars == <<source, sift, media, events, work, view, page, owned, config,
              clicks, failures>>

(* Media time counts frames; the duration is the end of the last one. *)
Duration == Frames
FrameOf(t) == IF t < Frames THEN t ELSE Frames - 1

Detection(picture, settings) == [picture |-> picture, config |-> settings]
-----------------------------------------------------------------------------
(* The media element, as the session uses it.  Setting currentTime moves   *)
(* the time at once and the picture when the seek is done; play and pause  *)
(* act at once; the events of all three come later.  A play promise still  *)
(* open when pause is called is rejected after the pause event.            *)

Opened == [time |-> 0, picture |-> 0, paused |-> TRUE, seeking |-> FALSE,
           opening |-> FALSE]

Ended(m) == m.time = Duration /\ ~m.seeking

Sought(m, t) == [m EXCEPT !.time = t, !.seeking = TRUE]

Played(m) == [m EXCEPT !.paused = FALSE, !.opening = m.paused /\ m.seeking]

Paused(m) == [m EXCEPT !.paused = TRUE, !.opening = FALSE]

PauseEvents(m) ==
  (IF m.paused THEN << >> ELSE <<"pause">>)
    \o (IF m.opening THEN <<"interrupted">> ELSE << >>)

(* At the end of the resource a playing element pauses and has ended. *)
AtEnd(m) == IF Ended(m) THEN Paused(m) ELSE m
EndEvents(m) == IF Ended(m) THEN PauseEvents(m) \o <<"ended">> ELSE << >>
-----------------------------------------------------------------------------
(* The session's helpers, on the records they change. *)

schedule(s) == [s EXCEPT !.raf = @ \/ ~(s.disposed \/ s.inFlight)]

refresh(s) ==
  schedule([s EXCEPT !.current = FALSE, !.lastTime = -1, !.pending = TRUE])

resetStepping(s) ==
  [s EXCEPT !.timer = FALSE, !.recent = FALSE, !.rapid = FALSE, !.hold = FALSE]

releaseMedia(v) == [v EXCEPT !.held = Nothing]

holdMedia(v) == [v EXCEPT !.held = IF @ = Nothing THEN media.picture ELSE @]

clearPoints(s, v) == IF s.hold THEN v ELSE [v EXCEPT !.points = Nothing]

refreshPage(s, p) ==
  [p EXCEPT !.frame = IF s.hold THEN @ ELSE Nothing,
            !.phase = IF source = "camera" THEN "running" ELSE "detecting"]

syncPlayback(s, m, p) ==
  IF source # "video" THEN p
  ELSE [p EXCEPT !.playback =
          [time |-> m.time, paused |-> m.paused, ended |-> Ended(m),
           indexed |-> s.frames = "read",
           shown |-> FrameOf(IF s.hold THEN s.heldTime ELSE m.time)]]

phase(m) == CASE source = "image" -> "ready"
              [] source = "camera" -> "running"
              [] Ended(m) -> "ended"
              [] m.paused /\ ~Ended(m) -> "paused"
              [] OTHER -> "playing"

(* A video whose first frame is loaded, from a file at hand, is short of   *)
(* the data of its present frame only while it seeks.                      *)
readyState(m) == IF m.seeking THEN 1 ELSE 2

NothingToCapture(s) ==
  /\ source # "image"
  /\ \/ media.time = s.lastTime \/ media.seeking
     \/ source = "video" /\ readyState(media) < 2

capture(s) ==
  IF s.disposed \/ s.inFlight \/ s.rapid THEN s
  ELSE IF NothingToCapture(s)
  THEN IF source = "camera" \/ ~media.paused THEN schedule(s) ELSE s
  ELSE [s EXCEPT !.lastTime = media.time, !.current = TRUE,
                 !.pending = FALSE, !.inFlight = TRUE]

(* The request of a capture that sends one. *)
Requested(s) == IF capture(s).inFlight /\ ~s.inFlight
           THEN Append(work, Detection(media.picture, config)) ELSE work

dispose ==
  /\ sift' = [sift EXCEPT !.disposed = TRUE, !.raf = FALSE, !.timer = FALSE]
  /\ media' = Opened /\ events' = << >> /\ work' = << >>
  /\ view' = [points |-> Nothing, held |-> Nothing]
  /\ owned' = {}

fail ==
  IF sift.disposed THEN UNCHANGED <<sift, media, events, work, view, page, owned>>
  ELSE /\ page' = [page EXCEPT !.phase = "stopped", !.playback = Nothing]
       /\ dispose
-----------------------------------------------------------------------------
(* initialize: one step for each of its awaits. *)

SiftInit ==
  /\ source \in Sources
  /\ sift = [at |-> "worker", disposed |-> FALSE, raf |-> FALSE,
             inFlight |-> FALSE, pending |-> FALSE, lastTime |-> -1,
             current |-> FALSE, hold |-> FALSE, heldTime |-> 0,
             recent |-> FALSE, rapid |-> FALSE, timer |-> FALSE,
             frames |-> "none"]
  /\ media = Opened /\ events = << >> /\ work = << >>
  /\ view = [points |-> Nothing, held |-> Nothing]
  /\ page = [frame |-> Nothing, phase |-> "starting", playback |-> Nothing]
  /\ owned = {"worker"}
  /\ config \in Configs /\ clicks = 0 /\ failures = 0

Unchanged == UNCHANGED <<source, config, clicks, failures>>

At(place) == sift.at = place
Goes(place) == sift' = [sift EXCEPT !.at = place]

(* A session stopped while it waited goes no further. *)
Abandoned ==
  /\ sift.disposed /\ sift.at \notin {"running", "over"}
  /\ Goes("over")
  /\ UNCHANGED <<media, events, work, view, page, owned>> /\ Unchanged

workerReady ==
  /\ At("worker") /\ ~sift.disposed
  /\ Goes(CASE source = "camera" -> "permission"
            [] source = "image" -> "bitmap"
            [] source = "video" -> "frame")
  /\ owned' = IF source = "video" THEN owned \cup {"url"} ELSE owned
  /\ UNCHANGED <<media, events, work, view, page>> /\ Unchanged

(* Mutant: the stream that comes after the session stopped is kept. *)
getUserMedia_Unchecked ==
  /\ At("permission")
  /\ Goes("play")
  /\ owned' = owned \cup {"stream"}
  /\ media' = Played(media)
  /\ UNCHANGED <<events, work, view, page>> /\ Unchanged

(* The stream of a session stopped at the prompt is stopped as well. *)
getUserMedia ==
  /\ At("permission")
  /\ IF sift.disposed THEN Goes("over") /\ UNCHANGED <<owned, media>>
     ELSE /\ Goes("play")
          /\ owned' = owned \cup {"stream"}
          /\ media' = Played(media)
  /\ UNCHANGED <<events, work, view, page>> /\ Unchanged

cameraPlays ==
  /\ At("play") /\ ~sift.disposed
  /\ Goes("devices")
  /\ UNCHANGED <<media, events, work, view, page, owned>> /\ Unchanged

(* The viewport, the listeners and the index; then the first capture. *)
Runs(open) ==
  /\ sift' = capture([sift EXCEPT !.at = "running"])
  /\ work' = Requested(sift)
  /\ owned' = owned \cup open \cup {"viewport"}
                 \cup (IF source = "video" THEN {"indexer"} ELSE {})
  /\ page' = syncPlayback(sift, media, page)
  /\ UNCHANGED <<media, events, view>> /\ Unchanged

enumerateDevices == At("devices") /\ ~sift.disposed /\ Runs({})

loadVideoFrame == At("frame") /\ ~sift.disposed /\ Runs({})

createImageBitmap ==
  /\ At("bitmap")
  /\ IF sift.disposed
     THEN Goes("over") /\ UNCHANGED <<media, events, work, view, page, owned>> /\ Unchanged
     ELSE Runs({"bitmap"})

loadVideoFrameIndex ==
  /\ "indexer" \in owned
  /\ \E outcome \in {"read", "unavailable"} :
       /\ sift' = [sift EXCEPT !.frames = outcome]
       /\ page' = syncPlayback(sift', media, page)
  /\ owned' = owned \ {"indexer"}
  /\ UNCHANGED <<media, events, work, view>> /\ Unchanged
-----------------------------------------------------------------------------
(* What the browser and the worker deliver. *)

AnimationFrame ==
  /\ sift.raf
  /\ sift' = capture([sift EXCEPT !.raf = FALSE])
  /\ work' = Requested([sift EXCEPT !.raf = FALSE])
  /\ UNCHANGED <<media, events, view, page, owned>> /\ Unchanged

(* The worker's onmessage, for a frame. *)
(* Mutant: an answer counts although something moved since. *)
Accepted_Late == ~media.seeking /\ ~sift.rapid

Accepted == sift.current /\ ~media.seeking /\ ~sift.rapid

Released(s) == [s EXCEPT !.hold = FALSE]

Continues(s) ==
  IF s.pending \/ source = "camera" \/ (source = "video" /\ ~media.paused)
  THEN schedule(s) ELSE s

workerFrame ==
  /\ At("running") /\ work # << >>
  /\ work' = Tail(work)
  /\ LET s == [sift EXCEPT !.inFlight = FALSE] IN
     IF Accepted
     THEN /\ sift' = Continues(Released(s))
          /\ view' = [points |-> Head(work), held |-> Nothing]
          /\ page' = [IF s.hold THEN syncPlayback(Released(s), media, page) ELSE page
                         EXCEPT !.frame = Head(work), !.phase = phase(media)]
     ELSE sift' = Continues(s) /\ UNCHANGED <<view, page>>
  /\ UNCHANGED <<media, events, owned>> /\ Unchanged

(* Mutant: the end of a burst does not ask for a capture. *)
settled_Forgets ==
  /\ sift.timer /\ ~sift.recent
  /\ sift' = [sift EXCEPT !.timer = FALSE, !.rapid = FALSE]
  /\ UNCHANGED <<media, events, work, view, page, owned>> /\ Unchanged

settled == \* the timer of a burst of steps
  /\ sift.timer /\ ~sift.recent
  /\ sift' = schedule([sift EXCEPT !.timer = FALSE, !.rapid = FALSE])
  /\ UNCHANGED <<media, events, work, view, page, owned>> /\ Unchanged

(* stepBurstMs pass without another step. *)
BurstPasses ==
  /\ sift.recent /\ ~sift.disposed
  /\ sift' = [sift EXCEPT !.recent = FALSE]
  /\ UNCHANGED <<media, events, work, view, page, owned>> /\ Unchanged

(* The next decoded frame; a timeupdate comes with some of them. *)
MediaAdvances ==
  /\ sift.at \in {"running", "play", "devices"} /\ ~sift.disposed
  /\ ~media.paused /\ ~media.seeking /\ media.time < Duration
  /\ LET m == [media EXCEPT !.time = @ + 1, !.picture = FrameOf(media.time + 1)] IN
     IF source = "camera"
     THEN media' = m /\ events' = events
     ELSE /\ media' = AtEnd(m)
          /\ \E tick \in {<< >>, <<"timeupdate">>} :
               events' = events \o tick \o EndEvents(m)
  /\ UNCHANGED <<sift, work, view, page, owned>> /\ Unchanged

SeekIsDone ==
  /\ media.seeking
  /\ LET m == [media EXCEPT !.seeking = FALSE, !.opening = FALSE,
                            !.picture = FrameOf(media.time)] IN
     media' = AtEnd(m) /\ events' = Append(events, "seeked") \o EndEvents(m)
  /\ UNCHANGED <<sift, work, view, page, owned>> /\ Unchanged

(* The listeners of a video; "interrupted" is the rejected play promise. *)
MediaEvent ==
  /\ events # << >>
  /\ LET e == Head(events)
         synced == syncPlayback(sift, media, page)
     IN CASE e = "timeupdate" ->
               page' = synced /\ UNCHANGED <<sift, view>>
          [] e = "play" ->
               /\ page' = [synced EXCEPT !.phase = phase(media)]
               /\ sift' = schedule(sift) /\ UNCHANGED view
          [] e \in {"pause", "seeking"} ->
               /\ page' = refreshPage(sift, synced)
               /\ sift' = refresh(sift)
               /\ view' = clearPoints(sift, view)
          [] e = "ended" ->
               /\ page' = [synced EXCEPT !.phase = phase(media)]
               /\ UNCHANGED <<sift, view>>
          [] e = "seeked" ->
               page' = synced /\ sift' = schedule(sift) /\ UNCHANGED view
          [] e = "interrupted" -> fail
  /\ Head(events) # "interrupted" =>
       events' = Tail(events) /\ UNCHANGED <<media, work, owned>>
  /\ Unchanged

(* An error: of the worker, the decoder, a device, or while capturing. *)
Failure ==
  /\ failures < MaxFailures /\ ~sift.disposed
  /\ failures' = failures + 1
  /\ fail
  /\ UNCHANGED <<source, config, clicks>>
-----------------------------------------------------------------------------
(* What the user does, through the page's controls. *)

Click == clicks < MaxClicks /\ clicks' = clicks + 1 /\ UNCHANGED <<source, failures>>

(* Stop, or another source: the effect's cleanup. *)
Stop == Click /\ ~sift.disposed /\ dispose /\ UNCHANGED <<page, config>>

Refreshes ==
  /\ IF At("running") /\ ~sift.disposed
     THEN /\ sift' = refresh(sift)
          /\ view' = clearPoints(sift, view)
          /\ page' = refreshPage(sift, page)
     ELSE UNCHANGED <<sift, view, page>>
  /\ UNCHANGED <<media, events, work, owned>>

ChangeConfig ==
  Click /\ \E c \in Configs \ {config} : config' = c /\ Refreshes

repeatDetection ==
  Click /\ source = "image" /\ page.frame # Nothing /\ Refreshes /\ UNCHANGED config

Controls == page.playback # Nothing /\ At("running") /\ ~sift.disposed

togglePlayback ==
  /\ Click /\ Controls
  /\ IF ~media.paused
     THEN /\ media' = Paused(media) /\ events' = events \o PauseEvents(media)
          /\ UNCHANGED <<sift, view, page>>
     ELSE LET m == IF Ended(media) THEN Sought(media, 0) ELSE media IN
          /\ sift' = refresh(resetStepping(sift))
          /\ view' = [points |-> Nothing, held |-> Nothing]
          /\ page' = refreshPage(resetStepping(sift), page)
          /\ media' = Played(m)
          /\ events' = events \o (IF Ended(media) THEN <<"seeking">> ELSE << >>)
                               \o <<"play">>
  /\ UNCHANGED <<work, owned, config>>

(* A second step within the burst previews at once and detects later. *)
Stepping(s) ==
  IF s.recent
  THEN [s EXCEPT !.hold = FALSE, !.rapid = TRUE, !.timer = TRUE]
  ELSE [s EXCEPT !.rapid = FALSE, !.timer = FALSE, !.recent = TRUE, !.hold = TRUE,
                 !.heldTime = IF s.hold THEN @ ELSE media.time]

SteppingView(s) == IF s.recent THEN releaseMedia(view) ELSE holdMedia(view)

stepFrame ==
  /\ Click /\ Controls /\ page.playback.indexed /\ sift.frames = "read"
  /\ \E direction \in {-1, 1} :
       LET next == FrameOf(media.time) + direction
           s == Stepping(sift)
           m == Sought(Paused(media), next)
       IN /\ next \in 0 .. Frames - 1
          /\ sift' = refresh(s)
          /\ view' = clearPoints(s, SteppingView(sift))
          /\ media' = m
          /\ events' = events \o PauseEvents(media) \o <<"seeking">>
          /\ page' = syncPlayback(s, m, refreshPage(s, page))
  /\ UNCHANGED <<work, owned, config>>

seekTo ==
  /\ Click /\ Controls
  /\ \E seconds \in 0 .. Duration :
       LET s == resetStepping(sift)
           m == Sought(media, seconds)
       IN /\ sift' = refresh(s)
          /\ view' = [points |-> Nothing, held |-> Nothing]
          /\ media' = m
          /\ events' = Append(events, "seeking")
          /\ page' = syncPlayback(s, m, refreshPage(s, page))
  /\ UNCHANGED <<work, owned, config>>
-----------------------------------------------------------------------------
Initializes ==
  \/ Abandoned \/ workerReady \/ cameraPlays \/ enumerateDevices
  \/ createImageBitmap \/ loadVideoFrame

Browser ==
  \/ loadVideoFrameIndex \/ AnimationFrame \/ workerFrame \/ settled
  \/ BurstPasses \/ MediaAdvances \/ SeekIsDone \/ MediaEvent

User ==
  \/ Stop \/ ChangeConfig \/ repeatDetection \/ togglePlayback
  \/ stepFrame \/ seekTo

SiftNext == Initializes \/ getUserMedia \/ Browser \/ Failure \/ User

(* The page is visible, so that animation frames come; the worker answers, *)
(* a seek and a playing video get on, timers fire, queued events are       *)
(* delivered and the loads of initialize end.  Nothing is assumed of the   *)
(* user, the camera prompt among it.                                       *)
SiftFairness ==
  /\ WF_siftVars(Initializes)
  /\ WF_siftVars(loadVideoFrameIndex) /\ WF_siftVars(AnimationFrame)
  /\ WF_siftVars(workerFrame) /\ WF_siftVars(settled) /\ WF_siftVars(BurstPasses)
  /\ WF_siftVars(MediaAdvances) /\ WF_siftVars(SeekIsDone) /\ WF_siftVars(MediaEvent)

SiftSpec == SiftInit /\ [][SiftNext]_siftVars /\ SiftFairness
-----------------------------------------------------------------------------
(* Properties. *)

Points == [picture : 0 .. Frames - 1, config : Configs]
Phases == {"starting", "running", "detecting", "ready", "playing", "paused", "ended", "stopped"}
Playbacks == [time : 0 .. Duration, paused : BOOLEAN, ended : BOOLEAN, indexed : BOOLEAN,
              shown : 0 .. Frames - 1]

SessionStates ==
  [at : {"worker", "permission", "play", "devices", "bitmap", "frame", "running", "over"},
   disposed : BOOLEAN, raf : BOOLEAN, inFlight : BOOLEAN, pending : BOOLEAN,
   lastTime : -1 .. Duration, current : BOOLEAN, hold : BOOLEAN,
   heldTime : 0 .. Duration, recent : BOOLEAN, rapid : BOOLEAN, timer : BOOLEAN,
   frames : {"none", "read", "unavailable"}]
MediaStates == [time : 0 .. Duration, picture : 0 .. Frames - 1, paused : BOOLEAN,
                seeking : BOOLEAN, opening : BOOLEAN]
MediaEvents == {"timeupdate", "play", "pause", "interrupted", "ended", "seeking", "seeked"}
ViewStates == [points : Points \cup {Nothing}, held : (0 .. Frames - 1) \cup {Nothing}]
PageStates == [frame : Points \cup {Nothing}, phase : Phases, playback : {Nothing} \cup Playbacks]

(* What the variables are. *)
SiftTypeOK ==
  /\ source \in Sources /\ sift \in SessionStates /\ media \in MediaStates
  /\ events \in Seq(MediaEvents) /\ work \in Seq(Points)
  /\ view \in ViewStates /\ page \in PageStates
  /\ owned \subseteq {"worker", "stream", "url", "bitmap", "viewport", "indexer"}
  /\ config \in Configs /\ clicks \in 0 .. MaxClicks /\ failures \in 0 .. MaxFailures

(* A still picture and the points over it belong together: once the events *)
(* of a paused video are delivered, points on the screen are those the     *)
(* detector found in the picture on the screen, with the page's settings.  *)
StillPointsMatch ==
  (/\ At("running") /\ source # "camera" /\ view.points # Nothing
   /\ media.paused /\ ~media.seeking /\ events = << >> /\ ~sift.hold)
    => view.points = Detection(media.picture, config)

(* A late answer to an earlier seek, step or setting never gets on the     *)
(* screen; the session and the viewport agree on what is held, the page    *)
(* shows the counts of the very points the viewport draws, and never more  *)
(* than one request is with the worker (worker.onmessage of                *)
(* createSiftSession, and createSiftViewport).                             *)
ScreenAgrees ==
  ~sift.disposed =>
    /\ StillPointsMatch
    /\ sift.hold <=> view.held # Nothing
    /\ page.frame = view.points
    /\ Len(work) = IF sift.inFlight THEN 1 ELSE 0

(* A stopped or failed session has nothing open, whatever it was waiting   *)
(* for when it stopped, and reports nothing more to a page that may show   *)
(* the next session (dispose, and every "if (disposed)" of initialize).    *)
StoppedSessionsRest ==
  [][/\ sift'.disposed => owned' = {}
     /\ sift.disposed => UNCHANGED <<page, view>>]_siftVars

(* In the end the session stopped, waits for the camera's permission, or   *)
(* shows the points of the picture it shows, holds nothing back and tells  *)
(* the page so: no order of seeks, steps, timers and answers leaves a      *)
(* video without its detection (capture, which returns without scheduling  *)
(* itself when it finds a seek, a request or a burst of steps).            *)
SiftSettles ==
  <>[](\/ sift.disposed \/ At("permission")
       \/ /\ view.points = Detection(media.picture, config) /\ view.held = Nothing
          /\ page.phase = phase(media)
          /\ page = syncPlayback(sift, media, page))
=============================================================================
