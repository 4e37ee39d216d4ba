----------------------------- MODULE MCFrontend -----------------------------
(***************************************************************************)
(* The four state machines of the front end, explored in one run: the      *)
(* queries and edits of a project, its clouds in the viewport, the SIFT    *)
(* lab and the settings of the editor.  They share no state (the lab is a  *)
(* page of its own, a change of the list of clouds reaches the viewport as *)
(* a read of it, and of the settings it sees which renderer it has), so    *)
(* that each is explored while the others rest.                            *)
(***************************************************************************)
EXTENDS ProjectCache, SceneClouds, SiftSession, EditorSettings

CONSTANTS e1, e2, c1, c2, s1, s2

VARIABLE part   \* "project", "scene", "sift" or "settings": constant in a behaviour

\* Each resource with the trajectory that is compiled from it, and the resources
\* that one hook invalidates together or the effect must follow up.  No page at
\* all is what the other parts see.
MCPages == {{k, "compiled"} : k \in Compared}
           \cup {{"project", "sceneObjects"}, {"project", "anchors"}, {"segments", "aim"}, {}}

\* The slots of the edits are interchangeable.
InOrder == edit[e2].step # "none" => edit[e1].step # "none"

\* One request fails, or two on a page without the compiled trajectory, or on that
\* of the chat when one edit is made.
FewFail == faults = 2 => \/ "compiled" \notin shown
                         \/ "chat" \in shown /\ edit[e2].step = "none"

\* One turn where every read signs new URLs, two where they stay.
FewTurns == turns = 2 => ~signed

\* Clouds are placed at one spot.  Those of the beginning stand at the other and stay
\* there, those that come may be moved: a placed cloud may leave its spot, a cloud that
\* another page has added may come to it.
Standing ==
  /\ scene.adding # Nobody => scene.adding.spot = s1
  /\ turns = 0 => \A c \in First \cap DOMAIN scene.clouds : scene.clouds[c] = s2
FewMoves ==
  \A c \in First \cap DOMAIN scene.clouds \cap DOMAIN scene'.clouds :
    scene'.clouds[c] = scene.clouds[c]

\* A viewport that is not opened, a session that was stopped at once, and settings
\* that are not loaded.
ProjectRests == Init /\ shown = {} /\ known = 0
SceneRests == SceneInit /\ Standing /\ ~signed /\ ~backend.tiles
SiftRests ==
  /\ source = "image" /\ config \in Configs /\ config = CHOOSE c \in Configs : TRUE
  /\ sift = [at |-> "over", disposed |-> TRUE, raf |-> FALSE, inFlight |-> FALSE,
             pending |-> FALSE, lastTime |-> -1, current |-> FALSE, hold |-> FALSE,
             heldTime |-> 0, recent |-> FALSE, rapid |-> FALSE, timer |-> FALSE,
             frames |-> "none"]
  /\ media = Opened /\ events = << >> /\ work = << >> /\ owned = {}
  /\ view = [points |-> Nothing, held |-> Nothing]
  /\ page = [frame |-> Nothing, phase |-> "starting", playback |-> Nothing]
  /\ clicks = 0 /\ failures = 0

SettingsRest ==
  /\ SettingsInit /\ stored = [tiles |-> Absent, grid |-> Absent] /\ versions = OpeningVersions(FALSE)

MCInit ==
  \/ part = "project" /\ Init /\ shown # {} /\ SceneRests /\ SiftRests /\ SettingsRest
  \/ part = "scene" /\ SceneInit /\ Standing /\ ProjectRests /\ SiftRests /\ SettingsRest
  \/ part = "sift" /\ SiftInit /\ ProjectRests /\ SceneRests /\ SettingsRest
  \/ part = "settings" /\ SettingsInit /\ ProjectRests /\ SceneRests /\ SiftRests

MCNext ==
  /\ UNCHANGED part
  /\ \/ part = "project" /\ Next /\ InOrder' /\ FewFail'
        /\ UNCHANGED <<sceneVars, siftVars, settingsVars>>
     \/ part = "scene" /\ SceneNext /\ FewTurns' /\ Standing' /\ FewMoves
        /\ UNCHANGED <<vars, siftVars, settingsVars>>
     \/ part = "sift" /\ SiftNext /\ UNCHANGED <<vars, sceneVars, settingsVars>>
     \/ part = "settings" /\ SettingsNext /\ UNCHANGED <<vars, sceneVars, siftVars>>

\* Nothing is due in a part that rests, so that its fairness asks for nothing.
MCSpec ==
  /\ MCInit /\ [][MCNext]_<<vars, sceneVars, siftVars, settingsVars, part>>
  /\ Fairness /\ SceneFairness /\ SiftFairness
=============================================================================
