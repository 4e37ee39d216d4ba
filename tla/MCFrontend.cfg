CONSTANTS
  e1 = e1
  e2 = e2
  c1 = c1
  c2 = c2
  s1 = s1
  s2 = s2
  Edit = {e1, e2}
  Pages <- MCPages
  MaxRevision = 2
  MaxFaults = 2
  Clouds = {c1, c2}
  First = {c1}
  Spots = {s1, s2}
  Nobody = Nobody
  MaxPlacements = 1
  MaxTurns = 2
  Nothing = Nothing
  Sources = {"camera", "image", "video"}
  Configs = {k1, k2}
  Frames = 2
  MaxClicks = 3
  MaxFailures = 1
  Absent = Absent
  MaxChanges = 4
  MaxSwitches = 4
  MaxDocuments = 2
  MaxStoreFaults = 1
SPECIFICATION MCSpec
INVARIANTS
  QuietPageConverged
  OwnEditsAreShown
  PassDrawsLiveClouds
  ScreenAgrees
  SettingsAreKept
PROPERTIES
  EditsNameTheNewestShown
  ComesToRest
  HandOverKeepsTheModel
  SharesClouds
  SceneSettles
  StoppedSessionsRest
  SiftSettles
CHECK_DEADLOCK FALSE
