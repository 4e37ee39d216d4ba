CONSTANTS
  Clouds = {c1}
  First = {}
  Spots = {s1}
  Nobody = Nobody
  MaxPlacements = 1
  MaxTurns = 1
SPECIFICATION SceneSpec
PROPERTIES
  RemovedModelsAreAborted
CHECK_DEADLOCK FALSE
