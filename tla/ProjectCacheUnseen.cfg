CONSTANTS
  Edit = {}
  Pages = {{"aim", "compiled"}, {"project", "sceneObjects"}}
  MaxRevision = 2
  MaxFaults = 0
SPECIFICATION Spec
INVARIANTS
  OlderResponsesAreRefetched
CHECK_DEADLOCK FALSE
