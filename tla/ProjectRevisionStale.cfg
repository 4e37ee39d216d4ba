CONSTANTS
  Request = {r1}
  Deletion = {d1}
  Kind = {"edit"}
  Process = {p1}
  Gone = Gone
SPECIFICATION Spec
PROPERTIES
  StaleIsRefused
CHECK_DEADLOCK FALSE
