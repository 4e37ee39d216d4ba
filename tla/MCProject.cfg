CONSTANTS
  r1 = r1
  r2 = r2
  r3 = r3
  d1 = d1
  d2 = d2
  p1 = p1
  o1 = o1
  o2 = o2
  o3 = o3
  far = far
  Request = {r1, r2, r3}
  Deletion = {d1, d2}
  Kind = {"edit", "legacy", "reset", "delete", "scene", "agent"}
  Process = {p1, p2}
  Gone = Gone
  Project = {near, far}
  Object = {o1, o2, o3}
  Asset = {a1, a2}
  None = None
SPECIFICATION MCSpec
INVARIANTS
  EtagPromisesContent
  ScenesAreWhole
  StatementsSucceed
PROPERTIES
  ImplementsRegister
  LockIsExact
  OthersKeepTheirOrder
  EveryoneIsAnswered
CHECK_DEADLOCK FALSE
