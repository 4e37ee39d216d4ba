CONSTANTS
  a1 = a1
  a2 = a2
  a3 = a3
  j1 = j1
  j2 = j2
  s1 = s1
  Attempt = {a1, a2, a3}
  Job = {j1, j2}
  JobOf <- TwiceAndOnce
  NumFiles = 2
  SharedKey = {s1}
  Adopted <- AdoptShared
  Recovery = {r1}
  Lifetime = 2
  MaxPulseFaults = 1
  MaxCleanFaults = 1
  MaxCrashes = 1
SPECIFICATION MCSpec
INVARIANTS
  PublicationsAreWhole
  BeatingAttemptsKeepMarkers
PROPERTIES
  LeftoversAreRemoved
CHECK_DEADLOCK FALSE
