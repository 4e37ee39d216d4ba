CONSTANTS
  a1 = a1
  a2 = a2
  c1 = c1
  c2 = c2
  d1 = d1
  d2 = d2
  junk = junk
  Asset = {a1, a2}
  Image = {a1}
  WithThumbnail = {a2}
  Deletion = {d1, d2}
  Unlocked = Unlocked
  Content = {image, scrap, junk}
  Signed = {image, scrap}
  Decodable = {image}
  Confirmation = {c1, c2}
  MaxCrashes = 1
SPECIFICATION MCSpec
SYMMETRY RequestSymmetry
INVARIANTS
  PublishedObjectsAreSigned
PROPERTIES
  ImplementsLifecycle
  SerialObjectsAreFinal
CHECK_DEADLOCK FALSE
