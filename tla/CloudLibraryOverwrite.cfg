CONSTANTS
  Asset = {a1}
  Image = {}
  WithThumbnail = {}
  Deletion = {}
  Unlocked = Unlocked
  Content = {cloud1, cloud2}
  Signed = {cloud1, cloud2}
  Decodable = {}
  Confirmation = {c1, c2}
  MaxCrashes = 0
SPECIFICATION Spec
PROPERTY PublishedObjectsAreFinal
CHECK_DEADLOCK FALSE
