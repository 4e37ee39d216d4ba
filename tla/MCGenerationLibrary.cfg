CONSTANTS
  MaxJobs = 1
  ImageJobs = {1}
  Dispatcher = {p1}
  GenerationConsumer = {g1, g2}
  CompletionConsumer = {k1}
  Worker = {w1}
  MaxAttempts = 2
  MaxCompletions = 1
  MaxFaults = 1
  a1 = a1
  a2 = a2
  u1 = u1
  u2 = u2
  u3 = u3
  junk = junk
  Asset = {a1, a2}
  Image = {a1}
  WithThumbnail = {a2}
  Deletion = {d1, d2}
  Unlocked = Unlocked
  Content = {image, cloud, junk}
  Signed = {image, cloud}
  Decodable = {image}
  Upload = {u1, u2, u3}
  UploadOf <- Target
  Confirmation = {c1}
  MaxCrashes = 1
SPECIFICATION MCSpec
SYMMETRY ProcessSymmetry
INVARIANTS
  NoLostJob
  ActiveJobsKeepImage
  PublishedBytesAreValid
PROPERTIES
  FirstOutcomeWins
  LocalLifecycle
  DeletedFilesStayAway
CHECK_DEADLOCK FALSE
