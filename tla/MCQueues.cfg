CONSTANTS
  MaxJobs = 2
  ImageJobs = {2}
  Dispatcher = {d1}
  GenerationConsumer = {g1}
  CompletionConsumer = {}
  Worker = {w1}
  MaxAttempts = 2
  MaxCompletions = 0
  MaxFaults = 1
  SqsConsumer = {q1, q2}
  SqsMessage = {m1, m2, m3}
  Malformed = {m1}
  Refused = {m2}
  Idle = Idle
  MaxReceives = 2
  MaxMishaps = 2
SPECIFICATION MCSpec
INVARIANTS
  SettledInOrder
PROPERTIES
  EveryQueuedJobEnds
  ImplementsLifecycle
  QueueDrains
CHECK_DEADLOCK FALSE
