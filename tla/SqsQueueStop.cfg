CONSTANTS
  SqsConsumer = {q1}
  SqsMessage = {m1, m2}
  Malformed = {}
  Refused = {m2}
  Idle = Idle
  MaxReceives = 2
  MaxMishaps = 1
SPECIFICATION FairSqsSpec
PROPERTIES
  ConsumersStop
CHECK_DEADLOCK FALSE
