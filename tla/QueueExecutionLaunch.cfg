SPECIFICATION Spec
CONSTANTS
  MaxRetries = 0
  MaxIterations = 2
  NoAgent = NoAgent
  Items = 1
  Plans <- InSequence
  MaxCrashes = 0
  MaxOps = 0
  MaxEvents = 2
  MaxPauses = 0
PROPERTIES
  LiveExecutorIsNotCharged
CHECK_DEADLOCK FALSE
