SPECIFICATION Spec
CONSTANTS
  MaxRetries = 1
  MaxIterations = 3
  NoAgent = NoAgent
  Items = 1
  Plans <- InSequence
  MaxCrashes = 1
  MaxOps = 0
  MaxEvents = 1
  MaxPauses = 0
INVARIANTS
  TypeOK
  SuccessIsReal
PROPERTIES
  IterationsNeverRewind
  AttachedExecutorIsKept
CHECK_DEADLOCK FALSE
