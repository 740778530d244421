SPECIFICATION Spec
CONSTANTS
  MaxRetries = 0
  MaxIterations = 1
  NoAgent = NoAgent
  Items = 2
  Plans <- InOrder
  MaxCrashes = 0
  MaxOps = 0
  MaxEvents = 2
  MaxPauses = 0
INVARIANTS
  AgentsRunInOrder
CHECK_DEADLOCK FALSE
