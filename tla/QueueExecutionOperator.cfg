SPECIFICATION FairSpec
CONSTANTS
  MaxRetries = 0
  MaxIterations = 1
  NoAgent = NoAgent
  Items = 1
  Plans <- InSequence
  MaxCrashes = 1
  MaxOps = 2
  MaxEvents = 2
  MaxPauses = 1
PROPERTIES
  StopIsHonoured
  ActiveRunIsServed
CHECK_DEADLOCK FALSE
