SPECIFICATION Spec
CONSTANTS
  MaxRetries = 3
  MaxIterations = 3
  NoAgent = NoAgent
INVARIANT TypeOK
PROPERTIES
  RepeatIsFree
  OneFailureOneUnit
