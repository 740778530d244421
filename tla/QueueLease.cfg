SPECIFICATION FairSpec
CONSTANTS
  Item = {i1}
  Proc = {p1, p2}
  NoOwner = NoOwner
  TTL = 2
  MaxEpoch = 4
  MaxCrashes = 2
INVARIANTS
  TypeOK
  SoleWorker
  UniqueEpochs
  IInv
PROPERTIES
  ActiveLeaseIsKept
  DeadOwnerIsCleared
