SPECIFICATION FairSpec
CONSTANTS
  MaxRequests = 3
INVARIANTS
  TypeOK
  LockIsReleased
PROPERTIES
  ClosedMeansSaved
  BarriersRunOnce
  CloseIsDecided
  ExitsAreGuarded
