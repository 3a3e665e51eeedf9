SPECIFICATION FairSpec
CONSTANTS
  d1 = d1
  d2 = d2
  Downloads = {d1, d2}
  Size <- UnequalSizes
  MaxInFlight = 2
  MaxInFlightBytes = 3
  MaxDownloadBytes = 2
  MaxReceipts = 2
  MaxPendingBytes = 2
  MaxConsumes = 1
  MaxFailures = 1
  MaxCrashes = 1
INVARIANTS
  TypeOK
  AccountsBalance
  ConsumerUndisturbed
  FilesOwned
  StaleReceiptsSwept
PROPERTIES
  PermitsReturned
  PathsReclaimed
