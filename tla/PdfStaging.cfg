SPECIFICATION FairSpec
CONSTANTS
  a = a
  s1 = s1
  s2 = s2
  s3 = s3
  Shas = {a}
  Stages = {s1, s2, s3}
  ShaOf <- SameBytes
  MaxReceipts = 2
  MaxStagedCount = 2
  MaxFailures = 1
  MaxCrashes = 1
INVARIANTS
  TypeOK
  ReceiptHasBytes
  JournalCoversStages
  BlobsAccountedFor
  ReceiptsBounded
PROPERTIES
  ImplementsBlobStore
  JournalSettles
