SPECIFICATION FairSpec
CONSTANTS
  note = note
  pdf = pdf
  c1 = c1
  c2 = c2
  w1 = w1
  w2 = w2
  noContent = noContent
  noOwner = noOwner
  Sources = {note, pdf}
  Contents = {c1, c2}
  NoContent = noContent
  InitialContent <- Alike
  Trashable = {pdf}
  Workers = {w1, w2}
  NoOwner = noOwner
  BatchSize = 1
  MaxAttempts = 2
  MaxGenerations = 2
  MaxEdits = 1
  MaxFaults = 1
INVARIANTS
  TypeOK
  ActiveIsComplete
  SearchIsExact
PROPERTIES
  BuildsAreFenced
  BuildsEnd
CHECK_DEADLOCK FALSE
