SPECIFICATION FairSpec
CONSTANTS
  w1 = w1
  w2 = w2
  note = note
  pdf = pdf
  library = library
  noOwner = noOwner
  Workers = {w1, w2}
  Sources = {note, pdf}
  Revisions = {pdf}
  Evidence = {note}
  Trashable = {note}
  Library = library
  NoOwner = noOwner
  MaxAttempts = 2
  DispatchLimit = 2
  MaxChanges = 2
  MaxEdits = 1
  MaxFaults = 1
INVARIANTS
  SettledRevisionReady
  LostIsFinal
  NoStrandedRetry
PROPERTIES
  JobHistory
  FencedWrites
  EveryChangeSettles
