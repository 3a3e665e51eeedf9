SPECIFICATION Spec
CONSTANTS
  w1 = w1
  note = note
  library = library
  noOwner = noOwner
  Workers = {w1}
  Sources = {note}
  Revisions = {}
  Evidence = {}
  Trashable = {note}
  Library = library
  NoOwner = noOwner
  MaxAttempts = 2
  DispatchLimit = 1
  MaxChanges = 2
  MaxEdits = 3
  MaxFaults = 1
INVARIANTS
  RestoredSourceIndexed
