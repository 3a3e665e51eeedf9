SPECIFICATION Spec
CONSTANTS
  w1 = w1
  w2 = w2
  note = note
  library = library
  noOwner = noOwner
  Workers = {w1, w2}
  Sources = {note}
  Revisions = {}
  Evidence = {}
  Trashable = {}
  Library = library
  NoOwner = noOwner
  MaxAttempts = 2
  DispatchLimit = 2
  MaxChanges = 3
  MaxEdits = 3
  MaxFaults = 0
SYMMETRY Symmetry
INVARIANTS
  TypeOK
  SettledFresh
PROPERTIES
  UnitsNeverRegress
  ImplementsIndex
