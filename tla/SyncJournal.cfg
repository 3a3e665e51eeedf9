SPECIFICATION Spec
CONSTANTS
  Devices = {1, 2}
  Rows = {"w1", "w2"}
  Bumping = {"w2"}
  Fields = {"title"}
  SegmentSize = 1
  MaxTime = 3
  MaxEdits = 2
  MaxFaults = 1
INVARIANTS
  TypeOK
  NeverWedged
  PendingOrPublished
  CursorMeansMerged
PROPERTIES
  ReplicatesRows
