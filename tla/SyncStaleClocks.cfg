SPECIFICATION Spec
CONSTANTS
  Devices = {1, 2}
  Rows = {"w1"}
  Bumping = {}
  Fields = {"title"}
  SegmentSize = 1
  MaxTime = 3
  MaxEdits = 3
  MaxFaults = 0
PROPERTIES
  MergesMoveForward
