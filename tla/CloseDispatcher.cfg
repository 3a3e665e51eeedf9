SPECIFICATION Spec
CONSTANTS
  MaxRequests = 1
INVARIANTS
  DispatcherKeepsRunning
