SPECIFICATION Spec
CONSTANTS
  NumTests = 1
  NumContainers = 1
  Kinds = {"linux-bridge"}
  Schedules = {2}
  MaxLag = 1
CHECK_DEADLOCK FALSE
INVARIANT WaitsAsAnnounced
