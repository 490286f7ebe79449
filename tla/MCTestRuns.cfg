SPECIFICATION Spec
CONSTANTS
  NumTests = 2
  NumContainers = 2
  Kinds = {"basicfwd", "vpp", "ovs", "linux-bridge"}
  Schedules = {0, 2}
  MaxLag = 1
CHECK_DEADLOCK FALSE
INVARIANTS MeasuresItsOwn CleanAfterSuccess OnSchedule
PROPERTY AllTestsEnd
