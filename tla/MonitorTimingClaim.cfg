SPECIFICATION Spec
CONSTANTS
  Threshold = 30
  CheckInterval = 30
  ProbeTimeout = 5
  Batches = 1
  Gaps = {1}
INVARIANT FlaggedInTime
CHECK_DEADLOCK FALSE
