SPECIFICATION Spec
CONSTANTS
  Threshold = 30
  CheckInterval = 30
  ProbeTimeout = 5
  Batches = 1
  Gaps = {1, 10, 11}
INVARIANTS
  TypeOK
  FlaggedInWorstCase
  LiveNeverFlagged
CHECK_DEADLOCK FALSE
