SPECIFICATION Spec
CONSTANTS
  Cameras = {c1}
  MaxRequests = 1
  MaxFlips = 2
  MaxRestarts = 1
INVARIANTS
  TypeOK
  OutageAlerted
  ToldTheTruth
PROPERTIES
  DarkCameraFlagged
  LiveCameraOnline
CHECK_DEADLOCK FALSE
