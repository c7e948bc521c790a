SPECIFICATION Spec
CONSTANTS
  Cameras = {c1}
  MaxRequests = 0
  MaxFlips = 1
  MaxRestarts = 1
PROPERTY SilentCameraFlagged
CHECK_DEADLOCK FALSE
