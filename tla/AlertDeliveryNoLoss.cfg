SPECIFICATION Spec
CONSTANTS
  Alerts = {a1}
  Frame = frame
  MaxPending = 2
  MaxUnacked = 2
  MaxSocket = 2
  FrameWindow = 0
INVARIANT NoAlertLost
CHECK_DEADLOCK FALSE
