SPECIFICATION RunningSpec
CONSTANTS
  Alerts = {a1, a2}
  Frame = frame
  MaxPending = 2
  MaxUnacked = 4
  MaxSocket = 2
  FrameWindow = 0
PROPERTY AlertsSettle
CHECK_DEADLOCK FALSE
