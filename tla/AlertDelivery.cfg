SPECIFICATION Spec
CONSTANTS
  Alerts = {a1, a2}
  Frame = frame
  MaxPending = 1
  MaxUnacked = 2
  MaxSocket = 2
  FrameWindow = 1
SYMMETRY AlertSymmetry
INVARIANTS
  TypeOK
  NoSilentLoss
  RepliesAligned
  HonestReport
PROPERTY ImplementsLedger
CHECK_DEADLOCK FALSE
