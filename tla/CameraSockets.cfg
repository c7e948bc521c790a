SPECIFICATION FairSpec
CONSTANTS
  u1 = u1
  u2 = u2
  s1 = s1
  s2 = s2
  Users = {u1, u2}
  NoUser = NoUser
  Cameras = {c1}
  Sockets = {s1, s2}
  NoSocket = NoSocket
  MaxSubs = 2
  Casts <- MCCasts
INVARIANTS
  TypeOK
  KeepAliveArmed
  OneActivity
  NeverGivesUp
  OpenIsTrue
PROPERTIES
  SessionsApart
  LockHolds
  KeepsContract
  Reconnects
CHECK_DEADLOCK FALSE
