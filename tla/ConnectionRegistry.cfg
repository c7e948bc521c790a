SPECIFICATION FairSpec
CONSTANTS
  Sockets = {s1, s2}
  Cameras = {c1}
  Users = {u1, u2}
  Casts = {k1}
INVARIANTS
  TypeOK
  IndexesAgree
  ReaderStaysRegistered
  NoOrphanedEntry
PROPERTIES
  BroadcastsEnd
  GoneAreForgotten
CHECK_DEADLOCK FALSE
