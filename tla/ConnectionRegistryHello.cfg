SPECIFICATION Spec
CONSTANTS
  Sockets = {s1}
  Cameras = {c1}
  Users = {u1}
  Casts = {k1}
INVARIANT HelloFirst
CHECK_DEADLOCK FALSE
