----------------------------- MODULE CameraLink -----------------------------
(***************************************************************************)
(* What the console's camera sockets promise, whatever their timers,       *)
(* refreshes and closing handshakes do: a camera somebody looks at has one *)
(* handle, only a handle in use holds a connection, and a handle that is   *)
(* given up takes its connection with it in the same step.                 *)
(***************************************************************************)
CONSTANTS Cameras, Handles, NoHandle

VARIABLES
  handle,   \* handle[c]: the handle of camera c, NoHandle when nobody looks
  linked    \* the handles that hold a connection, opening or open

InUse == {handle[c] : c \in Cameras} \ {NoHandle}

Init ==
  /\ handle = [c \in Cameras |-> NoHandle]
  /\ linked = {}

Adopt(c, h) ==
  /\ handle[c] = NoHandle
  /\ h \in Handles \ (InUse \cup linked)
  /\ handle' = [handle EXCEPT ![c] = h]
  /\ linked' \in {linked, linked \cup {h}}

Abandon(gone) ==
  /\ handle' = [c \in Cameras |-> IF c \in gone THEN NoHandle ELSE handle[c]]
  /\ linked' = linked \ {handle[c] : c \in gone}

Connect(h) ==
  /\ h \in InUse \ linked
  /\ linked' = linked \cup {h}
  /\ UNCHANGED handle

Lose(h) ==
  /\ h \in linked
  /\ linked' = linked \ {h}
  /\ UNCHANGED handle

Next ==
  \/ \E c \in Cameras, h \in Handles : Adopt(c, h)
  \/ \E gone \in SUBSET Cameras : Abandon(gone)
  \/ \E h \in Handles : Connect(h) \/ Lose(h)

Spec == Init /\ [][Next]_<<handle, linked>>

\* What the contract gives its users: every connection belongs to a camera in
\* use, so no camera has two and none outlives the last viewer.
NoStrayLink == linked \subseteq InUse
=============================================================================
