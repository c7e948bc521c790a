------------------------- MODULE ConnectionRegistry -------------------------
(***************************************************************************)
(* The backend's registry of WebSocket connections                         *)
(* (backend/websocket/manager.py), the handlers that enter and leave it    *)
(* (camera_stream in backend/websocket/stream.py) and the broadcasts that  *)
(* go through it (backend/services/notification.py).                       *)
(*                                                                         *)
(* No critical section of the manager awaits, so each is one step.  A      *)
(* broadcast takes a snapshot of its sockets, sends to all of them         *)
(* concurrently, and removes the failed ones when the last send is over:   *)
(* handlers and other broadcasts run in between.                           *)
(***************************************************************************)
EXTENDS Naturals, FiniteSets

CONSTANTS Sockets, Cameras, Users,
  Casts          \* bound: the broadcasts that may be under way at one time

None == [cam |-> "none", user |-> "none"]
Owner == [cam : Cameras, user : Users]

ASSUME RegistryAssumption == None \notin Owner

VARIABLES
  camera_rooms,          \* camera -> its sockets; a key only while there are some
  operator_connections,  \* user -> her sockets, likewise
  socket_owner,          \* _socket_owner, None for a socket that is not a key
  ident,       \* ident[s]: the camera of the URL and the user of the token
  handler,     \* handler[s]: "new", "registered", "serving", "ended"
  client,      \* client[s]: "reading", "slow" (reads nothing for 5 s), "gone"
  first,       \* first[s]: what the client received first
  cast,        \* cast[k]: a call of _send_many
  closing,     \* the sockets close_all still has to close
  everSlow,    \* history: clients that have been slow
  shut         \* history: close_all has run

indexVars == <<camera_rooms, operator_connections, socket_owner>>
vars == <<indexVars, ident, handler, client, first, cast, closing, everSlow, shut>>

Resting == [stage |-> "idle", todo |-> {}, dead |-> {}]

TypeOK ==
  /\ DOMAIN camera_rooms \subseteq Cameras
  /\ \A c \in DOMAIN camera_rooms : camera_rooms[c] \subseteq Sockets
  /\ DOMAIN operator_connections \subseteq Users
  /\ \A u \in DOMAIN operator_connections : operator_connections[u] \subseteq Sockets
  /\ socket_owner \in [Sockets -> Owner \cup {None}]
  /\ ident \in [Sockets -> Owner]
  /\ handler \in [Sockets -> {"new", "registered", "serving", "ended"}]
  /\ client \in [Sockets -> {"reading", "slow", "gone"}]
  /\ first \in [Sockets -> {"nothing", "hello", "event"}]
  /\ cast \in [Casts -> [stage : {"idle", "sending"}, todo : SUBSET Sockets,
                         dead : SUBSET Sockets]]
  /\ closing \subseteq Sockets /\ everSlow \subseteq Sockets
  /\ shut \in BOOLEAN

Init ==
  /\ camera_rooms = [c \in {} |-> {}]
  /\ operator_connections = [u \in {} |-> {}]
  /\ socket_owner = [s \in Sockets |-> None]
  /\ ident \in [Sockets -> Owner]
  /\ handler = [s \in Sockets |-> "new"]
  /\ client = [s \in Sockets |-> "reading"]
  /\ first = [s \in Sockets |-> "nothing"]
  /\ cast = [k \in Casts |-> Resting]
  /\ closing = {} /\ everSlow = {} /\ shut = FALSE

-----------------------------------------------------------------------------
(* Both indexes are dictionaries of sets without empty sets. *)

Members(index, key) == IF key \in DOMAIN index THEN index[key] ELSE {}

\* setdefault(key, set()).add(s)
Enter(index, key, s) ==
  [k \in DOMAIN index \cup {key} |->
     IF k = key THEN Members(index, key) \cup {s} ELSE index[k]]

\* Mutant of Leave: a key whose last socket left is kept
LeaveEmpty(index, gone) == [k \in DOMAIN index |-> index[k] \ gone[k]]

\* Each key loses the sockets gone[key]; a key left with none is deleted
Leave(index, gone) ==
  [k \in {j \in DOMAIN index : index[j] \ gone[j] # {}} |-> index[k] \ gone[k]]

\* _remove_locked for each socket of S, which belongs to whom who[s] says
Remove(S, who) ==
  /\ socket_owner' = [s \in Sockets |-> IF s \in S THEN None ELSE socket_owner[s]]
  /\ camera_rooms' =
       Leave(camera_rooms, [c \in Cameras |-> {s \in S : who[s].cam = c}])
  /\ operator_connections' =
       Leave(operator_connections, [u \in Users |-> {s \in S : who[s].user = u}])

-----------------------------------------------------------------------------
(* camera_stream *)

\* The socket is accepted and registered; then the connection is audited, an await
Connect(s) ==
  /\ handler[s] = "new"
  /\ handler' = [handler EXCEPT ![s] = "registered"]
  /\ camera_rooms' = Enter(camera_rooms, ident[s].cam, s)
  /\ operator_connections' = Enter(operator_connections, ident[s].user, s)
  /\ socket_owner' = [socket_owner EXCEPT ![s] = ident[s]]
  /\ UNCHANGED <<ident, client, first, cast, closing, everSlow, shut>>

\* The "connected" message is sent
Hello(s) ==
  /\ handler[s] = "registered" /\ client[s] # "gone"
  /\ handler' = [handler EXCEPT ![s] = "serving"]
  /\ first' = IF first[s] = "nothing" THEN [first EXCEPT ![s] = "hello"] ELSE first
  /\ UNCHANGED <<indexVars, ident, client, cast, closing, everSlow, shut>>

\* Mutants of Departing: the registry is not left, or by all of the user's sockets
NobodyDeparting(s) == {}
UserDeparting(s) == Members(operator_connections, ident[s].user)

Departing(s) == {s}

\* Mutant of Disconnect: the try block begins after the greeting
DisconnectServed(s) ==
  /\ handler[s] = "serving" /\ client[s] = "gone"
  /\ handler' = [handler EXCEPT ![s] = "ended"]
  /\ Remove({s}, ident)
  /\ UNCHANGED <<ident, client, first, cast, closing, everSlow, shut>>

\* The finally clause: disconnect, with the owner on file or else the handler's own
Disconnect(s) ==
  /\ handler[s] \in {"registered", "serving"} /\ client[s] = "gone"
  /\ handler' = [handler EXCEPT ![s] = "ended"]
  /\ Remove(Departing(s), [t \in Sockets |-> IF socket_owner[t] = None THEN ident[t]
                                             ELSE socket_owner[t]])
  /\ UNCHANGED <<ident, client, first, cast, closing, everSlow, shut>>

-----------------------------------------------------------------------------
(* broadcast_to_camera, broadcast_to_all_operators, send_to_operator *)

Start(k, S) ==
  /\ cast[k] = Resting
  /\ cast' = [cast EXCEPT ![k] = [stage |-> "sending", todo |-> S, dead |-> {}]]
  /\ UNCHANGED <<indexVars, ident, handler, client, first, closing, everSlow, shut>>

BroadcastToCamera(k, c) == Start(k, Members(camera_rooms, c))

\* Mutant of BroadcastToAllOperators: the keys are iterated instead of the values
BroadcastToKeys(k) == Start(k, DOMAIN operator_connections)

BroadcastToAllOperators(k) ==
  Start(k, UNION {operator_connections[u] : u \in DOMAIN operator_connections})

SendToOperator(k, u) == Start(k, Members(operator_connections, u))

\* Mutant of Unsendable: a send is not given up after SEND_TIMEOUT_SECONDS
UnsendableGone(s) == client[s] = "gone"

\* The socket is not connected, or the send times out
Unsendable(s) == client[s] # "reading"

SendSucceeds(k, s) ==
  /\ s \in cast[k].todo /\ client[s] = "reading"
  /\ cast' = [cast EXCEPT ![k].todo = @ \ {s}]
  /\ first' = IF first[s] = "nothing" THEN [first EXCEPT ![s] = "event"] ELSE first
  /\ UNCHANGED <<indexVars, ident, handler, client, closing, everSlow, shut>>

SendFails(k, s) ==
  /\ s \in cast[k].todo /\ Unsendable(s)
  /\ cast' = [cast EXCEPT ![k].todo = @ \ {s}, ![k].dead = @ \cup {s}]
  /\ UNCHANGED <<indexVars, ident, handler, client, first, closing, everSlow, shut>>

\* gather() is complete: the dead sockets are removed, each by the owner on file
Prune(k) ==
  /\ cast[k].stage = "sending" /\ cast[k].todo = {}
  /\ Remove(cast[k].dead, socket_owner)
  /\ cast' = [cast EXCEPT ![k] = Resting]
  /\ UNCHANGED <<ident, handler, client, first, closing, everSlow, shut>>

-----------------------------------------------------------------------------
(* close_all, from the shutdown of the application *)

CloseAll ==
  /\ ~shut /\ shut' = TRUE
  /\ closing' = {s \in Sockets : socket_owner[s] # None}
  /\ camera_rooms' = [c \in {} |-> {}]
  /\ operator_connections' = [u \in {} |-> {}]
  /\ socket_owner' = [s \in Sockets |-> None]
  /\ UNCHANGED <<ident, handler, client, first, cast, everSlow>>

CloseOne(s) ==
  /\ s \in closing /\ closing' = closing \ {s}
  /\ client' = [client EXCEPT ![s] = "gone"]
  /\ UNCHANGED <<indexVars, ident, handler, first, cast, everSlow, shut>>

-----------------------------------------------------------------------------
(* The clients *)

SlowsDown(s) ==
  /\ handler[s] # "new" /\ client[s] = "reading" /\ s \notin everSlow
  /\ client' = [client EXCEPT ![s] = "slow"]
  /\ everSlow' = everSlow \cup {s}
  /\ UNCHANGED <<indexVars, ident, handler, first, cast, closing, shut>>

CatchesUp(s) ==
  /\ client[s] = "slow"
  /\ client' = [client EXCEPT ![s] = "reading"]
  /\ UNCHANGED <<indexVars, ident, handler, first, cast, closing, everSlow, shut>>

ClientLeaves(s) ==
  /\ handler[s] # "new" /\ client[s] # "gone"
  /\ client' = [client EXCEPT ![s] = "gone"]
  /\ UNCHANGED <<indexVars, ident, handler, first, cast, closing, everSlow, shut>>

-----------------------------------------------------------------------------
Stream(s) == Connect(s) \/ Hello(s) \/ Disconnect(s)

Broadcast(k) ==
  \/ \E c \in Cameras : BroadcastToCamera(k, c)
  \/ BroadcastToAllOperators(k)
  \/ \E u \in Users : SendToOperator(k, u)
  \/ \E s \in Sockets : SendSucceeds(k, s) \/ SendFails(k, s)
  \/ Prune(k)

Client(s) == SlowsDown(s) \/ CatchesUp(s) \/ ClientLeaves(s)

Next ==
  \/ \E s \in Sockets : Stream(s) \/ Client(s) \/ CloseOne(s)
  \/ \E k \in Casts : Broadcast(k)
  \/ CloseAll

\* Tasks of the event loop that can go on do so: a send ends, at the latest by its
\* timeout, and a handler whose client is gone leaves receive_text
Fairness ==
  /\ \A k \in Casts :
       /\ WF_vars(Prune(k))
       /\ \A s \in Sockets : WF_vars(SendSucceeds(k, s) \/ SendFails(k, s))
  /\ \A s \in Sockets : WF_vars(Disconnect(s))

Spec == Init /\ [][Next]_vars
FairSpec == Spec /\ Fairness

-----------------------------------------------------------------------------
(* Properties *)

\* The three indexes describe one set of connections, whatever order disconnects,
\* prunes, and close_all come in: a socket is in the room and in the user's set
\* that its owner entry names, in no other, and no empty set is left behind (the
\* number of keys is the number of connected operators).
IndexesAgree ==
  /\ \A s \in Sockets, c \in Cameras :
       s \in Members(camera_rooms, c) <=> socket_owner[s] # None /\ socket_owner[s].cam = c
  /\ \A s \in Sockets, u \in Users :
       s \in Members(operator_connections, u)
         <=> socket_owner[s] # None /\ socket_owner[s].user = u
  /\ \A c \in DOMAIN camera_rooms : camera_rooms[c] # {}
  /\ \A u \in DOMAIN operator_connections : operator_connections[u] # {}

\* A client that keeps reading stays registered as long as it is served: neither
\* another tab of the same user that closes, nor a slow neighbour in the room, nor
\* a prune decided on an old snapshot takes it out of the broadcasts.
ReaderStaysRegistered ==
  \A s \in Sockets :
    handler[s] \in {"registered", "serving"} /\ client[s] = "reading"
      /\ s \notin everSlow /\ ~shut => socket_owner[s] = ident[s]

\* No registration outlives its handler, which alone is sure to take it back.
NoOrphanedEntry ==
  \A s \in Sockets : socket_owner[s] # None => handler[s] \in {"registered", "serving"}

\* manager.py:6: "one slow client cannot stall a camera room".
BroadcastsEnd == \A k \in Casts : cast[k].stage = "sending" ~> cast[k].stage = "idle"

\* manager.py:7: "dead sockets are pruned from both indexes".
GoneAreForgotten == \A s \in Sockets : client[s] = "gone" ~> socket_owner[s] = None

\* ml/ws_client.py:84-85 takes the first message for the "connected" greeting and
\* treats anything else as a failed handshake.
HelloFirst == \A s \in Sockets : first[s] # "event"
=============================================================================
