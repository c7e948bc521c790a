--------------------------- MODULE AlertDelivery ---------------------------
(***************************************************************************)
(* Delivery of alerts from one camera's pipeline (ml/ws_client.py, driven  *)
(* by ml/pipeline.py) over a WebSocket to the backend                      *)
(* (backend/websocket/stream.py).                                          *)
(*                                                                         *)
(* Every await of the client is a point where the other tasks of its event *)
(* loop can run, so `await ws.send(...)` is two steps here: the bytes are  *)
(* written (a record joins `sends`), and later the sender resumes.  The    *)
(* library serialises senders behind one drain lock: they resume in the    *)
(* order in which they wrote.                                              *)
(*                                                                         *)
(* A socket is "open"; "lost" once its transport is gone but the client    *)
(* has not noticed (sends still succeed, into the void); "closed" once the *)
(* library knows.  Sockets are numbered in the order they are dialled.     *)
(***************************************************************************)
EXTENDS Naturals, FiniteSets, SequencesExt

CONSTANTS
  Alerts,        \* the alerts the pipeline may raise
  Frame,         \* stands for every frame_data message that carries no alert
  MaxPending,    \* PENDING_ALERT_LIMIT, 500 in the code
  MaxUnacked,    \* UNACKED_LIMIT, 2000 in the code
  MaxSocket,     \* bound: how many sockets a behaviour may dial
  FrameWindow    \* bound: unanswered plain frames on a socket (back pressure)

ASSUME DeliveryAssumption ==
  /\ Frame \notin Alerts
  /\ MaxPending \in Nat \ {0}
  /\ MaxUnacked \in Nat \ {0}
  /\ MaxSocket \in Nat \ {0}
  /\ FrameWindow \in Nat

Socket == 1 .. MaxSocket
Msg == Alerts \cup {Frame}
Sender == {"alert", "frame", "connect", "flush_pending"}
SendRecord == [by : Sender, msg : Msg, sock : Socket]

VARIABLES
  phase,       \* "running", "flushing" (shutdown's flush_pending), "closed"
  ws,          \* self.ws: the current socket, 0 before the first
  connected,   \* self._connected
  connector,   \* who holds _connect_lock: "none", "background", "flush_pending"
  dialing,     \* the holder is still dialling (else it is flushing)
  wake,        \* a _background_reconnect task has been created and not yet run
  flushing,    \* flush_pending is inside its own call of _flush_pending_alerts
  pending,     \* self.pending_alerts
  unacked,     \* self._unacked, Frame for the code's None
  sends,       \* senders suspended in `await ws.send`, in the order they wrote
  readers,     \* the sockets whose _reader task is running
  net,         \* net[s]: "unused", "open", "lost", "closed"
  up,          \* up[s]: messages on their way to the backend
  down,        \* down[s]: replies on their way back, each the message it answers
  busy,        \* busy[s]: what the backend's handler of socket s is doing
  raised, stored, announced,   \* the ledger
  rejected,    \* history: alerts answered by the backend, but not stored
  dropped,     \* history: alerts a full deque or a stale popleft removed
  misaligned,  \* history: `unacked` stopped matching the replies to come
  report       \* what flush_pending returned, 0 before

clientVars == <<phase, ws, connected, connector, dialing, wake, flushing,
                pending, unacked, sends, readers, dropped, misaligned, report>>
netVars == <<net, up, down>>
backendVars == <<busy, stored, announced, rejected>>
vars == <<clientVars, netVars, backendVars, raised>>

Idle == [stage |-> "idle"]
Working == [stage : {"checked", "stored"}, msg : Msg, found : BOOLEAN]

TypeOK ==
  /\ phase \in {"running", "flushing", "closed"}
  /\ ws \in 0 .. MaxSocket
  /\ connected \in BOOLEAN
  /\ connector \in {"none", "background", "flush_pending"}
  /\ dialing \in BOOLEAN /\ wake \in BOOLEAN /\ flushing \in BOOLEAN
  /\ pending \in Seq(Alerts)
  /\ unacked \in Seq(Msg)
  /\ sends \in Seq(SendRecord)
  /\ readers \subseteq Socket
  /\ net \in [Socket -> {"unused", "open", "lost", "closed"}]
  /\ up \in [Socket -> Seq(Msg)]
  /\ down \in [Socket -> Seq(Msg)]
  /\ busy \in [Socket -> {Idle} \cup Working]
  /\ raised \subseteq Alerts
  /\ stored \subseteq Alerts
  /\ announced \in [Alerts -> Nat]
  /\ rejected \subseteq Alerts
  /\ dropped \subseteq Alerts
  /\ misaligned \in BOOLEAN
  /\ report \in Nat

-----------------------------------------------------------------------------
(* The bounded deques of the client. *)

\* Mutant of PushRight: appendleft() instead of append()
PushLeft(q, x, n) == <<x>> \o (IF Len(q) < n THEN q ELSE Front(q))

\* deque(maxlen=n).append(x): a full deque gives up its oldest element
PushRight(q, x, n) == Append(IF Len(q) < n THEN q ELSE Tail(q), x)
LostByPush(q, n) == IF Len(q) < n THEN {} ELSE {Head(q)}

\* The alerts of `unacked`, in order: rank(i) is the place of unacked[i] among them
AlertsAt == {i \in DOMAIN unacked : unacked[i] # Frame}
Rank(i) == Cardinality({k \in AlertsAt : k <= i})

\* Mutant of Orphans: the `is not None` filter forgotten
OrphansWithFrames == unacked

Orphans ==
  [j \in 1 .. Cardinality(AlertsAt) |-> unacked[CHOOSE i \in AlertsAt : Rank(i) = j]]

\* pending_alerts.extendleft(reversed(orphaned)): a full deque gives up its newest
Requeued == Orphans \o pending
RequeueKept == SubSeq(Requeued, 1, IF Len(Requeued) < MaxPending THEN Len(Requeued) ELSE MaxPending)
LostByRequeue == ToSet(Requeued) \ ToSet(RequeueKept)

\* Mutant of undelivered_alerts: alerts sent but not answered are forgotten
UndeliveredQueued == Len(pending)

undelivered_alerts == Len(pending) + Cardinality(AlertsAt)

\* ws.send has put the bytes on the wire; on a dead transport they go nowhere
Transmit(m) == up' = IF net[ws] = "open" THEN [up EXCEPT ![ws] = Append(@, m)] ELSE up

StartSend(by, m) ==
  /\ sends' = Append(sends, [by |-> by, msg |-> m, sock |-> ws])
  /\ Transmit(m)

\* Only the sender that wrote first on its socket can resume with success
FirstOnItsSocket(i) == \A j \in 1 .. i - 1 : sends[j].sock # sends[i].sock
InSend(by) == \E i \in DOMAIN sends : sends[i].by = by

\* Every task suspended on a dead socket has resumed: the library wakes them all
\* in one turn of the event loop, well before another handshake can complete
Settled(s) == s \notin readers /\ \A i \in DOMAIN sends : sends[i].sock # s

\* Messages on socket s that the client has no answer to yet
InHand(s) == IF busy[s] = Idle THEN <<>> ELSE <<busy[s].msg>>
Unanswered(s) == down[s] \o InHand(s) \o up[s]
FramesOnWire(s) ==
  LET q == Unanswered(s) IN Cardinality({i \in DOMAIN q : q[i] = Frame})

-----------------------------------------------------------------------------
(* run() has tried to connect once, in vain: a start that connects is reached *)
(* through the background reconnect that the first send asks for.             *)
Init ==
  /\ phase = "running"
  /\ ws = 0 /\ connected = FALSE
  /\ connector = "none" /\ dialing = FALSE /\ wake = FALSE /\ flushing = FALSE
  /\ pending = <<>> /\ unacked = <<>> /\ sends = <<>>
  /\ readers = {}
  /\ net = [s \in Socket |-> "unused"]
  /\ up = [s \in Socket |-> <<>>]
  /\ down = [s \in Socket |-> <<>>]
  /\ busy = [s \in Socket |-> Idle]
  /\ raised = {} /\ stored = {}
  /\ announced = [a \in Alerts |-> 0]
  /\ rejected = {} /\ dropped = {} /\ misaligned = FALSE
  /\ report = 0

-----------------------------------------------------------------------------
(* WSClient.send_frame *)

\* A critical message that cannot be sent is queued, and a reconnect requested
QueueAlert(a) ==
  /\ pending' = PushRight(pending, a, MaxPending)
  /\ dropped' = dropped \cup LostByPush(pending, MaxPending)
  /\ wake' = TRUE

\* An alert task of the pipeline calls send_frame(payload, critical=True)
SendAlert(a) ==
  /\ phase = "running" /\ a \notin raised
  /\ raised' = raised \cup {a}
  /\ \/ connected /\ StartSend("alert", a) /\ UNCHANGED <<pending, dropped, wake>>
     \/ ~connected /\ QueueAlert(a) /\ UNCHANGED <<sends, up>>
  /\ UNCHANGED <<phase, ws, connected, connector, dialing, flushing, unacked,
                 readers, misaligned, report, net, down, backendVars>>

\* The publish task sends a frame; the pipeline runs one publish task at a time
PublishFrame ==
  /\ phase = "running" /\ ~InSend("frame")
  /\ \/ /\ connected /\ FramesOnWire(ws) < FrameWindow
        /\ StartSend("frame", Frame) /\ UNCHANGED wake
     \/ ~connected /\ wake' = TRUE /\ UNCHANGED <<sends, up>>
  /\ UNCHANGED <<phase, ws, connected, connector, dialing, flushing, pending,
                 unacked, readers, dropped, misaligned, report, net, down,
                 backendVars, raised>>

\* The library lets sender i resume with success: not after it knows the socket
\* to be closed
CanReturn(i) == FirstOnItsSocket(i) /\ net[sends[i].sock] # "closed"

\* send_frame resumes: one entry of `unacked` per message sent
SendReturns(i) ==
  /\ CanReturn(i) /\ sends[i].by \in {"alert", "frame"}
  /\ sends' = RemoveAt(sends, i)
  /\ unacked' = PushRight(unacked, sends[i].msg, MaxUnacked)
  /\ misaligned' = (misaligned \/ Len(unacked) >= MaxUnacked)
  /\ UNCHANGED <<phase, ws, connected, connector, dialing, wake, flushing,
                 pending, readers, dropped, report, netVars, backendVars, raised>>

\* The exception of a send on a closed socket, in send_frame
SendRaises(i) ==
  /\ net[sends[i].sock] = "closed" /\ sends[i].by \in {"alert", "frame"}
  /\ sends' = RemoveAt(sends, i)
  /\ connected' = FALSE
  /\ \/ sends[i].by = "alert" /\ QueueAlert(sends[i].msg)
     \/ sends[i].by = "frame" /\ wake' = TRUE /\ UNCHANGED <<pending, dropped>>
  /\ UNCHANGED <<phase, ws, connector, dialing, flushing, unacked, readers,
                 misaligned, report, netVars, backendVars, raised>>

-----------------------------------------------------------------------------
(* WSClient._flush_pending_alerts, called by connect() and by flush_pending() *)

Flusher == {"connect", "flush_pending"}
Flushing(f) == IF f = "connect" THEN connector # "none" /\ ~dialing ELSE flushing

\* Mutant of FlushReturns: connect() returns without giving up its lock
FlushKeepsLock(f) ==
  /\ connector' = connector
  /\ flushing' = IF f = "flush_pending" THEN FALSE ELSE flushing

\* The call of f returns: connect() gives up its lock, flush_pending() loops
FlushReturns(f) ==
  /\ connector' = IF f = "connect" THEN "none" ELSE connector
  /\ flushing' = IF f = "flush_pending" THEN FALSE ELSE flushing

\* One turn of the loop: the head of the queue is sent, but not yet removed
FlushSends(f) ==
  /\ Flushing(f) /\ ~InSend(f)
  /\ pending # <<>> /\ connected
  /\ StartSend(f, Head(pending))
  /\ UNCHANGED <<phase, ws, connected, connector, dialing, wake, flushing,
                 pending, unacked, readers, dropped, misaligned, report, net,
                 down, backendVars, raised>>

FlushStops(f) ==
  /\ Flushing(f) /\ ~InSend(f)
  /\ pending = <<>> \/ ~connected
  /\ FlushReturns(f)
  /\ UNCHANGED <<phase, ws, connected, dialing, wake, pending, unacked, sends,
                 readers, dropped, misaligned, report, netVars, backendVars, raised>>

\* popleft() removes whatever is at the head now, which another task may have
\* changed during the await
FlushedOne(i) ==
  /\ CanReturn(i) /\ sends[i].by \in Flusher /\ pending # <<>>
  /\ sends' = RemoveAt(sends, i)
  /\ pending' = Tail(pending)
  /\ dropped' = dropped \cup ({Head(pending)} \ {sends[i].msg})
  /\ unacked' = PushRight(unacked, sends[i].msg, MaxUnacked)
  /\ misaligned' = (misaligned \/ Len(unacked) >= MaxUnacked)
  /\ UNCHANGED <<phase, ws, connected, connector, dialing, wake, flushing,
                 readers, report, netVars, backendVars, raised>>

\* The except branch: the send raised, or popleft() found the queue empty, in
\* which case the message is on a live socket but not in `unacked`
FlushFails(i) ==
  /\ sends[i].by \in Flusher
  /\ \/ net[sends[i].sock] = "closed" /\ UNCHANGED misaligned
     \/ CanReturn(i) /\ pending = <<>> /\ misaligned' = TRUE
  /\ sends' = RemoveAt(sends, i)
  /\ connected' = FALSE
  /\ FlushReturns(sends[i].by)
  /\ UNCHANGED <<phase, ws, dialing, wake, pending, unacked, readers, dropped,
                 report, netVars, backendVars, raised>>

-----------------------------------------------------------------------------
(* WSClient.connect and _background_reconnect *)

\* The requested task runs: it gives up if a connect() is already under way
BackgroundReconnect ==
  /\ wake /\ wake' = FALSE
  /\ IF connector = "none" /\ phase # "closed" /\ ~connected
     THEN connector' = "background" /\ dialing' = TRUE
     ELSE UNCHANGED <<connector, dialing>>
  /\ UNCHANGED <<phase, ws, connected, flushing, pending, unacked, sends,
                 readers, dropped, misaligned, report, netVars, backendVars, raised>>

\* A handshake takes network round trips, the waking of a dead socket's tasks none
MayDial ==
  /\ connector # "none" /\ dialing
  /\ ws < MaxSocket
  /\ ws > 0 /\ net[ws] = "closed" => Settled(ws)

\* The hello arrived: the reader is started and the queue flushed under the lock
DialSucceeds ==
  /\ MayDial
  /\ ws' = ws + 1
  /\ net' = [net EXCEPT ![ws + 1] = "open"]
  /\ readers' = readers \cup {ws + 1}
  /\ connected' = TRUE
  /\ dialing' = FALSE
  /\ UNCHANGED <<phase, connector, wake, flushing, pending, unacked, sends,
                 dropped, misaligned, report, up, down, backendVars, raised>>

\* No hello: self.ws is already the new socket, but no reader runs on it.  The
\* background task retries, flush_pending() asked for a single attempt
DialFails ==
  /\ MayDial /\ ws + 1 < MaxSocket
  /\ ws' = ws + 1
  /\ net' = [net EXCEPT ![ws + 1] = "closed"]
  /\ connected' = FALSE
  /\ connector' = IF connector = "background" THEN connector ELSE "none"
  /\ dialing' = (connector = "background")
  /\ UNCHANGED <<phase, wake, flushing, pending, unacked, sends, readers,
                 dropped, misaligned, report, up, down, backendVars, raised>>

\* The attempt ends before there is a socket: refused (which ends flush_pending's
\* single attempt), or the login failed (BackendAuthError, which ends either)
DialRefused ==
  /\ connector # "none" /\ dialing
  /\ connector' = "none" /\ dialing' = FALSE
  /\ UNCHANGED <<phase, ws, connected, wake, flushing, pending, unacked, sends,
                 readers, dropped, misaligned, report, netVars, backendVars, raised>>

-----------------------------------------------------------------------------
(* WSClient._reader *)

\* A frame_ack or an error answers the oldest entry of `unacked`
ReaderTakes(s) ==
  /\ s \in readers /\ down[s] # <<>>
  /\ down' = [down EXCEPT ![s] = Tail(@)]
  /\ unacked' = IF unacked = <<>> THEN unacked ELSE Tail(unacked)
  /\ UNCHANGED <<phase, ws, connected, connector, dialing, wake, flushing,
                 pending, sends, readers, dropped, misaligned, report, net, up,
                 backendVars, raised>>

\* Mutant of Requeue: the deque is cleared before its alerts are copied
RequeueNothing == pending' = pending /\ dropped' = dropped /\ unacked' = <<>>

\* _requeue_unacknowledged
Requeue ==
  /\ pending' = RequeueKept
  /\ dropped' = dropped \cup LostByRequeue
  /\ unacked' = <<>>

\* The socket is gone: the finally clause
ReaderEnds(s) ==
  /\ s \in readers /\ net[s] = "closed"
  /\ readers' = readers \ {s}
  /\ IF ws = s
     THEN connected' = FALSE /\ Requeue
     ELSE UNCHANGED <<connected, pending, dropped, unacked>>
  /\ UNCHANGED <<phase, ws, connector, dialing, wake, flushing, sends,
                 misaligned, report, netVars, backendVars, raised>>

-----------------------------------------------------------------------------
(* The network.  The last socket a behaviour may dial stays up. *)

\* The transport dies.  Of the messages under way a prefix still reaches the
\* backend, however late; the replies the client has not read are gone (those that
\* made it to the client are read before this step)
PeerDrops(s) ==
  /\ net[s] = "open" /\ s < MaxSocket
  /\ net' = [net EXCEPT ![s] = "lost"]
  /\ \E k \in 0 .. Len(up[s]) : up' = [up EXCEPT ![s] = SubSeq(@, 1, k)]
  /\ down' = [down EXCEPT ![s] = <<>>]
  /\ UNCHANGED <<clientVars, backendVars, raised>>

\* The client's library learns of it: a failed write, an end of file, a ping timeout
ClientNotices(s) ==
  /\ net[s] = "lost"
  /\ net' = [net EXCEPT ![s] = "closed"]
  /\ UNCHANGED <<clientVars, up, down, backendVars, raised>>

-----------------------------------------------------------------------------
(* The backend: camera_stream handles one message of a socket after another, *)
(* the handlers of different sockets interleave at their awaits.             *)

\* receive_text, then _persist_alerts looks the alert id up
BackendTakes(s) ==
  /\ busy[s] = Idle /\ up[s] # <<>>
  /\ up' = [up EXCEPT ![s] = Tail(@)]
  /\ busy' = [busy EXCEPT ![s] = [stage |-> "checked", msg |-> Head(up[s]),
                                  found |-> Head(up[s]) \in stored]]
  /\ UNCHANGED <<clientVars, net, down, stored, announced, rejected, raised>>

\* alert_crud.create and the commit at the end of get_db_context: the primary
\* key lets only one of two concurrent handlers through
BackendStores(s) ==
  /\ busy[s] # Idle /\ busy[s].stage = "checked"
  /\ busy[s].msg \in Alerts /\ ~busy[s].found
  /\ busy[s].msg \notin stored
  /\ stored' = stored \cup {busy[s].msg}
  /\ busy' = [busy EXCEPT ![s].stage = "stored"]
  /\ UNCHANGED <<clientVars, netVars, announced, rejected, raised>>

\* The answer to the message in hand; a handler whose socket is gone sends into
\* the void and may stop reading what it had received
Reply(s) ==
  /\ down' = IF net[s] = "open" THEN [down EXCEPT ![s] = Append(@, busy[s].msg)] ELSE down
  /\ \/ up' = up
     \/ net[s] # "open" /\ up' = [up EXCEPT ![s] = <<>>]
  /\ busy' = [busy EXCEPT ![s] = Idle]

\* Mutant of Announces: a re-sent alert is broadcast again
AnnouncesEveryAlert(s) == busy[s].msg # Frame

\* Only the alerts this handler created are in `outcome.created`
Announces(s) == busy[s].stage = "stored"

\* broadcast_critical_alert for an alert this handler created (every alert is taken
\* to be a CRITICAL one, the others are not announced), then the frame_ack
BackendAcks(s) ==
  /\ busy[s] # Idle
  /\ busy[s].stage = "stored" \/ busy[s].found \/ busy[s].msg = Frame
  /\ announced' = IF Announces(s)
                  THEN [announced EXCEPT ![busy[s].msg] = @ + 1] ELSE announced
  /\ Reply(s)
  /\ UNCHANGED <<clientVars, net, stored, rejected, raised>>

\* Any failure before the commit is answered with an error and rolled back; an alert
\* that does not validate is left out, and listed as a problem in the frame_ack
BackendErrors(s) ==
  /\ busy[s] # Idle /\ busy[s].stage = "checked"
  /\ rejected' = IF busy[s].msg \in stored \cup {Frame}
                 THEN rejected ELSE rejected \cup {busy[s].msg}
  /\ Reply(s)
  /\ UNCHANGED <<clientVars, net, stored, announced, raised>>

\* The backend process dies and comes back: every connection is gone, and so is
\* what its handlers held in memory; committed rows stay
BackendRestarts ==
  /\ \E s \in Socket : net[s] = "open"
  /\ net[MaxSocket] # "open"
  /\ net' = [s \in Socket |-> IF net[s] = "open" THEN "lost" ELSE net[s]]
  /\ up' = [s \in Socket |-> <<>>]
  /\ down' = [s \in Socket |-> <<>>]
  /\ busy' = [s \in Socket |-> Idle]
  /\ UNCHANGED <<clientVars, stored, announced, rejected, raised>>

-----------------------------------------------------------------------------
(* CameraPipeline.shutdown and WSClient.flush_pending, close *)

\* The frame loop has ended and every alert and publish task has been awaited
ShutdownBegins ==
  /\ phase = "running" /\ ~InSend("alert") /\ ~InSend("frame")
  /\ phase' = "flushing"
  /\ UNCHANGED <<ws, connected, connector, dialing, wake, flushing, pending,
                 unacked, sends, readers, dropped, misaligned, report, netVars,
                 backendVars, raised>>

FlushPendingConnects ==
  /\ phase = "flushing" /\ ~flushing /\ connector = "none"
  /\ undelivered_alerts > 0 /\ ~connected
  /\ connector' = "flush_pending" /\ dialing' = TRUE
  /\ UNCHANGED <<phase, ws, connected, wake, flushing, pending, unacked, sends,
                 readers, dropped, misaligned, report, netVars, backendVars, raised>>

\* Connected with alerts queued: flush here, whoever else is flushing
FlushPendingFlushes ==
  /\ phase = "flushing" /\ ~flushing /\ connector # "flush_pending"
  /\ pending # <<>> /\ connected
  /\ flushing' = TRUE
  /\ UNCHANGED <<phase, ws, connected, connector, dialing, wake, pending,
                 unacked, sends, readers, dropped, misaligned, report, netVars,
                 backendVars, raised>>

\* Nothing left to deliver, attempts exhausted or out of time: flush_pending
\* returns what is left, and close() ends the reader.  A connect still
\* under way in the background, which the code leaves alone, is taken to end with it.
Close ==
  /\ phase = "flushing" /\ phase' = "closed"
  /\ report' = undelivered_alerts
  /\ connected' = FALSE /\ connector' = "none" /\ dialing' = FALSE
  /\ wake' = FALSE /\ flushing' = FALSE
  /\ sends' = <<>>
  /\ readers' = {}
  /\ IF ws \in readers THEN Requeue ELSE UNCHANGED <<pending, dropped, unacked>>
  /\ UNCHANGED <<ws, misaligned, netVars, backendVars, raised>>

-----------------------------------------------------------------------------
Pipeline == (\E a \in Alerts : SendAlert(a)) \/ PublishFrame

Resume(i) == SendReturns(i) \/ SendRaises(i) \/ FlushedOne(i) \/ FlushFails(i)

Client ==
  \/ \E i \in DOMAIN sends : Resume(i)
  \/ \E f \in Flusher : FlushSends(f) \/ FlushStops(f)
  \/ BackgroundReconnect \/ DialSucceeds \/ DialFails \/ DialRefused
  \/ \E s \in Socket : ReaderTakes(s) \/ ReaderEnds(s)

Network == \E s \in Socket : PeerDrops(s) \/ ClientNotices(s)

Backend ==
  \/ \E s \in Socket : BackendTakes(s) \/ BackendStores(s) \/ BackendAcks(s) \/ BackendErrors(s)
  \/ BackendRestarts

Shutdown == ShutdownBegins \/ FlushPendingConnects \/ FlushPendingFlushes \/ Close

Next == Pipeline \/ Client \/ Network \/ Backend \/ Shutdown

Spec == Init /\ [][Next]_vars

\* The pipeline before its shutdown, with the scheduling its event loop and the
\* backend's give: a task that can resume does so, frames keep coming, the reader
\* and the handlers keep reading, a dead socket is noticed (ping_timeout=20), and
\* of the reconnection attempts, which every frame asks for anew, one succeeds.
RunningNext == Pipeline \/ Client \/ Network \/ Backend
RunningFairness ==
  /\ WF_vars(PublishFrame)
  /\ WF_vars(\E i \in DOMAIN sends : Resume(i))
  /\ WF_vars(\E f \in Flusher : FlushSends(f) \/ FlushStops(f))
  /\ WF_vars(BackgroundReconnect) /\ SF_vars(DialSucceeds)
  /\ \A s \in Socket :
       /\ WF_vars(ReaderTakes(s)) /\ WF_vars(ReaderEnds(s))
       /\ WF_vars(ClientNotices(s))
       /\ WF_vars(BackendTakes(s))
       /\ WF_vars(BackendStores(s) \/ BackendAcks(s) \/ BackendErrors(s))
RunningSpec == Init /\ [][RunningNext]_vars /\ RunningFairness

-----------------------------------------------------------------------------
(* Properties *)

\* The alerts the client still holds: queued, awaiting an answer, or in the
\* hands of a suspended alert task
Held ==
  ToSet(pending) \cup (ToSet(unacked) \ {Frame})
    \cup {sends[i].msg : i \in {j \in DOMAIN sends : sends[j].by = "alert"}}

\* ml/ws_client.py:7-8 and 11-13 say that no alert is lost: each alert raised is
\* in the database or the client will still send it.
NoAlertLost == raised \subseteq stored \cup Held

\* The truth of it: an alert that is neither stored nor held was answered with
\* an error or fell out of a full deque (or a popleft() hit the wrong entry), as
\* long as `unacked` has not been thrown out of step by its own bound or by two
\* concurrent flushes.
NoSilentLoss == ~misaligned => raised \subseteq stored \cup rejected \cup dropped \cup Held

\* Replies are matched to messages by position alone.  On a live socket, what the
\* client will match them against starts with `lag` messages that have had their
\* answer (it came before the sender resumed) and goes on with exactly the messages
\* whose replies are still to come, in their order.
AwaitingReply == unacked \o [i \in DOMAIN sends |-> sends[i].msg]
RepliesAligned ==
  ~misaligned /\ ws \in readers /\ net[ws] = "open" =>
    LET lag == Len(AwaitingReply) - Len(Unanswered(ws))
    IN /\ lag >= 0
       /\ Unanswered(ws) = SubSeq(AwaitingReply, lag + 1, Len(AwaitingReply))
       /\ \A i \in 1 .. lag : AwaitingReply[i] \in stored \cup rejected \cup {Frame}

\* When flush_pending() reports that nothing is undelivered, every alert raised
\* was stored, refused with an error or evicted: the shutdown log line of
\* ml/pipeline.py does not hide one.
HonestReport ==
  phase = "closed" /\ report = 0 /\ ~misaligned => raised \subseteq stored \cup rejected \cup dropped

\* Alerts are stored at most once and announced at most once, after the commit,
\* whatever is re-sent (ml/ws_client.py:12-13: "the backend ignores duplicate
\* alert ids").
Ledger == INSTANCE AlertLedger
ImplementsLedger == Ledger!LedgerSpec

\* While the pipeline runs, every alert reaches the backend's verdict: it ends up
\* stored, unless the backend answers it with an error or a full deque drops it.
AlertsSettle ==
  \A a \in Alerts : a \in raised ~> a \in stored \cup rejected \cup dropped \/ misaligned
=============================================================================
