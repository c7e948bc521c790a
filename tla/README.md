# A formal model of the border-surveillance system

The repository is a surveillance system with three programs: a Python **analysis
pipeline** per camera (`ml/`), a FastAPI **backend** with a PostgreSQL database
(`backend/`), and a React **operator console** (`frontend/`). A pipeline detects people
and vehicles, raises alerts, and publishes frames and alerts over a WebSocket; the
backend stores alerts, watches whether cameras are alive, and broadcasts to the
operators' browsers; the console shows it and lets operators act.

This directory holds TLA+ models of the parts of that system whose correctness rests
on ordering, on interleaved tasks or on time; TLC configurations that check them; and
proofs, checked by TLAPS, of what can be shown for every size. Paths below are relative
to `src/`.

```
tlc -workers 2 -config AlertDelivery.cfg MCAlertDelivery.tla
tlapm ConnectionRegistryProofs.tla
```

## 1. Inventory

| Part | Where | State | Operations | Hard because |
|---|---|---|---|---|
| Alert delivery client | `ml/ws_client.py` | socket, `_connected`, connect lock, `pending_alerts`, `_unacked` | `send_frame`, `connect`, flush, reader, `flush_pending`, `close` | every await lets other tasks in; replies are matched by position; sockets die unnoticed; bounded deques |
| Camera pipeline | `ml/pipeline.py`, `ml/main.py` | alert, publish and clip tasks | frame loop, shutdown | shutdown order, time-limited flush |
| Frame ingestion | `backend/websocket/stream.py` | one transaction per message | `handle_frame_data`, `_persist_alerts`, acknowledge | duplicates, two sockets of one camera, crash after commit, unlocked reads |
| Connection registry | `backend/websocket/manager.py` | rooms, operators, owners | connect, disconnect, broadcasts with pruning, `close_all` | broadcasts act on snapshots taken before an await |
| Camera liveness | `backend/services/camera_monitor.py`, `core/runtime.py` | heartbeats in memory, `cameras.status` | monitor cycle, transitions, notices | stale assessments, three writers of one row, restarts, detection latency |
| Camera management | `backend/routers/cameras.py` | `cameras` rows | PATCH status, test, delete, create | rows read without a lock and written later |
| Alert triage | `backend/routers/alerts.py` | `alerts.acknowledged` | acknowledge, resolve, delete | check, then act, from REST and WebSocket |
| Video analysis jobs | `backend/services/analysis_jobs.py` | the job table in memory, a worker process | start, watch, finalise, shutdown | process exit, kill, viewers, one job at a time |
| Evidence storage | `backend/services/evidence_service.py`, `routers/evidence.py` | files and rows | upload, archive, delete | files and transactions cannot commit together |
| Evidence capture | `ml/evidence.py` | ring buffer, clips being written | start, write, upload, unlink | upload before the alert is stored; partial failure |
| Accounts | `backend/core/auth.py`, `routers/auth.py` | failed attempts, locks, refresh tokens | login, refresh, logout | counters updated without a lock |
| Frame analysis | `ml/event_memory.py`, `identity.py`, `risk_engine.py`, `loitering.py` | tracks, identities, cooldowns | update, can_alert, resolve, cleanup | lost and reappearing tracks, inherited state |
| Stream reader | `ml/camera_stream.py` | latest frame, reader thread | read, reconnect | thread against event loop |
| Browser session | `frontend/src/stores/authStore.ts`, `api/client.ts`, `hooks/useSession.ts` | tokens, lock, keep-alive timer, the shared refresh | sign in, lock, unlock, refresh, sign out, reload | answers that outlive the session they were asked in; timers orphaned while they await |
| Browser camera sockets | `frontend/src/lib/cameraSocket.ts`, `hooks/useWebSocket.ts` | one reference-counted socket per camera | subscribe, release, dial, reconnect, shut down | an awaited refresh in `connect`, closing handshakes of earlier sockets, two socket objects of one camera |
| Browser live store | `frontend/src/stores/liveStore.ts`, `hooks/useAlerts.ts`, `lib/alerts.ts` | the feed, the fetched list, the last frames | ingest, merge, refetch, acknowledge | several sockets and REST answers about one alert, in any order |
| Browser analysis view | `frontend/src/pages/VideoAnalysisPage.tsx`, `hooks/useAnalysisStream.ts`, `lib/analysis.ts` | the job shown, its stream, polled answers | upload, follow, look again; the arithmetic of the dialogs | stream and poll overtake each other; a lost last message |
| Browser pages | `frontend/src/components/`, `pages/` | tabs, covers, dialogs, requests under way | one page each: cameras, zones, evidence, map, panorama, alerts | requests answered when their dialog is closed, open for something else, or open again |
| Detection and imaging | `ml/detector.py`, `weapons.py`, `night.py` | – | – | numerical; not a subject for a state machine |
| Simple APIs, audit, geometry | `routers/events.py`, `zones.py`, ... | single rows | queries, edits | nothing interleaves beyond a row |

How the parts interact:

```
 camera ──frames──► pipeline ──frame_data/alerts──► stream handler ──commit──► database
                        ▲                                │   ▲                     ▲
                        └────────── frame_ack/error ─────┘   │heartbeat            │FOR UPDATE
                                                             ▼                     │
 browsers ◄──broadcast── connection registry ◄──notices── camera monitor ──────────┘
     └──────────── REST: acknowledge, PATCH status, test, delete, evidence ────────► routers
```

What makes each modelled part correct:

- *Delivery*: an alert raised is stored at most once, announced at most once and only
  after its commit; it does not disappear unless something known took it; the client's
  guess which message a reply answers is right; what shutdown reports is honest.
- *Registry*: three indexes describe one set of connections; a client that reads stays
  in it; nobody who is gone does; a broadcast ends.
- *Session*: no session lives on in the next one, the screen lock is not lost to a late answer,
  and the keep-alive survives an outage.
- *Camera sockets*: one connection per camera in use and none astray; a camera is shown as
  open only when it is; a lost connection comes back.
- *Pages*: what is shown is true of what it is shown for, a request carries only what was
  changed, no two destructive requests at once, and what has ended or been acknowledged is
  shown so in the end.
- *Liveness*: a dead camera ends up offline with an alert and a live one online, for
  every interleaving of the monitor, frames and operators; the last notice says what the
  database says; detection takes a bounded time and a camera
  with frequent frames is not taken for dead.

`PROJECT.json` lists all parts (`components`) and, under `hazards`, each place in the
code where one of them could go wrong in a way a test would hardly reach.

## 2. The modules

| Module | Models | Checked by | Proofs |
|---|---|---|---|
| `AlertLedger` | abstract: raise once, store once, announce once after the store | property of `AlertDelivery` | in `AlertDeliveryProofs` |
| `AlertDelivery` | `WSClient`, the pipeline's sends and shutdown, the network, the backend's message handler | `alert_delivery`, `alert_delivery_live`, `alert_delivery_no_loss` | `AlertDeliveryProofs` |
| `MCAlertDelivery` | symmetry for the first run | | |
| `ConnectionRegistry` | `manager.py`, registration and departure in `camera_stream`, broadcasts | `connection_registry`, `connection_registry_hello` | `ConnectionRegistryProofs` |
| `CameraStatus` | every writer of `cameras.status`, heartbeats, notices | `camera_status`, `camera_status_silent` | `CameraStatusProofs` |
| `MonitorTiming` | the monitor's timing arithmetic and loop | `monitor_timing`, `monitor_timing_claim` | `MonitorTimingProofs` |
| `CameraLink` | abstract: one handle per camera in use, connections only of handles | property of `CameraSockets` | in `CameraSocketsProofs` |
| `BrowserSession` | the session of one browser tab | through `CameraSockets` | `CameraSocketsProofs` |
| `CameraSockets` | the camera sockets, composed with `BrowserSession` | `console_session`, `console_unlock` | `CameraSocketsProofs` |
| `MCCameraSockets` | who takes part in the runs of `CameraSockets` | | |
| `Console` | composes the twelve parts below | `console_pages` | `ConsoleProofs`, `AnalysisProofs`; types of all parts: `ConsoleTypeProofs` |
| `VideoAnalysis` | the video analysis page, its stream and polls | `console_pages` | `LiveIsTrue`, `ProgressStands` |
| `ConsoleShell` | tab strip, covers, keys, lock, sidebar | `console_pages` | `KeysLayered`, `TabsSound` |
| `LiveAlerts` | the alert board: feed, list, merge, acknowledgement | `console_pages` | `NoneHidden` |
| `CameraView` | the picture of one camera and its recording | `console_pages` | `PictureTrue`, `RecordingInHand` |
| `TrackReading` | the arithmetic of the dialogs about a track | `console_pages` | `ReadingsSound` |
| `CameraDesk` | editing and locating a camera, automatic location | `console_pages` | `OnlyChangesSent` |
| `ZoneEditor` | drawing fences on a feed | `console_pages` | `DrawnWhereStored` |
| `EvidenceDesk` | the evidence page | `console_pages` | `VerdictsBelong`, `OneAtATime` |
| `StreetView` | the street-level panorama | `console_pages` | `PanoramaTrue` |
| `ThreatMap` | drawing on the map, calibrating a camera | `console_pages` | `MapWorkSound` |
| `CameraRegistry` | the registration wizard, test, delete | `console_pages` | `RegistrationReviewed` |
| `AlertTriage` | the alerts page with the alert in review | `console_pages` | `NotesBelong`, `ReviewGoesOn` |

### AlertDelivery

One camera's pipeline and its sockets, numbered in the order they are dialled. All tasks
of the client run on one event loop, so what happens between two awaits is one action,
and `await ws.send(m)` is two: `StartSend` writes the bytes and appends a record to
`sends`; the sender resumes later with success or with `ConnectionClosed`
(`SendReturns`/`SendRaises` for `send_frame`, `FlushedOne`/`FlushFails` for
`_flush_pending_alerts`). The library (`websockets==12.0`) serialises drains by a lock,
so senders of a socket resume in the order they wrote (`FirstOnItsSocket`).

| Code | Model |
|---|---|
| `ws`, `_connected`, `_connect_lock`, `pending_alerts`, `_unacked` | `ws`, `connected`, `connector` with `dialing`, `pending`, `unacked` (`Frame` for `None`) |
| `send_frame` | `SendAlert`, `PublishFrame`, `SendReturns`, `SendRaises` |
| `_flush_pending_alerts` | `FlushSends`, `FlushedOne`, `FlushFails`, `FlushStops` |
| `connect`, `_background_reconnect` | `BackgroundReconnect`, `DialSucceeds`, `DialFails`, `DialRefused` |
| `_reader`, `_requeue_unacknowledged` | `ReaderTakes`, `ReaderEnds`, `Requeue` |
| `flush_pending`, `close`, pipeline shutdown | `ShutdownBegins`, `FlushPendingConnects`, `FlushPendingFlushes`, `Close` |
| `handle_frame_data`, `_persist_alerts`, the replies | `BackendTakes`, `BackendStores`, `BackendAcks`, `BackendErrors` |
| the network and a backend crash (external) | `PeerDrops`, `ClientNotices`, `BackendRestarts` |

A socket is `"lost"` between the death of its transport and the client learning of it:
sends succeed into the void, which is the case the acknowledgements exist for. A prefix of
what was under way may still be handled, however late, beside the handler of the next
socket. When a socket is known to be closed, its reader and all its senders are woken in
one turn of the event loop, while a handshake takes network round trips; so a new socket is
dialled only after the old one is `Settled`. `rejected`, `dropped` and `misaligned` are
history: which alerts were answered with an error, pushed out of a deque, and whether
`_unacked` was thrown out of step by its own bound or by two concurrent flushes.

Simplifications: every alert is a CRITICAL one (the others are stored in the same way and
not announced); `Init` is the state after one failed attempt to connect; a message carries
one alert or none. `close()` sets `_closing` and leaves a connect that is under way in the
background alone (`ws_client.py:79-97`, `228-241`): it may still open a socket and flush
what is queued. `Close` ends it, so the model's report of what is undelivered may count an
alert that such a connect would deliver after all. An error reply after the commit (a
broadcast that fails, `stream.py:272-279`, `422`) is not modelled: the client takes it like
an acknowledgement.

### ConnectionRegistry

No critical section of the manager contains an await, so each is one action. A broadcast
(`cast[k]`) is a snapshot (`BroadcastToCamera`, `BroadcastToAllOperators`,
`SendToOperator`), then sends in any order (`SendSucceeds`, or `SendFails` for a closed
socket and for the timeout), then `Prune`. `Connect`, `Hello` and `Disconnect` are the
handler's `manager.connect`, its greeting and its `finally`; between the first two lies
the awaited audit insert. `CloseAll` empties the registry, `CloseOne` closes one of the
sockets it had listed.

### CameraStatus

The monitor re-reads each row `FOR UPDATE` in the transaction that writes it, and its
writes become visible together at the commit: one action, `MonitorApplies`, on assessments
(`MonitorAssesses`) each made at a moment of its own earlier in the cycle. Frame handlers
and REST requests read a row without a lock and write it later: two actions, and because
the ORM writes a column only if it differs from the value *read* (`Written`), a stale read
may skip a write that is needed. After a commit its notices are sent one by one
(`MonitorNotifies`, `FrameAnswers`, `RequestNotifies`). `BackendRestarts` forgets
heartbeats and owed notices. `outage`, `decommissioned` and `untold` are history.

Heartbeat ages are abstracted to `"none"`, `"fresh"`, `"stale"`; the figures behind
"fresh" are the subject of `MonitorTiming`. A delivering camera's heartbeat stays fresh.
Neighbour notices, `last_seen` and the audit log are left out (`audit_standalone`
swallows its failures).

### MonitorTiming

Whole seconds, one observed camera. `detection_budget`, `probe_hard_deadline`,
`cycle_period` and `heartbeat_fresh_window` are the code's functions with the code's
rounding and clamps. `StartCycle` looks at the heartbeat (in the code all assessments
start, and read heartbeats, before any probe is awaited). If that is older than the fresh
window the camera is probed, and `Probed` may fail although the camera lives, for the pipeline
holds its device. A camera that delivers sends a `Frame` at least every `gap` seconds, so its
heartbeat ages between frames and `gap` decides whether it is ever probed. `EndCycle` commits
at any time up to `MaxCycle`, and `WakeTime` is `sleep(max(1, period - elapsed))`. Time in the database
is left out, so the latencies found are lower bounds.

### BrowserSession and CameraSockets

One browser tab. JavaScript runs one task at a time, and the promise continuations a task
leaves behind, as well as React's re-render, run before the next task: every task waits
until the tab is `Quiet`. When the shared refresh is answered (`RefreshSettles`) its
continuations, those of the keep-alive, of a refused request and of the camera sockets,
run in any order (`KeepAliveResumes`, `StaleResumes`, `QueryResumes`, `ConnectResumes`,
`PolicyResumes`) until `RefreshOver`.

| Code | Model |
|---|---|
| `useAuthStore`, its session storage | `auth`; `Persisted` in `Reload` |
| `refreshInFlight`, `refreshAccessToken` | `refresh`, `RefreshCalled`, `RefreshSettles` |
| the retry of a 401 in `client.ts` | `QueryRefused`, `RetryWanted`, `QueryResumes` |
| the keep-alive effect of `useSession` | `keep`, and `stale` for timers whose effect was cleaned up while they awaited |
| `LoginPage`, `ScreenLock`, password change, logout | `LoginAnswered`, `LockScreen`, `SubmitUnlock`, `UnlockAnswered`, `PasswordAnswered`, `StartSignOut`, `SignOut` |
| React's conditional rendering of the shell | `Render` |
| `CameraSocketManager` | `sockets`, `SubscribeFirst`, `SubscribeAgain`, `ReleaseOne`, `ReleaseLast`, `CloseAll` |
| `CameraSocket` | `obj[s]`: `connect`, `dial`, `scheduleReconnect`, `shutdown`, `Opens`, `Drops`, `PolicyClosed`, `LeavingEnds`, `TimerFires` |

A token is known by the user it was issued to. A `CameraSocket` that has left the map may
still await a refresh or the end of its closing handshake (`leaving`), and then writes the
displayed state of its camera; it is `Gone`, and can be used for a new object, once nothing
refers to it. `said`, what the object last reported of itself, is history.

`CameraSockets` is shown to implement `CameraLink`: the map is `handle`, and the objects
with a WebSocket are `linked`. In the abstract module a connection is nothing but a handle's;
in the code it is an object's that may have been given up during an await.

### Console and its parts

Each part is a module of its own with its variables, actions, type invariant and
properties, and names the files it models in its head. They do not wait for each other,
and what two pages share lies with the backend: each part takes the record of a camera,
an alert or a zone as something that changes, or is fetched anew, at any time. That is why
`Console` lets *one* part move in a behaviour, any one of them, while the other eleven stay
as they began: every behaviour of every part is a behaviour of `Console`, and one run
checks all of them. A step is one event with the renders and effects that follow at once;
a request is sent by one step and answered, refused or lost by a later one, whatever is
on the screen by then.

- `VideoAnalysis`: records reach the page by the WebSocket of the job and by polls asked
  while that delivers nothing. Messages carry a record the worker had at some moment since
  the one before (`Since`), so every delay and overtaking is in. Closed sockets fire
  `onclose` late (`closing`).
- `ConsoleShell`: the tab strip at its limit, and `dispatch`, which decides whether page or
  shell gets a key under the covers open at the time.
- `LiveAlerts`: `mail` is a set, so messages are lost, repeated and reordered; a fetch
  answers with the backend's record at some moment since it began. The dashboard's board
  asks for all alerts; those of the right panel, the panic view and the map ask for the
  unacknowledged ones (`RightPanel.tsx:49`, `PanicMode.tsx:27`, `MapViewPage.tsx:32`), whose
  answers leave the others out (`board`, `Asked`). There are fewer alerts than the limits
  of these queries (25 to 500): beyond its limit of 50 the dashboard loses the acknowledged
  ones first, and is then like the other boards.
- `CameraView`: one decode at a time with the newest frame pending; a decode begun for a
  camera since left ends later (`LateDecode`).
- `CameraDesk`: the edit dialog keeps its form while another operator edits the record;
  `stray` records the fields a request carries that were neither typed nor changed in the
  list under the dialog.
- `ZoneEditor`, `ThreatMap`: of a drawing only the number of corners counts, and over which
  camera's feed they were put.
- `EvidenceDesk`, `CameraRegistry`, `AlertTriage`: dialogs closed and reopened around
  requests under way. What a wizard closed since had sent is `orphan`.
- `StreetView`: a mount that was overtaken by another place, provider or radius goes on
  (`overtaken`) and puts its viewer into the panel unless the code disposes of it.
- `TrackReading`: `parseRiskReasons`, `explainDetectionRisk`, `fuseConfidence`,
  `directionHistogram`, `describeDirection`, `predictTrajectory`, `correlateTracks` and
  `pointInPolygon` as operators on data that grow while a dialog is open, compared with the
  engine's own score and with reference definitions (least squares, symmetry, partition).
  Numbers are whole: scores are scaled, the coefficients of the fitted line are over its
  denominator. A window whose points all have one time gets the code's level line.

## 3. The runs

| Run | Checks | Instance | Distinct states |
|---|---|---|---|
| `alert_delivery` | `TypeOK`, `NoSilentLoss`, `RepliesAligned`, `HonestReport`, `ImplementsLedger` | 2 alerts, 2 sockets, queues of 1 and 2 | 1,230,000 |
| `alert_delivery_live` | `AlertsSettle` | 2 alerts, 2 sockets, no plain frames on the wire | 27,000 |
| `alert_delivery_no_loss` | `NoAlertLost`: **violated** | 1 alert, 2 sockets | – |
| `camera_status` | `TypeOK`, `OutageAlerted`, `ToldTheTruth`, `DarkCameraFlagged`, `LiveCameraOnline` | 1 camera, 1 request, 2 flips, 1 restart | 66,000 |
| `camera_status_silent` | `SilentCameraFlagged`: **violated** | 1 camera, 1 flip, 1 restart | – |
| `monitor_timing` | `TypeOK`, `FlaggedInWorstCase`, `LiveNeverFlagged` | default settings; frames up to 1, 10 and 11 s apart | 11,000 |
| `monitor_timing_claim` | `FlaggedInTime`: **violated** | default settings | – |
| `connection_registry` | `TypeOK`, `IndexesAgree`, `ReaderStaysRegistered`, `NoOrphanedEntry`, `BroadcastsEnd`, `GoneAreForgotten` | 2 sockets, 1 camera, 2 users, 1 broadcast | 167,000 |
| `connection_registry_hello` | `HelloFirst`: **violated** | 1 of each | – |
| `console_session` | `TypeOK`, `SessionsApart`, `KeepAliveArmed`, `OneActivity`, `NeverGivesUp`, `OpenIsTrue`, `LockHolds`, `KeepsContract`, `Reconnects` | 1 camera, 2 viewers; 1 user with 2 CameraSockets, or 2 users with none | 293,000 |
| `console_unlock` | `ResumesAfterUnlock`: **violated** | the same | – |
| `console_pages` | `ConsoleTypeOK`, `TabsSound`, `KeysLayered`, `RecordingInHand`, `ReadingsSound`, `PagesSound`, `ProgressStands`, `ResultArrives`, `NoneHidden`, `AckShown`, `PictureTrue` | twelve parts, see Bounds | 236,000 |

What they show:

- **Nothing is lost silently** (`NoSilentLoss`): an alert neither stored nor held by the
  client was answered with an error or pushed out of a full deque. `RepliesAligned` is the
  reason: on a live socket the unacknowledged messages are, up to answers that overtook their
  own sender, the messages whose replies are to come. Both are stated for behaviours in
  which `_unacked` has not been thrown out of step (`~misaligned`). The client can be
  in a state where it has: at the bound of `_unacked`, and when `flush_pending` and a
  background connect flush at the same time.
- **At most once** (`ImplementsLedger`): whatever is re-sent, on however many sockets,
  an alert is stored once and announced once, after its commit. "At least once"
  does not hold of the announcement: a crash between commit and broadcast leaves an
  alert stored that no operator is told of.
- **Every alert settles** (`AlertsSettle`) while the pipeline runs.
- **Two notices may cross**: `ToldTheTruth` holds for cameras outside `untold`, and
  `untold` says exactly which interleavings can leave operators with a wrong last notice.
- **A second alert for one outage** takes a PATCH that read the row before the outage
  (`OutageAlerted`); the monitor alone never raises one.

- **A live camera is not flagged** (`LiveNeverFlagged`), if its frames come within the fresh
  window: nothing then probes the device that the pipeline holds. The window is 10 s by
  default; settings that leave no room for it clamp it to zero, and then no camera is safe from
  the probe (`NoRoomNoWindow` in section 4).
- **Sessions stay apart** (`SessionsApart`). A token refresh answered after the sign-out
  does store its token (`client.ts:82`): what is left is half a session, and it opens
  nothing. User and refresh token come and go together; an unlock answered after a sign-in of
  somebody else does not mix users; only a late answer to a refresh that was asked for in
  an earlier session puts another operator's access token beside the one signed in, and only
  until the next change of the token. **The lock holds** (`LockHolds`), and the **keep-alive stays armed** (`KeepAliveArmed`) through
  outages and clean-ups; a reload keeps exactly what the storage has.
- **Camera sockets keep their contract** (`KeepsContract`): at most one connection per
  camera, none without a viewer, although `connect` awaits a refresh and its object may be
  given up meanwhile. A camera in use is at work or has given up for a reason (`NeverGivesUp`,
  which accepts the lock as one: that case is `console_unlock`'s). `OpenIsTrue` is one-sided, and the other side fails: the close event
  of an earlier object may show a connected camera as closed until its next event.
- **A camera in use comes back** (`Reconnects`), if the screen is not locked meanwhile; with
  the lock it may not (`console_unlock`).
- **A video analysis** never shows an older progress or another end (`ProgressStands`), and
  its end is shown although the socket was lost with the last message (`ResultArrives`).
- **The board** (`NoneHidden`, `AckShown`): merging the feed with the list hides no alert (a
  board of unacknowledged ones drops what is acknowledged) and never shows an
  acknowledgement the backend does not have. A list fetched before may show an acknowledged
  alert as open again, and the next fetch puts that right: on a board that asks for all alerts
  an acknowledgement is shown in the end. On the others this takes the message, see below.
- **What pages send and show** (`PagesSound`): the edit dialog sends only the fields typed in it or
  changed in the list under it; a polygon goes to the chosen camera it was drawn over;
  verdicts, panoramas, landmarks and notes are of what they are shown or stored with; archive
  and delete requests come one at a time. `RecordingInHand`: a recorder never films another
  camera than its own or runs without the page counting its time, though REC is not on the
  screen when an error stands in the place of the page (`CameraViewPage.tsx:200`).
  `PictureTrue` is about the picture.

### Disagreements between code and documentation

1. `NoAlertLost`. `ml/ws_client.py:7-13` promises that no alert is lost. The reader
   treats an `error` reply like an acknowledgement, and the backend's error means that the
   alert was rolled back.
2. `SilentCameraFlagged`. `camera_monitor.py:7` says that a camera without a stream source
   is marked offline once its heartbeat is stale. Heartbeats do not survive a restart;
   a camera that falls silent before the restart is never assessed again.
3. `FlaggedInTime`. `camera_monitor.py:9-10` promises detection within 30 s. A cycle may
   outlast its period and the loop then sleeps another second: 33 s with the default settings.
4. `HelloFirst`. The client takes the first message for the greeting
   (`ml/ws_client.py:84-85`); the backend registers the socket for broadcasts before it
   greets, with an await in between.
5. `ResumesAfterUnlock`. `cameraSocket.ts:196` says that `restart()` dials anew after an
   unlock; nothing calls it (`:383`). A camera whose `connect` ran while the screen was locked
   stays closed until its last viewer leaves and another comes.

Met while modelling the console, and left out of the properties by a stated condition:

- `validation.ts:121` says that "a concurrent edit of another field is never overwritten". The
  edit dialog fills its form once (`CameraEditDialog.tsx:42`) and on saving compares it with
  the camera of its props, which a refetch has renewed by then (`:57`). So a field that another
  operator changed while the dialog was open is kept if the list does not show the change yet,
  and sent back with its old value if it does. `OnlyChangesSent` counts such a field as changed.
- The access token of an earlier session, stored by a late refresh beside another operator
  (`client.ts:79-82`); and the same refresh, *refused* late, ends the session of the operator
  who has signed in since (`:86-90`).
- An alert that is acknowledged elsewhere and whose message is lost drops out of the answers to
  a query for unacknowledged alerts; `mergeAlerts` then trusts the live copy (`lib/alerts.ts:7`), and
  the alert stays open on these boards for ever. `AckShown` takes the message as its premise
  there. `POST /alerts/clear-test-data` acknowledges with no message at all
  (`routers/alerts.py:100-125`).
- A new zone is drawn over the default camera before one is chosen; if the default changes
  meanwhile (`ZoneManagerPage.tsx:43-44`), the drawing goes on over, and is stored with, the other
  camera. `DrawnWhereStored` speaks of a chosen camera only.

Also met, with no document that promises otherwise: Enter on the alerts page
acknowledges without the form's note and mark; a deletion answered late clears the review
of another alert and goes back in the history; the alert just deleted may be selected again
from the list not yet refetched; page numbers are not clamped when lists shrink; a failed
load of Google's script is cached for ever (`panorama.ts:98`); Google's viewer of a place
since left stays in the panel (`PanoramaView.tsx:71`, hence `PanoramaTrue` speaks of
Mapillary's only); a failing refetch of the camera takes its feed off the page
(`CameraViewPage.tsx:200`); landmarks marked in images of different sizes are sent with the
last size (`CalibrationDialog.tsx:97`).

### Bounds

Two alerts and queues of one and two make every deque overflow, and make a queue hold something
while something else is unacknowledged; with a window of one plain frame, frames and alerts
mix in `_unacked`. Two sockets are what a reconnection needs: the old handler
works beside the new one. The last socket stays up, or no behaviour could settle. One
camera is enough in `CameraStatus`, where cameras share only the monitor's transaction and its list of
notices. Two flips are an outage and a return; the request, of any of five kinds, and the
restart can fall anywhere. Two sockets and two users in the registry give both a shared and a separate
owner, since `ident` is arbitrary; a broadcast overlaps departures of both.

`console_session`: two `CameraSocket` objects of one camera are an object given up during an
await and its successor; two viewers make `release` not the last. `Casts` lists who takes
part in a behaviour and which calls may be under way at one time. One operator with the sockets:
any one call, and an unlock with a sign-out, whose answers both change the session. Two operators,
one after the other in the tab and without cameras: also a login with either or both, so that
every answer of the one's session may come in the other's. The shared refresh may be under way
beside any of them. One refused query at a time is enough, since they share one refresh.
`monitor_timing` takes frames at most 1 s apart, and at and beyond the window of 10 s.

`console_pages`: two jobs and a list of one run make a job drop out of the visit's list and be
looked at beside another; a scale of one percent keeps "older" and "newer" apart; three tabs for
four pages reach the limit; two cameras with three frames each give a frame decoding, one
pending and a newer one; four positions with three gaps and three by two coordinates in a
frame of 7 by 5 hold every heading, a reversal, a still majority (`MaxPoints = 4`: with three
no majority is strict), two positions of one time and points on the border of a zone; two
feeds, two places, two pieces of evidence and two alerts on pages of one make
every "another one than the dialog was opened for". One alert on the board, because alerts
share nothing there but the fetch; one image size and one landmark pair of it, because
the count is compared with `MIN_POINTS` only. In `AlertTriage` one request is under way at a time.
The proofs of section 4 do not depend on these figures, but keep `Casts` and the one
request.

### Fairness

- `AlertDelivery!RunningFairness`: tasks that can resume do, the pipeline goes on
  publishing, readers and handlers go on reading, a dead socket is noticed (the library's
  `ping_timeout=20`). Strong fairness only for `DialSucceeds`: attempts are repeated with
  backoff for ever, and every frame asks for a new one; that one succeeds in the end is an
  assumption about the network.
- `CameraStatus!Fairness`: the monitor's loop catches every exception and goes on; that
  its cycles do not fail for ever is the reason for strong fairness of `MonitorAssesses` and
  `MonitorApplies`. Frame handlers and requests end; a heartbeat ages.
- `ConnectionRegistry!Fairness`: a send ends, at the latest by `SEND_TIMEOUT_SECONDS`, a
  prune follows, and a handler whose client is gone runs its `finally`. No fairness for
  clients.
- `CameraSockets!Fairness`: the event loop runs renders, continuations and timers. Strong
  fairness where the step may be taken away again while the server goes and comes: a request is
  answered or times out (15 s), a handshake succeeds, a timer fires. No fairness for
  operators, the network or locks.
- `ConsoleFairness`: of `VideoAnalysis` the events of sockets, polls and the clock, of
  `LiveAlerts` the refetch by `refetchInterval` and its answer (`SF`: it may fail, but not for
  ever). The other parts have no liveness property and no fairness.

Deadlock is not checked: each model has end states (the pipeline closed, the
budget of flips, requests and sockets used up, the camera flagged).

## 4. What is proved

**`AlertDeliveryProofs`**, for any sets of alerts, any number of sockets and any bounds of
the deques (assuming that `Frame` is no alert and the bounds are positive). All safety
properties of the `alert_delivery` run:

- `DeliveryTypes` (`TypeOK`), by the inductive `TypeInv`, which has the alerts *raised* in the
  place of all alerts: nothing is queued, under way, stored or evicted that was not raised.
- `LedgerImplemented` (`ImplementsLedger`): every step of the delivery is a step of
  `AlertLedger` or a stutter. `HandlersInv` carries it: between a commit and its announcement the
  alert is in the hands of exactly one handler, and has not been announced.
- `RepliesStayAligned` (`RepliesAligned`). The property says nothing of dead sockets, so it is
  not inductive: the invariant adds `SideInv` (a socket not yet dialled is untouched; a closed
  client is at rest; a reply is read only from a live socket, and only for a message that
  was dealt with) and `LiveInv` (until `unacked` is out of step, all senders and the reader
  are on the current socket, and a dead socket left behind has emptied `unacked`). `Tracks`
  is the match of two sequences by position; `TracksSent` and `TracksAnswered` say that it
  survives a message sent and a reply read. The step that needs the drain lock is
  `FirstResumes`: only the oldest suspended sender may resume.
- `NothingLostSilently` (`NoSilentLoss`): `NextAccounts` shows action by action that an alert
  that leaves the client's hands is stored, refused or evicted. The reader's step needs the
  match, requeueing needs that `Orphans` holds exactly the alerts of `unacked`
  (`OrphansProperties`), closing needs that no alert task is left (`ShutInv`).
- `ReportIsHonest` (`HonestReport`), from `NoSilentLoss`: a client that counts nothing
  undelivered holds nothing, and nothing is raised after the close.


**`ConnectionRegistryProofs`**, for any sets of sockets, cameras, users and concurrent
broadcasts. `RegistryTypes`, `RegistryConsistent` (`IndexesAgree`), `ReadersKept`
(`ReaderStaysRegistered`) and `NoOrphans` (`NoOrphanedEntry`), assuming only that `None` is
no owner. `IndexesAgree` is not inductive: from a state in which a socket's owner entry
names somebody else, `Disconnect` would remove it from the wrong room. The invariant
`IInv` says that both indexes *group* the owned sockets by their identity
(`Groups`) and that an owner entry is the socket's own identity. `EnterGroups` and
`LeaveGroups` are about the two operations on an index, `RemoveGroups` about
`_remove_locked`, and each action is a use of one of them. `SInv` adds that a socket in a
broadcast's `dead` set was slow once or is gone (`DeadForAReason`): that is what a prune
decided on an old snapshot relies on.

**`CameraStatusProofs`**, for any finite set of cameras and any number of requests, flips and
restarts. `StatusTypes` (`TypeOK`), `OutagesAlerted` (`OutageAlerted`) and `TruthTold`
(`ToldTheTruth`). Neither property is inductive. `OutageCounted` counts a request only when
its transaction is over (`Counted`), and says that an outage begins without alerts; so a
stale PATCH pays for the alert it adds. `Truth` says that *every* notice that is owed, by a
handler, by the monitor or by a request, agrees with the row, unless the camera is in `untold`;
the step that uses it is the broadcast of the last one (`TruthNotified`), and the one that
establishes it is the monitor's transaction, which puts each camera it changes on its list
(`NoticesOfProperties`, for which the cameras must be finite).

**`MonitorTimingProofs`**, for every setting. `TimingTypes`, `DetectionBound`
(`FlaggedInWorstCase`), `NoFalseAlarm` (`LiveNeverFlagged`: a camera that delivers is flagged
only if it lets more than the fresh window pass between two frames), `NoRoomNoWindow` (where a period
and a probe use up the budget that window is zero), and `PromiseKept`: the documented
bound does hold for settings under which one batch of probes ends before the cycle's period
(with a probe timeout of 2 s, for example), for cameras whose frames come within the window. The invariant `AgeBounded` bounds the age of the
last sign of life by the clock of the cycle, by what the loop knew when the cycle started;
without the verdict of the cycle in it, the bound is not inductive.

**`CameraSocketsProofs`**, for any users, cameras, objects, viewers and concurrent calls
(assuming `SocketAssumption` and `UserAssumption`: the "no" values are no members, and there is a camera). The
invariant `IInv` has a part for each module. `SessionInv` adds to type, `SessionWhole` and
what the keep-alive does (`KeepInv`) the meaning of a settled refresh (`RefreshInv`): the token its
continuations read is the one stored, or the session has ended. `LinkInv` says of each object that its
fields are sound (`SoundFields`: one activity, none of a closed one but the wait), that an
object outside the map is closed, that two cameras never share one, and that a camera shown
as open is. For `SessionsStayApart` (`SessionsApart`) `MountInv`
is added: what is not mounted has no keep-alive and no camera; `MixedByRefresh` looks
at the one step that stores a token without a look at its session.
`OneObjectSound` and `LeavingSound` are about a step of one object, `AnswersKeepSession` about
the answers that arrive late; each action is a use of one of them, and `StepSound` collects them.
`ContractKept` shows every step to be one of `CameraLink` or a stutter: a continuation that
dials is `Connect` because its object is in the map, which is where `SoundFields` is needed.

**`ConsoleProofs`**, for any values of the constants that satisfy `ConsoleAssumption`.
`OnePartMoves` reduces a step of the console to a step of one part or to standing
still. `RecordingStaysInHand` and `PictureStaysTrue` rest on `ViewInv` (what is decoding, pending and shown
is of the camera shown and in order), `AlertsNeverHidden` on `BoardInv`: nothing the browser
knows, not even the list a fetch under way will bring, is ahead of the backend's record, and
no list is ahead of the next fetch.
`PagesStaySound` rests on `PagesInv`, one invariant per page; those of stream, desk, editor and
evidence strengthen what the page promises. `KeysStayLayered` is about `dispatch` and holds in
every state. `TabsStaySound` (`TabsSound`), for any limit of at least two tabs, rests on
`ShellInv`: the strip is sound and the page shown is on it. `WithoutProperties` says what
closing a tab leaves, `OpenTabSound` what opening one at the limit does: the tab that makes room
is the second, never the dashboard.

**`AnalysisProofs`** is about what the console computes, for any values of the constants that
satisfy `ConsoleAssumption`, which says of the readings that times are natural numbers and
coordinates lie in the frame (`ReadingAssumption`).

- `ProgressAlwaysStands` (`ProgressStands`). The property is about a step and says nothing of
  the messages under way. `HistoryInv` does: the record of the stream and that of each poll
  is one the worker's has since grown from (`Behind`), so `best` of the two is never taken back by
  a later one of either (`CandidatesGrow`, `BestOnlyGrows`), and an end, being the last
  record of a worker, stands.
- `ReadingsStaySound` (`ReadingsSound`). Most of it holds of all data, whatever led to them,
  and is proved as lemmas about the operators. `RiskIsExplained`: rounding a score twice cannot make the
  explanation differ from the engine's weights by more than `RiskExplained` allows, and
  a fused confidence lies between its channels (`FusionBetween`). `ZonesArePartition`: level edges
  are never crossed (`CrossesLevel`), and whether the ray of a point crosses another is
  decided by the side it is on, whichever way the edge is drawn (`CrossesAscent`); so of two
  zones that share an edge exactly one has the point, on the edge too. `PathAddsUp`: the steps of
  the way back are the steps of the way, in bijection, with the opposite headings.
  `ForecastIsClosest`: slope and intercept of the code satisfy the normal equations (`RestSums`),
  its denominator is positive unless the window has but one time (`Spread`), and the squares of
  another line differ from the fit's by no less than a combination of the two sums that those
  equations make zero (`SquaresGrow`, `Closest`). `SightingsAreRanked`: what is
  compared of two sightings is symmetric and grows as the gap shrinks. Only this last
  needs an invariant, `ReadingInv`: no sighting ends before it begins.
- Sums over finite sets carry these proofs: `SumEquation`, `SumRemove`, `SumSame`,
  `SumLinear`. They follow from `SubsetInduction`, an induction stated with a set of subsets in
  place of a predicate, because the provers cannot use the library's, which has an
  operator for parameter; it rests on the well-foundedness of strict inclusion.

**`ConsoleTypeProofs`**: `ConsoleTypesHold` (`ConsoleTypeOK`), the types of all twelve parts. The
types alone are not inductive. `TypesInv` adds what keeps a value in its type where the code
does not look: that a strip is never empty (`ShellInv`), that a record of the stream is one of the
worker's (`HistoryInv`), that the board and the view show what was sent (`BoardInv`, `ViewInv`).

**Only model-checked**: liveness (`AlertsSettle`, `DarkCameraFlagged`, `LiveCameraOnline`,
`BroadcastsEnd`, `GoneAreForgotten`, `Reconnects`, `ResultArrives`, `AckShown`), which is
beyond the prover, and the five violated claims, which a counterexample settles. Every
invariant and every other action property of the runs is stated by a theorem. What the
assumptions of the proofs leave out is what the models leave out: the calls in `Casts`, one
request at a time in `AlertTriage`, and the parts of section 5.

## 5. Not modelled, and the plan

Left out for good: detection and imaging (numerical code around third-party models),
training and benchmark scripts, read-only APIs and dashboards, settings, the content of messages. Of
the console: drawing on canvases and maps, the sampling of live and selected tracks,
`forecastZoneEntries`, toasts and their undo, uploads of a recording, preferences that only their own control reads;
`restart()` and `restartAll()` of the sockets, which have no caller; what the backend makes
of a zone request; deletions of alerts on the board; alerts raised while the alerts page is open, and leaving that page.

Planned, in this order; each with its invariants proved where they do not depend on time:

1. `AnalysisJobs`: one job at a time, worker exit against kill, watcher, finalisation in one
   transaction, viewers, shutdown and the sweep of old files at start-up. `VideoAnalysis` takes
   a job as a record that only moves forward; this module would show it.
2. `EvidenceStore`: files and rows under concurrent upload, archive and delete, and the
   pipeline's clips (written, uploaded, verified, unlinked); abstract specification: every
   row has its file.
3. `FrameAnalysis`: tracks lost and reappearing, identities, cooldown of alerts, the
   score of the risk engine against its bounds.
4. `AcknowledgeRace` with `AuthLockout`: check-then-act on rows without a lock.
5. Proofs: with each of these modules its own. For the present ones, that an analysis that
   has ended makes no more requests, and that the socket's fallback polls only while it delivers
   nothing, which would be the safety half of `ResultArrives`.
