---------------------------- MODULE CameraStatus ----------------------------
(***************************************************************************)
(* The liveness status of the cameras and everybody who writes it: the     *)
(* background monitor (backend/services/camera_monitor.py), the handlers   *)
(* of frame_data (backend/websocket/stream.py) and the operators' REST     *)
(* requests (backend/routers/cameras.py).                                  *)
(*                                                                         *)
(* The monitor re-reads each row FOR UPDATE in the transaction that writes *)
(* it, so its transaction is one step.  The others read a row, await, and  *)
(* write it later without having locked it: two steps.  The ORM writes a   *)
(* column only if it differs from the value that was read.                 *)
(***************************************************************************)
EXTENDS Naturals, SequencesExt

CONSTANTS
  Cameras,
  MaxRequests,   \* bound: operators' requests in a behaviour
  MaxFlips,      \* bound: how often cameras go dark or come back
  MaxRestarts    \* bound: restarts of the backend process

ASSUME StatusAssumption ==
  /\ IsFiniteSet(Cameras)
  /\ MaxRequests \in Nat /\ MaxFlips \in Nat /\ MaxRestarts \in Nat

Status == {"online", "offline", "degraded"}
Kind == {"set_online", "set_offline", "set_degraded", "test", "delete"}
Verdict == {"open", "skip", "heartbeat", "probe_ok", "dead"}
Notice == [cam : Cameras, says : {"online", "offline"}]

VARIABLES
  row,         \* row[c]: the status column, "gone" once the row is deleted
  source,      \* source[c]: the row has an rtsp_url or a numeric device_id
  alerts,      \* alerts[c]: camera_offline alerts stored for c
  streamUp,    \* the environment: camera c is delivering frames
  beat,        \* runtime_state: "none", "fresh" (within the window), "stale"
  handler,     \* handler[c]: the frame_data handler of camera c
  monitor,     \* the monitor loop
  request,     \* the operators' request under way
  told,        \* told[c]: what the last notice to operators said of c
  requests, flips, restarts,     \* counters for the bounds
  outage,      \* history: alerts raised in the present outage of c
  decommissioned,                \* history: the cameras that were soft-deleted
  untold       \* history: cameras whose operators may not have been told the truth

dbVars == <<row, source, alerts, outage, decommissioned>>
vars == <<dbVars, streamUp, beat, handler, monitor, request, told, requests,
          flips, restarts, untold>>

NoFrame == [stage |-> "idle", seen |-> "online"]
Asleep == [stage |-> "sleeping", source |-> [c \in Cameras |-> FALSE],
           verdict |-> [c \in Cameras |-> "open"], news |-> <<>>]
NoRequest == [stage |-> "none"]

TypeOK ==
  /\ row \in [Cameras -> Status \cup {"gone"}]
  /\ source \in [Cameras -> BOOLEAN]
  /\ alerts \in [Cameras -> Nat]
  /\ streamUp \in [Cameras -> BOOLEAN]
  /\ beat \in [Cameras -> {"none", "fresh", "stale"}]
  /\ handler \in [Cameras -> [stage : {"idle", "read", "committed"},
                              seen : Status]]
  /\ monitor \in [stage : {"sleeping", "assessing", "notifying"},
                  source : [Cameras -> BOOLEAN],
                  verdict : [Cameras -> Verdict], news : Seq(Notice)]
  /\ request \in {NoRequest} \cup
       [stage : {"read", "committed"}, kind : Kind, cam : Cameras, seen : Status]
  /\ told \in [Cameras -> {"online", "offline"}]
  /\ requests \in Nat /\ flips \in Nat /\ restarts \in Nat
  /\ outage \in [Cameras -> Nat]
  /\ decommissioned \subseteq Cameras /\ untold \subseteq Cameras

Init ==
  /\ row = [c \in Cameras |-> "online"]
  /\ source \in [Cameras -> BOOLEAN]
  /\ alerts = [c \in Cameras |-> 0]
  /\ streamUp = [c \in Cameras |-> TRUE]
  /\ beat = [c \in Cameras |-> "none"]
  /\ handler = [c \in Cameras |-> NoFrame]
  /\ monitor = Asleep
  /\ request = NoRequest
  /\ told = [c \in Cameras |-> "online"]
  /\ requests = 0 /\ flips = 0 /\ restarts = 0
  /\ outage = [c \in Cameras |-> 0]
  /\ decommissioned = {} /\ untold = {}

-----------------------------------------------------------------------------
(* A notice about camera c is owed from the commit that changed c until it is *)
(* broadcast; a second change in that time can make the two cross.            *)

Owes(c) ==
  \/ handler[c].stage = "committed" /\ handler[c].seen = "offline"
  \/ \E i \in DOMAIN monitor.news : monitor.news[i].cam = c
  \/ request.stage = "committed" /\ request.cam = c

\* The cameras in C change status while a notice about them is owed
Crossing(C) == {c \in C : Owes(c)}

\* The status of c is written by somebody who read it as `seen`: operators may not
\* learn of the change if a notice crosses, or if the row was no longer as read
NotTold(c, seen) == Crossing({c}) \cup (IF row[c] = seen THEN {} ELSE {c})

-----------------------------------------------------------------------------
(* The cameras and the clock *)

Flip(c) ==
  /\ flips < MaxFlips /\ flips' = flips + 1
  /\ streamUp' = [streamUp EXCEPT ![c] = ~@]
  /\ UNCHANGED <<dbVars, beat, handler, monitor, request, told, requests,
                 restarts, untold>>

\* heartbeat_fresh_window_seconds pass without a frame; a camera that delivers
\* sends frames more often than that
HeartbeatAges(c) ==
  /\ beat[c] = "fresh" /\ ~streamUp[c] /\ handler[c] = NoFrame
  /\ beat' = [beat EXCEPT ![c] = "stale"]
  /\ UNCHANGED <<dbVars, streamUp, handler, monitor, request, told, requests,
                 flips, restarts, untold>>

-----------------------------------------------------------------------------
(* stream.handle_frame_data *)

FrameReads(c) ==
  /\ streamUp[c] /\ handler[c].stage = "idle" /\ row[c] # "gone"
  /\ handler' = [handler EXCEPT ![c] = [stage |-> "read", seen |-> row[c]]]
  /\ UNCHANGED <<dbVars, streamUp, beat, monitor, request, told, requests,
                 flips, restarts, untold>>

\* Mutant of FrameRevives: a degraded camera stays degraded
FrameRevivesOffline(c) == handler[c].seen = "offline"

FrameRevives(c) == handler[c].seen # "online"

\* The commit; an update of a row that is gone rolls the transaction back
FrameCommits(c) ==
  /\ handler[c].stage = "read"
  /\ IF row[c] = "gone"
     THEN /\ handler' = [handler EXCEPT ![c] = NoFrame]
          /\ UNCHANGED <<row, outage, untold>>
     ELSE /\ handler' = [handler EXCEPT ![c].stage = "committed"]
          /\ IF FrameRevives(c)
             THEN /\ row' = [row EXCEPT ![c] = "online"]
                  /\ outage' = [outage EXCEPT ![c] = 0]
                  /\ untold' = untold \cup NotTold(c, handler[c].seen)
             ELSE UNCHANGED <<row, outage, untold>>
  /\ UNCHANGED <<source, alerts, decommissioned, streamUp, beat, monitor,
                 request, told, requests, flips, restarts>>

\* record_frame, then broadcast_camera_online if the camera had been offline
FrameAnswers(c) ==
  /\ handler[c].stage = "committed"
  /\ beat' = [beat EXCEPT ![c] = "fresh"]
  /\ told' = IF handler[c].seen = "offline" THEN [told EXCEPT ![c] = "online"] ELSE told
  /\ handler' = [handler EXCEPT ![c] = NoFrame]
  /\ UNCHANGED <<dbVars, streamUp, monitor, request, requests, flips, restarts,
                 untold>>

-----------------------------------------------------------------------------
(* run_monitor_cycle *)

\* _load_snapshots; a camera without a row is not looked at
MonitorLoads ==
  /\ monitor.stage = "sleeping"
  /\ monitor' = [stage |-> "assessing", source |-> source,
                 verdict |-> [c \in Cameras |-> IF row[c] = "gone" THEN "skip" ELSE "open"],
                 news |-> <<>>]
  /\ UNCHANGED <<dbVars, streamUp, beat, handler, request, told, requests,
                 flips, restarts, untold>>

\* Mutant of Assessment: the age of the heartbeat is not looked at
AssessmentAnyBeat(c) ==
  CASE beat[c] # "none" -> "heartbeat"
    [] beat[c] = "none" /\ monitor.source[c] -> IF streamUp[c] THEN "probe_ok" ELSE "dead"
    [] OTHER -> "skip"

\* What _assess finds: the heartbeat first, then a probe, then a lost heartbeat
Assessment(c) ==
  CASE beat[c] = "fresh" -> "heartbeat"
    [] beat[c] # "fresh" /\ monitor.source[c] -> IF streamUp[c] THEN "probe_ok" ELSE "dead"
    [] beat[c] = "stale" /\ ~monitor.source[c] -> "dead"
    [] OTHER -> "skip"

\* _assess, for each camera at a moment of its own
MonitorAssesses(c) ==
  /\ monitor.stage = "assessing" /\ monitor.verdict[c] = "open"
  /\ monitor' = [monitor EXCEPT !.verdict[c] = Assessment(c)]
  /\ UNCHANGED <<dbVars, streamUp, beat, handler, request, told, requests,
                 flips, restarts, untold>>

\* Mutant of GoesOffline: the status of the re-read row is not looked at
GoesOfflineAgain(c) == monitor.verdict[c] = "dead" /\ row[c] # "gone"

GoesOffline(c) == monitor.verdict[c] = "dead" /\ row[c] \notin {"offline", "gone"}

ComesBack(c) == monitor.verdict[c] \in {"heartbeat", "probe_ok"} /\ row[c] = "offline"

Recovers(c) == monitor.verdict[c] = "probe_ok" /\ row[c] = "degraded"

Down == {c \in Cameras : GoesOffline(c)}
Back == {c \in Cameras : ComesBack(c)}

\* Mutant of NoticesOf: the transitions are not collected
NoNotices(C, says) == <<>>

NoticesOf(C, says) ==
  LET cams == SetToSeq(C) IN [i \in DOMAIN cams |-> [cam |-> cams[i], says |-> says]]

\* Every row is re-read and written in one transaction; the notices come after
\* its commit, the offline ones first
MonitorApplies ==
  /\ monitor.stage = "assessing"
  /\ \A c \in Cameras : monitor.verdict[c] # "open"
  /\ row' = [c \in Cameras |-> IF c \in Down THEN "offline"
                               ELSE IF c \in Back \/ Recovers(c) THEN "online" ELSE row[c]]
  /\ alerts' = [c \in Cameras |-> IF c \in Down THEN alerts[c] + 1 ELSE alerts[c]]
  /\ outage' = [c \in Cameras |-> IF c \in Down THEN outage[c] + 1
                                  ELSE IF c \in Back THEN 0 ELSE outage[c]]
  /\ untold' = untold \cup Crossing(Down \cup Back)
  /\ monitor' = [monitor EXCEPT !.stage = "notifying",
                   !.news = NoticesOf(Down, "offline") \o NoticesOf(Back, "online")]
  /\ UNCHANGED <<source, decommissioned, streamUp, beat, handler, request, told,
                 requests, flips, restarts>>

\* An exception before the commit: the cycle is abandoned, the loop goes on
MonitorFails ==
  /\ monitor.stage = "assessing"
  /\ monitor' = Asleep
  /\ UNCHANGED <<dbVars, streamUp, beat, handler, request, told, requests,
                 flips, restarts, untold>>

MonitorNotifies ==
  /\ monitor.stage = "notifying"
  /\ IF monitor.news = <<>>
     THEN monitor' = Asleep /\ UNCHANGED told
     ELSE /\ told' = [told EXCEPT ![Head(monitor.news).cam] = Head(monitor.news).says]
          /\ monitor' = [monitor EXCEPT !.news = Tail(@)]
  /\ UNCHANGED <<dbVars, streamUp, beat, handler, request, requests, flips,
                 restarts, untold>>

-----------------------------------------------------------------------------
(* update_camera_status, test_camera and delete_camera *)

\* ensure_camera_access reads the row, without a lock
RequestReads(c, k) ==
  /\ request = NoRequest /\ requests < MaxRequests
  /\ row[c] # "gone"
  /\ requests' = requests + 1
  /\ request' = [stage |-> "read", kind |-> k, cam |-> c, seen |-> row[c]]
  /\ UNCHANGED <<dbVars, streamUp, beat, handler, monitor, told, flips,
                 restarts, untold>>

\* Mutant of Written: the request's word is stored, not the status it stands for
WrittenAsSent(c, seen, new) == [row EXCEPT ![c] = request.kind]

\* The ORM's update of the status column: nothing if the value read was the same
Written(c, seen, new) == IF seen = new THEN row ELSE [row EXCEPT ![c] = new]

\* PATCH status = offline: mark_camera_offline, which raises an alert, unless the
\* row read was offline already
SetOfflineCommits ==
  /\ request.stage = "read" /\ request.kind = "set_offline"
  /\ LET c == request.cam IN
     /\ row[c] # "gone"
     /\ row' = Written(c, request.seen, "offline")
     /\ untold' = untold \cup NotTold(c, request.seen)
     /\ IF request.seen # "offline"
        THEN /\ alerts' = [alerts EXCEPT ![c] = @ + 1]
             /\ outage' = [outage EXCEPT ![c] = @ + 1]
             /\ request' = [request EXCEPT !.stage = "committed"]
        ELSE UNCHANGED <<alerts, outage>> /\ request' = NoRequest
  /\ UNCHANGED <<source, decommissioned, streamUp, beat, handler, monitor, told,
                 requests, flips, restarts>>

\* PATCH status = online or degraded
SetOtherCommits ==
  /\ request.stage = "read" /\ request.kind \in {"set_online", "set_degraded"}
  /\ LET c == request.cam
         new == IF request.kind = "set_online" THEN "online" ELSE "degraded"
     IN /\ row[c] # "gone"
        /\ row' = Written(c, request.seen, new)
        /\ untold' = untold \cup NotTold(c, request.seen)
                       \cup {d \in {c} : new = "degraded" /\ request.seen = "offline"}
        /\ outage' = IF request.seen = new THEN outage ELSE [outage EXCEPT ![c] = 0]
        /\ request' = IF new = "online" /\ request.seen = "offline"
                      THEN [request EXCEPT !.stage = "committed"] ELSE NoRequest
  /\ UNCHANGED <<source, alerts, decommissioned, streamUp, beat, handler,
                 monitor, told, requests, flips, restarts>>

\* GET test: a probe that connects makes the camera online; nobody is told
TestCommits ==
  /\ request.stage = "read" /\ request.kind = "test" /\ request' = NoRequest
  /\ LET c == request.cam IN
     IF source[c] /\ streamUp[c] /\ row[c] # "gone"
     THEN /\ row' = Written(c, request.seen, "online")
          /\ outage' = IF request.seen = "online" THEN outage ELSE [outage EXCEPT ![c] = 0]
          /\ untold' = IF request.seen = "online" THEN untold ELSE untold \cup {c}
     ELSE UNCHANGED <<row, outage, untold>>
  /\ UNCHANGED <<source, alerts, decommissioned, streamUp, beat, handler,
                 monitor, told, requests, flips, restarts>>

\* DELETE of a camera with alerts or events: it is decommissioned.  Nobody is told.
SoftDeleteCommits ==
  /\ request.stage = "read" /\ request.kind = "delete"
  /\ row[request.cam] # "gone" /\ request' = NoRequest
  /\ LET c == request.cam IN
     /\ row' = Written(c, request.seen, "offline")
     /\ source' = [source EXCEPT ![c] = FALSE]
     /\ beat' = [beat EXCEPT ![c] = "none"]
     /\ decommissioned' = decommissioned \cup {c}
     /\ untold' = untold \cup {c}
  /\ UNCHANGED <<alerts, outage, streamUp, handler, monitor, told, requests,
                 flips, restarts>>

\* DELETE of a camera without alerts or events; the foreign key makes it fail if
\* an alert was stored meanwhile
HardDeleteCommits ==
  /\ request.stage = "read" /\ request.kind = "delete"
  /\ row[request.cam] # "gone" /\ alerts[request.cam] = 0
  /\ request' = NoRequest
  /\ row' = [row EXCEPT ![request.cam] = "gone"]
  /\ beat' = [beat EXCEPT ![request.cam] = "none"]
  /\ UNCHANGED <<source, alerts, outage, decommissioned, streamUp, handler,
                 monitor, told, requests, flips, restarts, untold>>

\* The request fails or is refused (a denied access, evidence on file, a conflict)
RequestFails ==
  /\ request.stage = "read" /\ request' = NoRequest
  /\ UNCHANGED <<dbVars, streamUp, beat, handler, monitor, told, requests,
                 flips, restarts, untold>>

\* notify_offline, or broadcast_camera_online
RequestNotifies ==
  /\ request.stage = "committed" /\ request' = NoRequest
  /\ told' = [told EXCEPT ![request.cam] =
                IF request.kind = "set_offline" THEN "offline" ELSE "online"]
  /\ UNCHANGED <<dbVars, streamUp, beat, handler, monitor, requests, flips,
                 restarts, untold>>

-----------------------------------------------------------------------------
\* The process stops and starts again: the heartbeats are gone, and the notices
\* that were still owed are never sent
BackendRestarts ==
  /\ restarts < MaxRestarts /\ restarts' = restarts + 1
  /\ beat' = [c \in Cameras |-> "none"]
  /\ handler' = [c \in Cameras |-> NoFrame]
  /\ monitor' = Asleep
  /\ request' = NoRequest
  /\ untold' = untold \cup Crossing(Cameras)
  /\ UNCHANGED <<dbVars, streamUp, told, requests, flips>>

Frames == \E c \in Cameras : FrameReads(c) \/ FrameCommits(c) \/ FrameAnswers(c)

MonitorCycle ==
  \/ MonitorLoads \/ MonitorApplies \/ MonitorFails \/ MonitorNotifies
  \/ \E c \in Cameras : MonitorAssesses(c)

Operators ==
  \/ \E c \in Cameras, k \in Kind : RequestReads(c, k)
  \/ SetOfflineCommits \/ SetOtherCommits \/ TestCommits
  \/ SoftDeleteCommits \/ HardDeleteCommits \/ RequestFails \/ RequestNotifies

Environment == BackendRestarts \/ \E c \in Cameras : Flip(c) \/ HeartbeatAges(c)

Next == Frames \/ MonitorCycle \/ Operators \/ Environment

\* The monitor's loop never ends and its cycles do not fail for ever, a camera
\* that delivers keeps sending frames, time passes, requests are finished.
Fairness ==
  /\ WF_vars(MonitorLoads) /\ SF_vars(MonitorApplies) /\ WF_vars(MonitorNotifies)
  /\ \A c \in Cameras :
       /\ SF_vars(MonitorAssesses(c)) /\ WF_vars(HeartbeatAges(c))
       /\ WF_vars(FrameReads(c) \/ FrameCommits(c) \/ FrameAnswers(c))
  /\ WF_vars(request # NoRequest /\ Operators)

Spec == Init /\ [][Next]_vars /\ Fairness

-----------------------------------------------------------------------------
(* Properties *)

Quiet(c) == ~Owes(c) /\ handler[c] = NoFrame

\* Every outage that operators are expected to see has an alert, and the monitor,
\* racing frames and operators, does not add a second one (camera_monitor.py
\* re-reads the row under a lock before it acts on an old assessment): more than
\* one alert in an outage takes a PATCH that read the row before the outage.
OutageAlerted ==
  \A c \in Cameras : row[c] = "offline" =>
    /\ outage[c] = 0 => c \in decommissioned
    /\ outage[c] <= 1 + requests

\* Once the notices are out, operators have last been told what the database says,
\* unless two notices about the camera could cross, one was lost in a restart, its
\* status was written from a stale read, or changed by a request that tells nobody
\* (test, delete, offline to degraded).
ToldTheTruth ==
  \A c \in Cameras \ untold :
    Quiet(c) /\ row[c] # "gone" => (told[c] = "offline" <=> row[c] = "offline")

\* A camera that has gone dark for good, and that has a stream source or a heartbeat
\* on file, ends up offline and stays so, whatever frames, assessments and
\* operators were under way.
Watched(c) == source[c] \/ beat[c] # "none"
DarkCameraFlagged ==
  \A c \in Cameras :
    <>[](~streamUp[c] /\ Watched(c)) => <>[](row[c] \in {"offline", "gone"})

\* A camera that delivers for good ends up online and stays so.
LiveCameraOnline ==
  \A c \in Cameras : <>[](streamUp[c]) => <>[](row[c] \in {"online", "gone"})

\* camera_monitor.py:7: "cameras with no stream source that previously sent frames
\* are marked offline when the heartbeat goes stale".
SilentCameraFlagged ==
  \A c \in Cameras :
    <>[](~streamUp[c]) /\ <>(beat[c] = "fresh") => <>(row[c] \in {"offline", "gone"})
=============================================================================
