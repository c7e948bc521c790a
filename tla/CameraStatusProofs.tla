------------------------- MODULE CameraStatusProofs -------------------------
(***************************************************************************)
(* Proofs about CameraStatus, for any cameras and any number of requests,  *)
(* flips and restarts: types, one alert per outage save for stale reads,   *)
(* and notices that agree with the database.                               *)
(*                                                                         *)
(* Two histories carry it.  A request that can have added an alert is      *)
(* counted when its transaction is over; and every notice that is owed     *)
(* says what the row says, unless the camera is in `untold`, so that the   *)
(* last one sent does so too once none is owed.                            *)
(***************************************************************************)
EXTENDS CameraStatus, FiniteSetTheorems, TLAPS

-----------------------------------------------------------------------------
(* The notices of one transaction *)

\* A finite set made a sequence has its members, each at some place.
LEMMA SetToSeqMembers ==
  ASSUME NEW S, IsFiniteSet(S)
  PROVE  /\ SetToSeq(S) \in Seq(S)
         /\ \A x \in S : \E i \in DOMAIN SetToSeq(S) : SetToSeq(S)[i] = x
<1> DEFINE n == Cardinality(S)
<1>1. n \in Nat /\ ExistsBijection(1..n, S)
  BY FS_CardinalityType
<1>2. PICK f \in Bijection(1..n, S) : TRUE
  BY <1>1 DEF ExistsBijection
<1>3. f \in [1..n -> S] /\ IsInjective(f)
  BY <1>2 DEF Bijection, Injection
<1>4. SetToSeq(S) \in [1..n -> S] /\ IsInjective(SetToSeq(S))
  BY <1>3 DEF SetToSeq
<1>5. SetToSeq(S) \in Injection(1..n, S)
  BY <1>4 DEF Injection
<1>6. IsFiniteSet(1..n) /\ Cardinality(1..n) = n
  BY <1>1, FS_Interval
<1>7. SetToSeq(S) \in Surjection(1..n, S)
  BY <1>5, <1>6, FS_Injection
<1> QED
  BY <1>1, <1>4, <1>7 DEF Surjection

\* The notices about the cameras of a set: one for each, of these words.
LEMMA NoticesOfProperties ==
  ASSUME NEW C \in SUBSET Cameras, NEW says \in {"online", "offline"}
  PROVE  /\ NoticesOf(C, says) \in Seq(Notice)
         /\ \A i \in DOMAIN NoticesOf(C, says) :
              NoticesOf(C, says)[i].cam \in C /\ NoticesOf(C, says)[i].says = says
         /\ \A c \in C : \E i \in DOMAIN NoticesOf(C, says) : NoticesOf(C, says)[i].cam = c
<1>1. IsFiniteSet(C)
  BY StatusAssumption, FS_Subset
<1> DEFINE q == SetToSeq(C)
<1>2. q \in Seq(C) /\ \A x \in C : \E i \in DOMAIN q : q[i] = x
  BY <1>1, SetToSeqMembers
<1>3. NoticesOf(C, says) = [i \in DOMAIN q |-> [cam |-> q[i], says |-> says]]
  BY DEF NoticesOf
<1> HIDE DEF q
<1>4. NoticesOf(C, says) \in [1..Len(q) -> Notice]
  BY <1>2, <1>3 DEF Notice
<1> QED
  BY <1>2, <1>3, <1>4

-----------------------------------------------------------------------------
(* The inductive invariant *)

\* News is there only to be told, and a request under way has been counted.
Stages ==
  /\ monitor.stage # "notifying" => monitor.news = <<>>
  /\ request.stage = "read" => requests >= 1

\* The requests that can have added an alert by now.
Counted == IF request.stage = "read" THEN requests - 1 ELSE requests

\* An outage begins with a camera that has none.
OutageCounted(c) ==
  /\ row[c] \in {"online", "degraded"} => outage[c] = 0
  /\ row[c] = "offline" => /\ outage[c] = 0 => c \in decommissioned
                           /\ outage[c] <= 1 + Counted

\* Every notice that is owed says what the row says, and if none is the last did.
Truth(c) ==
  row[c] # "gone" =>
    /\ handler[c].stage = "committed" /\ handler[c].seen = "offline" => row[c] # "offline"
    /\ \A i \in DOMAIN monitor.news :
         monitor.news[i].cam = c => (monitor.news[i].says = "offline" <=> row[c] = "offline")
    /\ request.stage = "committed" /\ request.cam = c =>
         (request.kind = "set_offline" <=> row[c] = "offline")
    /\ ~Owes(c) => (told[c] = "offline" <=> row[c] = "offline")

IInv ==
  /\ TypeOK /\ Stages
  /\ \A c \in Cameras : OutageCounted(c)
  /\ \A c \in Cameras \ untold : Truth(c)

-----------------------------------------------------------------------------
(* Types *)

LEMMA NoNews == <<>> \in Seq(Notice)
  OBVIOUS

\* Who may not have been told is a camera.
LEMMA NotToldCameras ==
  ASSUME NEW c \in Cameras, NEW seen
  PROVE  NotTold(c, seen) \subseteq Cameras
BY DEF NotTold, Crossing

\* A request that has been read is about a camera, and is one of the kinds.
LEMMA RequestType ==
  ASSUME TypeOK, request.stage \in {"read", "committed"}
  PROVE  /\ request \in [stage : {"read", "committed"}, kind : Kind, cam : Cameras, seen : Status]
         /\ request.cam \in Cameras /\ request.seen \in Status
BY DEF TypeOK, NoRequest

\* A request whose transaction is committed.
LEMMA RequestCommitted ==
  ASSUME TypeOK, request.stage = "read"
  PROVE  /\ [request EXCEPT !.stage = "committed"] \in
              [stage : {"read", "committed"}, kind : Kind, cam : Cameras, seen : Status]
         /\ [request EXCEPT !.stage = "committed"].stage = "committed"
<1>1. request \in [stage : {"read", "committed"}, kind : Kind, cam : Cameras, seen : Status]
  BY RequestType
<1> QED
  BY <1>1

\* A frame's handler whose transaction is over.
LEMMA HandlerType ==
  ASSUME TypeOK, NEW c \in Cameras
  PROVE  /\ [handler EXCEPT ![c] = NoFrame] \in
              [Cameras -> [stage : {"idle", "read", "committed"}, seen : Status]]
         /\ [handler EXCEPT ![c].stage = "committed"] \in
              [Cameras -> [stage : {"idle", "read", "committed"}, seen : Status]]
<1>1. handler \in [Cameras -> [stage : {"idle", "read", "committed"}, seen : Status]]
  BY DEF TypeOK
<1>2. NoFrame \in [stage : {"idle", "read", "committed"}, seen : Status]
  BY DEF NoFrame, Status
<1>3. [handler[c] EXCEPT !.stage = "committed"] \in
        [stage : {"idle", "read", "committed"}, seen : Status]
  BY <1>1
<1> QED
  BY <1>1, <1>2, <1>3

\* What a request writes is a table of statuses.
LEMMA WrittenType ==
  ASSUME TypeOK, NEW c \in Cameras, NEW seen, NEW new \in Status
  PROVE  Written(c, seen, new) \in [Cameras -> Status \cup {"gone"}]
BY DEF TypeOK, Written

\* Every step leaves values of the variables' types, and the stages' meaning.
LEMMA TypesKept ==
  ASSUME TypeOK, Stages, Next
  PROVE  TypeOK' /\ Stages'
<1> USE DEF TypeOK, Stages, dbVars
<1>0. /\ row \in [Cameras -> Status \cup {"gone"}] /\ outage \in [Cameras -> Nat]
      /\ alerts \in [Cameras -> Nat] /\ untold \subseteq Cameras
  OBVIOUS
<1>1. ASSUME NEW c \in Cameras, Flip(c) \/ HeartbeatAges(c) PROVE TypeOK' /\ Stages'
  <2>1. CASE Flip(c)
    BY <2>1 DEF Flip
  <2>2. CASE HeartbeatAges(c)
    BY <2>2 DEF HeartbeatAges
  <2> QED
    BY <1>1, <2>1, <2>2
<1>2. ASSUME NEW c \in Cameras, FrameReads(c) PROVE TypeOK' /\ Stages'
  BY <1>2 DEF FrameReads, Status
<1>17. ASSUME NEW c \in Cameras, FrameAnswers(c) PROVE TypeOK' /\ Stages'
  BY <1>17 DEF FrameAnswers, NoFrame, Status
<1>3. ASSUME NEW c \in Cameras, FrameCommits(c) PROVE TypeOK' /\ Stages'
  <2> HIDE DEF TypeOK, Stages
  <2>1. handler' \in [Cameras -> [stage : {"idle", "read", "committed"}, seen : Status]]
    <3>1. \/ handler' = [handler EXCEPT ![c] = NoFrame]
          \/ handler' = [handler EXCEPT ![c].stage = "committed"]
      BY <1>3 DEF FrameCommits
    <3> QED
      BY <3>1, HandlerType
  <2>2. row' \in [Cameras -> Status \cup {"gone"}] /\ outage' \in [Cameras -> Nat]
    <3>1. \/ UNCHANGED <<row, outage>>
          \/ row' = [row EXCEPT ![c] = "online"] /\ outage' = [outage EXCEPT ![c] = 0]
      BY <1>3 DEF FrameCommits
    <3> QED
      BY <1>0, <3>1 DEF Status
  <2>3. untold' \subseteq Cameras
    BY <1>0, <1>3, NotToldCameras DEF FrameCommits
  <2>4. UNCHANGED <<source, alerts, decommissioned, streamUp, beat, monitor,
                    request, told, requests, flips, restarts>>
    BY <1>3 DEF FrameCommits
  <2> QED
    BY <2>1, <2>2, <2>3, <2>4 DEF TypeOK, Stages
<1>4. CASE MonitorLoads
  BY <1>4, NoNews DEF MonitorLoads, Verdict
<1>5. ASSUME NEW c \in Cameras, MonitorAssesses(c) PROVE TypeOK' /\ Stages'
  <2>1. Assessment(c) \in Verdict
    BY DEF Assessment, Verdict
  <2> QED
    BY <1>5, <2>1 DEF MonitorAssesses
<1>6. CASE MonitorApplies
  <2>1. Down \in SUBSET Cameras /\ Back \in SUBSET Cameras
    BY DEF Down, Back
  <2>2. NoticesOf(Down, "offline") \o NoticesOf(Back, "online") \in Seq(Notice)
    BY <2>1, NoticesOfProperties
  <2>3. row' \in [Cameras -> Status \cup {"gone"}] /\ alerts' \in [Cameras -> Nat]
        /\ outage' \in [Cameras -> Nat]
    BY <1>6 DEF MonitorApplies, Status
  <2>4. monitor' \in [stage : {"sleeping", "assessing", "notifying"},
                      source : [Cameras -> BOOLEAN],
                      verdict : [Cameras -> Verdict], news : Seq(Notice)]
        /\ monitor'.stage = "notifying"
    BY <1>6, <2>2 DEF MonitorApplies
  <2> QED
    BY <1>6, <2>3, <2>4 DEF MonitorApplies, Crossing, Down, Back
<1>7. CASE MonitorFails
  BY <1>7, NoNews DEF MonitorFails, Asleep, Verdict
<1>8. CASE MonitorNotifies
  <2>1. CASE monitor.news = <<>>
    <3>1. monitor' = Asleep /\ UNCHANGED <<told, request, requests>>
      BY <1>8, <2>1 DEF MonitorNotifies
    <3> QED
      BY <1>8, <3>1, NoNews DEF MonitorNotifies, Asleep, Verdict
  <2>2. CASE monitor.news # <<>>
    <3>1. Head(monitor.news) \in Notice /\ Tail(monitor.news) \in Seq(Notice)
      BY <2>2
    <3> QED
      BY <1>8, <2>2, <3>1 DEF MonitorNotifies, Notice
  <2> QED
    BY <2>1, <2>2
<1>9. ASSUME NEW c \in Cameras, NEW k \in Kind, RequestReads(c, k) PROVE TypeOK' /\ Stages'
  BY <1>9 DEF RequestReads
<1>10. CASE SetOfflineCommits
  <2> HIDE DEF TypeOK, Stages
  <2>1. request.stage = "read" /\ request.cam \in Cameras /\ request.seen \in Status
    BY <1>10, RequestType DEF SetOfflineCommits
  <2>2. request' = NoRequest \/ request' = [request EXCEPT !.stage = "committed"]
    BY <1>10 DEF SetOfflineCommits
  <2>3. /\ request' \in {NoRequest} \cup
             [stage : {"read", "committed"}, kind : Kind, cam : Cameras, seen : Status]
        /\ request'.stage # "read"
    <3>1. CASE request' = NoRequest
      BY <3>1 DEF NoRequest
    <3>2. CASE request' = [request EXCEPT !.stage = "committed"]
      BY <2>1, <3>2, RequestCommitted
    <3> QED
      BY <2>2, <3>1, <3>2
  <2>4. row' \in [Cameras -> Status \cup {"gone"}]
    BY <1>10, <2>1, WrittenType DEF SetOfflineCommits, Status
  <2>5. outage' \in [Cameras -> Nat] /\ alerts' \in [Cameras -> Nat]
    <3>1. \/ UNCHANGED <<outage, alerts>>
          \/ /\ outage' = [outage EXCEPT ![request.cam] = @ + 1]
             /\ alerts' = [alerts EXCEPT ![request.cam] = @ + 1]
      BY <1>10 DEF SetOfflineCommits
    <3> QED
      BY <1>0, <2>1, <3>1
  <2>6. untold' \subseteq Cameras
    BY <1>0, <1>10, <2>1, NotToldCameras DEF SetOfflineCommits
  <2>7. UNCHANGED <<source, decommissioned, streamUp, beat, handler, monitor, told,
                    requests, flips, restarts>>
    BY <1>10 DEF SetOfflineCommits
  <2> QED
    BY <2>3, <2>4, <2>5, <2>6, <2>7 DEF TypeOK, Stages
<1>11. CASE SetOtherCommits
  <2> HIDE DEF TypeOK, Stages
  <2>1. request.stage = "read" /\ request.cam \in Cameras /\ request.seen \in Status
    BY <1>11, RequestType DEF SetOtherCommits
  <2>2. request' = NoRequest \/ request' = [request EXCEPT !.stage = "committed"]
    BY <1>11 DEF SetOtherCommits
  <2>3. /\ request' \in {NoRequest} \cup
             [stage : {"read", "committed"}, kind : Kind, cam : Cameras, seen : Status]
        /\ request'.stage # "read"
    <3>1. CASE request' = NoRequest
      BY <3>1 DEF NoRequest
    <3>2. CASE request' = [request EXCEPT !.stage = "committed"]
      BY <2>1, <3>2, RequestCommitted
    <3> QED
      BY <2>2, <3>1, <3>2
  <2>4. row' \in [Cameras -> Status \cup {"gone"}]
    BY <1>11, <2>1, WrittenType DEF SetOtherCommits, Status
  <2>5. outage' \in [Cameras -> Nat]
    BY <1>0, <1>11, <2>1 DEF SetOtherCommits
  <2>6. untold' \subseteq Cameras
    BY <1>0, <1>11, <2>1, NotToldCameras DEF SetOtherCommits
  <2>7. UNCHANGED <<source, alerts, decommissioned, streamUp, beat, handler,
                    monitor, told, requests, flips, restarts>>
    BY <1>11 DEF SetOtherCommits
  <2> QED
    BY <2>3, <2>4, <2>5, <2>6, <2>7 DEF TypeOK, Stages
<1>12. CASE TestCommits
  <2> HIDE DEF TypeOK, Stages
  <2>1. request.stage = "read" /\ request.cam \in Cameras /\ request' = NoRequest
    BY <1>12, RequestType DEF TestCommits
  <2>2. row' \in [Cameras -> Status \cup {"gone"}]
    BY <1>0, <1>12, <2>1, WrittenType DEF TestCommits, Status
  <2>3. outage' \in [Cameras -> Nat] /\ untold' \subseteq Cameras
    <3>1. outage' = outage \/ outage' = [outage EXCEPT ![request.cam] = 0]
      BY <1>12 DEF TestCommits
    <3>2. untold' = untold \/ untold' = untold \cup {request.cam}
      BY <1>12 DEF TestCommits
    <3> QED
      BY <1>0, <2>1, <3>1, <3>2
  <2>4. UNCHANGED <<source, alerts, decommissioned, streamUp, beat, handler,
                    monitor, told, requests, flips, restarts>>
    BY <1>12 DEF TestCommits
  <2> QED
    BY <2>1, <2>2, <2>3, <2>4 DEF TypeOK, Stages, NoRequest
<1>13. CASE SoftDeleteCommits
  <2>1. request.stage = "read" /\ request.cam \in Cameras /\ request' = NoRequest
    BY <1>13, RequestType DEF SoftDeleteCommits
  <2>2. row' \in [Cameras -> Status \cup {"gone"}]
    BY <1>13, <2>1, WrittenType DEF SoftDeleteCommits, Status
  <2> QED
    BY <1>13, <2>1, <2>2 DEF SoftDeleteCommits, NoRequest
<1>14. CASE HardDeleteCommits \/ RequestFails
  BY <1>14 DEF HardDeleteCommits, RequestFails, NoRequest
<1>15. CASE RequestNotifies
  BY <1>15 DEF RequestNotifies, NoRequest
<1>16. CASE BackendRestarts
  BY <1>16, NoNews DEF BackendRestarts, Asleep, Verdict, NoFrame, NoRequest, Crossing, Status
<1> QED
  BY <1>1, <1>2, <1>17, <1>3, <1>4, <1>5, <1>6, <1>7, <1>8, <1>9, <1>10, <1>11, <1>12, <1>13,
     <1>14, <1>15, <1>16 DEF Next, Frames, MonitorCycle, Operators, Environment

-----------------------------------------------------------------------------
(* The alerts of an outage *)

\* No step takes back a request that is counted.
LEMMA CountGrows ==
  ASSUME TypeOK, Stages, Next
  PROVE  Counted \in Nat /\ Counted' \in Nat /\ Counted' >= Counted
<1>1. requests \in Nat /\ (request.stage = "read" => requests >= 1)
  BY DEF TypeOK, Stages
<1>2. \/ requests' = requests /\ request' \in {request, NoRequest}
      \/ requests' = requests /\ request' = [request EXCEPT !.stage = "committed"]
         /\ request.stage = "read"
      \/ requests' = requests + 1 /\ request.stage = "none" /\ request'.stage = "read"
  BY DEF Next, Frames, MonitorCycle, Operators, Environment, FrameReads, FrameCommits,
     FrameAnswers, MonitorLoads, MonitorAssesses, MonitorApplies, MonitorFails,
     MonitorNotifies, RequestReads, SetOfflineCommits, SetOtherCommits, TestCommits,
     SoftDeleteCommits, HardDeleteCommits, RequestFails, RequestNotifies,
     BackendRestarts, Flip, HeartbeatAges, NoRequest, dbVars
<1>3. request.stage = "read" => [request EXCEPT !.stage = "committed"].stage = "committed"
  BY RequestCommitted
<1> QED
  BY <1>1, <1>2, <1>3 DEF Counted, NoRequest

\* A request that writes has been counted for the last time as one under way.
LEMMA CountOfWrite ==
  ASSUME TypeOK, Stages, request.stage = "read", requests' = requests,
         request' = NoRequest \/ request' = [request EXCEPT !.stage = "committed"]
  PROVE  Counted \in Nat /\ Counted' = Counted + 1
<1>1. requests \in Nat /\ requests >= 1
  BY DEF TypeOK, Stages
<1>2. request'.stage # "read"
  BY RequestCommitted DEF NoRequest
<1> QED
  BY <1>1, <1>2 DEF Counted

LEMMA CountKept ==
  ASSUME TypeOK, Stages, Next, NEW d \in Cameras, OutageCounted(d)
  PROVE  OutageCounted(d)'
<1>1. /\ row \in [Cameras -> Status \cup {"gone"}] /\ outage \in [Cameras -> Nat]
  BY DEF TypeOK
<1>2. Counted \in Nat /\ Counted' \in Nat /\ Counted' >= Counted
  BY CountGrows
<1> USE DEF OutageCounted
<1>3. ASSUME row'[d] = row[d], outage'[d] = outage[d], decommissioned \subseteq decommissioned'
      PROVE  OutageCounted(d)'
  BY <1>1, <1>2, <1>3
<1>4. ASSUME row'[d] \in {"online", "degraded"}, outage'[d] = 0 PROVE OutageCounted(d)'
  BY <1>4
<1>5. CASE UNCHANGED dbVars
  BY <1>3, <1>5 DEF dbVars
<1>6. ASSUME NEW c \in Cameras, FrameCommits(c) PROVE OutageCounted(d)'
  <2>1. \/ UNCHANGED <<row, outage>>
        \/ row' = [row EXCEPT ![c] = "online"] /\ outage' = [outage EXCEPT ![c] = 0]
    BY <1>6 DEF FrameCommits
  <2>2. decommissioned' = decommissioned
    BY <1>6 DEF FrameCommits
  <2> QED
    BY <1>1, <1>3, <1>4, <2>1, <2>2
<1>7. CASE MonitorApplies
  <2>1. decommissioned' = decommissioned
    BY <1>7 DEF MonitorApplies
  <2>2. CASE d \in Down
    <3>1. row'[d] = "offline" /\ outage'[d] = outage[d] + 1 /\ row[d] \in {"online", "degraded"}
      BY <1>1, <1>7, <2>2 DEF MonitorApplies, Down, GoesOffline, Status
    <3> QED
      BY <1>1, <1>2, <3>1
  <2>3. CASE d \in Back
    <3>1. row'[d] = "online" /\ outage'[d] = 0
      BY <1>7, <2>3 DEF MonitorApplies, Down, Back, GoesOffline, ComesBack
    <3> QED
      BY <1>4, <3>1
  <2>4. CASE d \notin Down /\ d \notin Back
    <3>1. outage'[d] = outage[d]
      BY <1>7, <2>4 DEF MonitorApplies
    <3>2. CASE Recovers(d)
      <4>1. row'[d] = "online" /\ row[d] = "degraded"
        BY <1>7, <2>4, <3>2 DEF MonitorApplies, Recovers
      <4> QED
        BY <1>4, <3>1, <4>1
    <3>3. CASE ~Recovers(d)
      <4>1. row'[d] = row[d]
        BY <1>7, <2>4, <3>3 DEF MonitorApplies
      <4> QED
        BY <1>3, <2>1, <3>1, <4>1
    <3> QED
      BY <3>2, <3>3
  <2> QED
    BY <2>2, <2>3, <2>4
<1>8. CASE SetOfflineCommits
  <2>1. request.cam \in Cameras /\ request.seen \in Status
    BY <1>8, RequestType DEF SetOfflineCommits
  <2>2. Counted' = Counted + 1
    BY <1>8, CountOfWrite DEF SetOfflineCommits
  <2>3. decommissioned' = decommissioned
    BY <1>8 DEF SetOfflineCommits
  <2>4. CASE request.seen = "offline"
    <3>1. row' = row /\ outage' = outage
      BY <1>8, <2>4 DEF SetOfflineCommits, Written
    <3> QED
      BY <1>3, <2>3, <3>1
  <2>5. CASE request.seen # "offline"
    <3>1. /\ row' = [row EXCEPT ![request.cam] = "offline"]
          /\ outage' = [outage EXCEPT ![request.cam] = @ + 1]
          /\ row[request.cam] # "gone"
      BY <1>8, <2>5 DEF SetOfflineCommits, Written
    <3>2. CASE d = request.cam
      <4>1. row'[d] = "offline" /\ outage'[d] = outage[d] + 1 /\ row[d] \in Status
        BY <1>1, <3>1, <3>2
      <4>2. outage[d] \in Nat /\ outage[d] <= 1 + Counted
        BY <1>1, <1>2, <4>1 DEF Status
      <4> QED
        BY <1>2, <2>2, <4>1, <4>2
    <3>3. CASE d # request.cam
      BY <1>1, <1>3, <2>1, <2>3, <3>1, <3>3
    <3> QED
      BY <3>2, <3>3
  <2> QED
    BY <2>4, <2>5
<1>9. CASE SetOtherCommits \/ TestCommits
  <2>1. request.cam \in Cameras
    BY <1>9, RequestType DEF SetOtherCommits, TestCommits
  <2>2. decommissioned' = decommissioned
    BY <1>9 DEF SetOtherCommits, TestCommits
  <2>3. \/ UNCHANGED <<row, outage>>
        \/ \E new \in {"online", "degraded"} :
             /\ row' = [row EXCEPT ![request.cam] = new]
             /\ outage' = [outage EXCEPT ![request.cam] = 0]
    BY <1>9 DEF SetOtherCommits, TestCommits, Written
  <2> QED
    BY <1>1, <1>3, <1>4, <2>1, <2>2, <2>3
<1>10. CASE SoftDeleteCommits
  <2>1. request.cam \in Cameras /\ outage' = outage
        /\ decommissioned' = decommissioned \cup {request.cam}
    BY <1>10, RequestType DEF SoftDeleteCommits
  <2>2. row[request.cam] # "gone"
        /\ (row' = row \/ row' = [row EXCEPT ![request.cam] = "offline"])
    BY <1>10 DEF SoftDeleteCommits, Written
  <2>3. CASE row' = row \/ d # request.cam
    BY <1>1, <1>3, <2>1, <2>2, <2>3
  <2>4. CASE d = request.cam /\ row' = [row EXCEPT ![request.cam] = "offline"]
    <3>1. row'[d] = "offline" /\ d \in decommissioned' /\ outage'[d] = outage[d]
      BY <1>1, <2>1, <2>4
    <3>2. outage[d] \in Nat /\ outage[d] <= 1 + Counted
      BY <1>1, <1>2, <2>2, <2>4 DEF Status
    <3> QED
      BY <1>2, <3>1, <3>2
  <2> QED
    BY <2>2, <2>3, <2>4
<1>11. CASE HardDeleteCommits
  <2>1. request.cam \in Cameras
    BY <1>11, RequestType DEF HardDeleteCommits
  <2>2. /\ row' = [row EXCEPT ![request.cam] = "gone"]
        /\ outage' = outage /\ decommissioned' = decommissioned
    BY <1>11 DEF HardDeleteCommits
  <2> QED
    BY <1>1, <1>3, <2>1, <2>2
<1> QED
  BY <1>5, <1>6, <1>7, <1>8, <1>9, <1>10, <1>11
  DEF Next, Frames, MonitorCycle, Operators, Environment, FrameReads, FrameAnswers,
      MonitorLoads, MonitorAssesses, MonitorFails, MonitorNotifies, RequestReads,
      RequestFails, RequestNotifies, BackendRestarts, Flip, HeartbeatAges

-----------------------------------------------------------------------------
(* What operators were told *)

LEMMA UntoldGrows ==
  ASSUME Next
  PROVE  untold \subseteq untold'
BY DEF Next, Frames, MonitorCycle, Operators, Environment, FrameReads, FrameCommits,
   FrameAnswers, MonitorLoads, MonitorAssesses, MonitorApplies, MonitorFails,
   MonitorNotifies, RequestReads, SetOfflineCommits, SetOtherCommits, TestCommits,
   SoftDeleteCommits, HardDeleteCommits, RequestFails, RequestNotifies,
   BackendRestarts, Flip, HeartbeatAges, dbVars

\* The writer of a status whose change need not go untold read it as it is, and no
\* notice about the camera is owed.
LEMMA ToldOf ==
  ASSUME NEW d \in Cameras, NEW seen, d \notin NotTold(d, seen)
  PROVE  ~Owes(d) /\ row[d] = seen
BY DEF NotTold, Crossing

\* A step after which the row is as much offline as before, and the same is owed.
LEMMA TruthSame ==
  ASSUME NEW d \in Cameras, Truth(d),
         row'[d] # "gone" => row[d] # "gone",
         row'[d] = "offline" <=> row[d] = "offline",
         told'[d] = told[d], monitor'.news = monitor.news,
         handler'[d].stage = "committed" /\ handler'[d].seen = "offline"
           <=> handler[d].stage = "committed" /\ handler[d].seen = "offline",
         \/ request' = request
         \/ /\ ~(request.stage = "committed" /\ request.cam = d)
            /\ ~(request'.stage = "committed" /\ request'.cam = d)
  PROVE  Truth(d)'
BY DEF Truth, Owes

\* The broadcast of the first notice on the monitor's list.
LEMMA TruthNotified ==
  ASSUME TypeOK, NEW d \in Cameras, Truth(d), MonitorNotifies
  PROVE  Truth(d)'
<1>1. monitor.news \in Seq(Notice) /\ told \in [Cameras -> {"online", "offline"}]
  BY DEF TypeOK
<1>2. UNCHANGED <<row, handler, request>>
  BY DEF MonitorNotifies, dbVars
<1>3. CASE monitor.news = <<>>
  <2>1. monitor'.news = monitor.news /\ told' = told
    BY <1>3 DEF MonitorNotifies, Asleep
  <2> QED
    BY <1>2, <2>1, TruthSame
<1>4. CASE monitor.news # <<>>
  <2> DEFINE news == monitor.news  h == Head(monitor.news)
  <2>1. monitor'.news = Tail(news) /\ told' = [told EXCEPT ![h.cam] = h.says]
    <3>1. monitor' = [monitor EXCEPT !.news = Tail(news)]
      BY <1>4 DEF MonitorNotifies
    <3>2. told' = [told EXCEPT ![h.cam] = h.says]
      BY <1>4 DEF MonitorNotifies
    <3>3. monitor \in [stage : {"sleeping", "assessing", "notifying"},
                       source : [Cameras -> BOOLEAN],
                       verdict : [Cameras -> Verdict], news : Seq(Notice)]
      BY DEF TypeOK
    <3> HIDE DEF news, h
    <3>4. monitor'.news = Tail(news)
      BY <3>1, <3>3
    <3> QED
      BY <3>2, <3>4
  <2>2. h = news[1] /\ 1 \in DOMAIN news /\ h.cam \in Cameras
    <3>1. h = news[1] /\ 1 \in DOMAIN news
      BY <1>1, <1>4
    <3>2. news[1] \in Notice
      BY <1>1, <1>4
    <3> QED
      BY <3>1, <3>2 DEF Notice
  <2>3. \A i \in DOMAIN Tail(news) : i + 1 \in DOMAIN news /\ Tail(news)[i] = news[i + 1]
    BY <1>1, <1>4
  <2>4. \A i \in DOMAIN news : i = 1 \/ (i - 1 \in DOMAIN Tail(news) /\ Tail(news)[i - 1] = news[i])
    BY <1>1, <1>4
  <2> HIDE DEF news, h
  <2>5. SUFFICES ASSUME row[d] # "gone" PROVE Truth(d)'
    BY <1>2 DEF Truth
  <2>6. \A i \in DOMAIN news :
          news[i].cam = d => (news[i].says = "offline" <=> row[d] = "offline")
    BY <2>5 DEF Truth, news
  <2>7. \A i \in DOMAIN Tail(news) :
          Tail(news)[i].cam = d => (Tail(news)[i].says = "offline" <=> row[d] = "offline")
    BY <2>3, <2>6
  <2>8. ~Owes(d)' => (told'[d] = "offline" <=> row[d] = "offline")
    <3>1. CASE h.cam = d
      <4>1. told'[d] = h.says
        BY <1>1, <2>1, <3>1
      <4> QED
        BY <2>2, <2>6, <3>1, <4>1
    <3>2. CASE h.cam # d
      <4>1. told'[d] = told[d]
        BY <1>1, <2>1, <3>2
      <4>2. SUFFICES ASSUME ~Owes(d)' PROVE ~Owes(d)
        BY <2>5, <4>1 DEF Truth
      <4>3. ~\E i \in DOMAIN Tail(news) : Tail(news)[i].cam = d
        BY <2>1, <4>2 DEF Owes
      <4>4. ~\E i \in DOMAIN news : news[i].cam = d
        BY <2>2, <2>4, <3>2, <4>3
      <4> QED
        BY <1>2, <4>2, <4>4 DEF Owes, news
    <3> QED
      BY <3>1, <3>2
  <2> QED
    BY <1>2, <2>1, <2>5, <2>7, <2>8 DEF Truth
<1> QED
  BY <1>3, <1>4

\* One transaction of the monitor: a camera whose status it changes gets a notice.
LEMMA TruthApplied ==
  ASSUME TypeOK, Stages, NEW d \in Cameras \ untold', Truth(d), MonitorApplies
  PROVE  Truth(d)'
<1> DEFINE off == NoticesOf(Down, "offline")  on == NoticesOf(Back, "online")
<1>1. /\ monitor.news = <<>> /\ monitor'.news = off \o on
      /\ UNCHANGED <<handler, request, told>>
  <2>1. monitor \in [stage : {"sleeping", "assessing", "notifying"},
                     source : [Cameras -> BOOLEAN],
                     verdict : [Cameras -> Verdict], news : Seq(Notice)]
    BY DEF TypeOK
  <2> QED
    BY <2>1 DEF MonitorApplies, Stages
<1>2. Down \in SUBSET Cameras /\ Back \in SUBSET Cameras
  BY DEF Down, Back
<1>3. /\ off \in Seq(Notice) /\ on \in Seq(Notice)
      /\ \A i \in DOMAIN off : off[i].cam \in Down /\ off[i].says = "offline"
      /\ \A i \in DOMAIN on : on[i].cam \in Back /\ on[i].says = "online"
      /\ \A c \in Down : \E i \in DOMAIN off : off[i].cam = c
      /\ \A c \in Back : \E i \in DOMAIN on : on[i].cam = c
  BY <1>2, NoticesOfProperties
<1>4. d \in Down \cup Back => ~Owes(d)
  BY <1>2 DEF MonitorApplies, Crossing
<1>5. /\ d \in Down => row'[d] = "offline" /\ row[d] # "gone"
      /\ d \in Back => row'[d] = "online" /\ row[d] # "gone" /\ d \notin Down
      /\ d \notin Down \cup Back => /\ row'[d] = "gone" <=> row[d] = "gone"
                                    /\ row'[d] = "offline" <=> row[d] = "offline"
  <2>1. row'[d] = IF d \in Down THEN "offline"
                  ELSE IF d \in Back \/ Recovers(d) THEN "online" ELSE row[d]
    BY DEF MonitorApplies
  <2> QED
    BY <2>1 DEF Down, Back, GoesOffline, ComesBack, Recovers
<1> HIDE DEF off, on
<1>6. /\ \A i \in DOMAIN (off \o on) :
           \/ (off \o on)[i].cam \in Down /\ (off \o on)[i].says = "offline"
           \/ (off \o on)[i].cam \in Back /\ (off \o on)[i].says = "online"
      /\ \A c \in Down \cup Back : \E i \in DOMAIN (off \o on) : (off \o on)[i].cam = c
  <2>1. \A i \in DOMAIN (off \o on) :
          \/ i \in DOMAIN off /\ (off \o on)[i] = off[i]
          \/ i - Len(off) \in DOMAIN on /\ (off \o on)[i] = on[i - Len(off)]
    BY <1>3
  <2>2. /\ \A i \in DOMAIN off : i \in DOMAIN (off \o on) /\ (off \o on)[i] = off[i]
        /\ \A i \in DOMAIN on : i + Len(off) \in DOMAIN (off \o on)
                                /\ (off \o on)[i + Len(off)] = on[i]
    BY <1>3
  <2>3. ASSUME NEW i \in DOMAIN (off \o on)
        PROVE  \/ (off \o on)[i].cam \in Down /\ (off \o on)[i].says = "offline"
               \/ (off \o on)[i].cam \in Back /\ (off \o on)[i].says = "online"
    BY <1>3, <2>1
  <2>4. ASSUME NEW c \in Down \cup Back
        PROVE  \E i \in DOMAIN (off \o on) : (off \o on)[i].cam = c
    <3>1. CASE c \in Down
      <4>1. PICK i \in DOMAIN off : off[i].cam = c
        BY <1>3, <3>1
      <4> QED
        BY <2>2, <4>1
    <3>2. CASE c \in Back
      <4>1. PICK i \in DOMAIN on : on[i].cam = c
        BY <1>3, <3>2
      <4> QED
        BY <2>2, <4>1
    <3> QED
      BY <2>4, <3>1, <3>2
  <2> QED
    BY <2>3, <2>4
<1>7. CASE d \in Down \cup Back
  <2>1. Owes(d)'
    BY <1>1, <1>6, <1>7 DEF Owes
  <2>2. ~(handler[d].stage = "committed" /\ handler[d].seen = "offline")
        /\ ~(request.stage = "committed" /\ request.cam = d)
    BY <1>4, <1>7 DEF Owes
  <2>3. \A i \in DOMAIN (off \o on) : (off \o on)[i].cam = d =>
          ((off \o on)[i].says = "offline" <=> row'[d] = "offline")
    BY <1>5, <1>6
  <2> QED
    BY <1>1, <2>1, <2>2, <2>3 DEF Truth
<1>8. CASE d \notin Down \cup Back
  <2>1. ~\E i \in DOMAIN (off \o on) : (off \o on)[i].cam = d
    BY <1>6, <1>8
  <2>2. ~Owes(d)' => ~Owes(d)
    BY <1>1 DEF Owes
  <2> QED
    BY <1>1, <1>5, <1>8, <2>1, <2>2 DEF Truth
<1> QED
  BY <1>7, <1>8

\* The transaction of a frame.
LEMMA TruthFramed ==
  ASSUME TypeOK, NEW d \in Cameras \ untold', Truth(d), NEW c \in Cameras, FrameCommits(c)
  PROVE  Truth(d)'
<1>1. /\ row \in [Cameras -> Status \cup {"gone"}]
      /\ handler \in [Cameras -> [stage : {"idle", "read", "committed"}, seen : Status]]
  BY DEF TypeOK
<1>2. UNCHANGED <<monitor, request, told>> /\ handler[c].stage = "read"
  BY DEF FrameCommits
<1>3. \/ handler' = [handler EXCEPT ![c] = NoFrame] /\ row[c] = "gone"
      \/ handler' = [handler EXCEPT ![c].stage = "committed"] /\ row[c] # "gone"
  BY DEF FrameCommits
<1>4. handler'[d].stage = "committed" /\ handler'[d].seen = "offline" =>
        \/ handler'[d] = handler[d] /\ d # c
        \/ d = c /\ handler[d].seen = "offline" /\ row[d] # "gone"
  BY <1>1, <1>3 DEF NoFrame
<1>5. d # c => handler'[d] = handler[d]
  BY <1>1, <1>3
<1>6. CASE row' = row /\ (d = c => row[d] = "gone" \/ handler[d].seen = "online")
  BY <1>2, <1>3, <1>4, <1>5, <1>6, TruthSame
<1>7. CASE row[c] # "gone" /\ FrameRevives(c)
  <2>1. row' = [row EXCEPT ![c] = "online"] /\ untold' = untold \cup NotTold(c, handler[c].seen)
    BY <1>7 DEF FrameCommits
  <2>2. CASE d # c
    BY <1>1, <1>2, <1>5, <2>1, <2>2, TruthSame
  <2>3. CASE d = c
    <3>1. ~Owes(d) /\ row[d] = handler[d].seen /\ row'[d] = "online"
      BY <1>1, <2>1, <2>3, ToldOf
    <3>2. told[d] = "offline" <=> row[d] = "offline"
      BY <1>7, <2>3, <3>1 DEF Truth
    <3>3. CASE handler[d].seen = "offline"
      <4>1. Owes(d)'
        BY <1>1, <1>3, <1>7, <2>3, <3>3 DEF Owes
      <4> QED
        BY <1>2, <3>1, <4>1 DEF Truth, Owes
    <3>4. CASE handler[d].seen # "offline"
      <4>1. row[d] # "offline" /\ row[d] # "gone" /\ told'[d] = told[d]
        BY <1>2, <1>7, <2>3, <3>1, <3>4
      <4>2. ~(handler'[d].stage = "committed" /\ handler'[d].seen = "offline")
        BY <1>4, <2>3, <3>4
      <4> QED
        BY <1>2, <3>1, <4>1, <4>2, TruthSame DEF Owes
    <3> QED
      BY <3>3, <3>4
  <2> QED
    BY <2>2, <2>3
<1> QED
  BY <1>6, <1>7 DEF FrameCommits, FrameRevives

\* The transactions of the operators' requests, and the notices after them.
LEMMA TruthRequested ==
  ASSUME TypeOK, TypeOK', NEW d \in Cameras \ untold', Truth(d),
         \/ SetOfflineCommits \/ SetOtherCommits \/ TestCommits
         \/ SoftDeleteCommits \/ HardDeleteCommits \/ RequestNotifies
  PROVE  Truth(d)'
<1>1. row \in [Cameras -> Status \cup {"gone"}] /\ told \in [Cameras -> {"online", "offline"}]
  BY DEF TypeOK
<1>2. request.cam \in Cameras /\ request.seen \in Status
  BY RequestType DEF SetOfflineCommits, SetOtherCommits, TestCommits, SoftDeleteCommits,
     HardDeleteCommits, RequestNotifies
<1>3. UNCHANGED <<monitor, handler>>
  BY DEF SetOfflineCommits, SetOtherCommits, TestCommits, SoftDeleteCommits,
     HardDeleteCommits, RequestNotifies, dbVars
<1>4. request.stage = "read" => [request EXCEPT !.stage = "committed"] =
        [stage |-> "committed", kind |-> request.kind, cam |-> request.cam, seen |-> request.seen]
  BY RequestType
<1>5. ASSUME request.stage = "read", UNCHANGED <<row, told>>, request' = NoRequest
      PROVE  Truth(d)'
  BY <1>3, <1>5, TruthSame DEF NoRequest
<1>6. ASSUME request.stage = "read", NEW new \in Status \cup {"gone"},
             row' = row \/ row' = [row EXCEPT ![request.cam] = new],
             request' = NoRequest \/ request' = [request EXCEPT !.stage = "committed"],
             told' = told, d # request.cam
      PROVE  Truth(d)'
  <2>1. row'[d] = row[d]
    BY <1>1, <1>2, <1>6
  <2>2. ~(request'.stage = "committed" /\ request'.cam = d)
    BY <1>4, <1>6 DEF NoRequest
  <2> QED
    BY <1>3, <1>6, <2>1, <2>2, TruthSame
<1>7. CASE SetOfflineCommits
  <2>1. /\ request.stage = "read" /\ request.kind = "set_offline" /\ told' = told
        /\ row[request.cam] # "gone"
        /\ row' = Written(request.cam, request.seen, "offline")
        /\ untold' = untold \cup NotTold(request.cam, request.seen)
    BY <1>7 DEF SetOfflineCommits
  <2>2. CASE d # request.cam
    BY <1>6, <1>7, <2>1, <2>2 DEF SetOfflineCommits, Written, Status
  <2>3. CASE d = request.cam
    <3>1. ~Owes(d) /\ row[d] = request.seen
      BY <2>1, <2>3, ToldOf
    <3>2. CASE request.seen = "offline"
      BY <1>5, <1>7, <2>1, <3>2 DEF SetOfflineCommits, Written
    <3>3. CASE request.seen # "offline"
      <4>1. row'[d] = "offline" /\ request' = [request EXCEPT !.stage = "committed"]
        BY <1>1, <1>7, <2>1, <2>3, <3>3 DEF SetOfflineCommits, Written
      <4>2. request'.stage = "committed" /\ request'.cam = d /\ request'.kind = "set_offline"
        BY <1>4, <2>1, <2>3, <4>1
      <4> QED
        BY <1>3, <3>1, <4>1, <4>2 DEF Truth, Owes
    <3> QED
      BY <3>2, <3>3
  <2> QED
    BY <2>2, <2>3
<1>8. CASE SetOtherCommits
  <2> DEFINE new == IF request.kind = "set_online" THEN "online" ELSE "degraded"
  <2>1. /\ request.stage = "read" /\ request.kind \in {"set_online", "set_degraded"}
        /\ told' = told /\ row[request.cam] # "gone"
        /\ row' = Written(request.cam, request.seen, new)
        /\ untold' = untold \cup NotTold(request.cam, request.seen)
             \cup {e \in {request.cam} : new = "degraded" /\ request.seen = "offline"}
        /\ request' = IF new = "online" /\ request.seen = "offline"
                      THEN [request EXCEPT !.stage = "committed"] ELSE NoRequest
    BY <1>8 DEF SetOtherCommits
  <2>2. new \in {"online", "degraded"} /\ (new = "online" => request.kind # "set_offline")
    BY <2>1
  <2> HIDE DEF new
  <2>3. CASE d # request.cam
    BY <1>6, <2>1, <2>2, <2>3 DEF Written, Status
  <2>4. CASE d = request.cam
    <3>1. ~Owes(d) /\ row[d] = request.seen /\ ~(new = "degraded" /\ request.seen = "offline")
      BY <2>1, <2>4, ToldOf
    <3>2. CASE request.seen = "offline"
      <4>1. row'[d] = "online" /\ request' = [request EXCEPT !.stage = "committed"]
        BY <1>1, <2>1, <2>2, <2>4, <3>1, <3>2 DEF Written
      <4>2. request'.stage = "committed" /\ request'.cam = d /\ request'.kind # "set_offline"
        BY <1>4, <2>1, <2>2, <2>4, <3>1, <3>2, <4>1
      <4> QED
        BY <1>3, <3>1, <4>1, <4>2 DEF Truth, Owes
    <3>3. CASE request.seen # "offline"
      <4>1. row'[d] \in {"online", "degraded"} /\ row[d] # "offline" /\ row[d] # "gone"
        BY <1>1, <1>2, <2>1, <2>2, <2>4, <3>1, <3>3 DEF Written, Status
      <4>2. ~(request'.stage = "committed" /\ request'.cam = d)
        BY <2>1, <3>3 DEF NoRequest
      <4> QED
        BY <1>3, <2>1, <4>1, <4>2, TruthSame
    <3> QED
      BY <3>2, <3>3
  <2> QED
    BY <2>3, <2>4
<1>9. CASE TestCommits
  <2>1. request.stage = "read" /\ told' = told /\ request' = NoRequest
    BY <1>9 DEF TestCommits
  <2>2. \/ row' = row
        \/ row' = [row EXCEPT ![request.cam] = "online"] /\ d # request.cam
    BY <1>9 DEF TestCommits, Written
  <2> QED
    BY <1>5, <1>6, <2>1, <2>2 DEF Status
<1>10. CASE SoftDeleteCommits
  <2>1. /\ request.stage = "read" /\ told' = told /\ request' = NoRequest /\ d # request.cam
        /\ row' = row \/ row' = [row EXCEPT ![request.cam] = "offline"]
    BY <1>10 DEF SoftDeleteCommits, Written
  <2> QED
    BY <1>6, <2>1 DEF Status
<1>11. CASE HardDeleteCommits
  <2>1. /\ request.stage = "read" /\ told' = told /\ request' = NoRequest
        /\ row' = [row EXCEPT ![request.cam] = "gone"]
    BY <1>11 DEF HardDeleteCommits
  <2>2. CASE d # request.cam
    BY <1>6, <2>1, <2>2
  <2>3. CASE d = request.cam
    <3>1. row'[d] = "gone"
      BY <1>1, <2>1, <2>3
    <3> QED
      BY <3>1 DEF Truth
  <2> QED
    BY <2>2, <2>3
<1>12. CASE RequestNotifies
  <2>1. /\ request.stage = "committed" /\ request' = NoRequest /\ row' = row
        /\ told' = [told EXCEPT ![request.cam] =
                      IF request.kind = "set_offline" THEN "offline" ELSE "online"]
    BY <1>12 DEF RequestNotifies, dbVars
  <2>2. CASE d # request.cam
    <3>1. told'[d] = told[d]
      BY <1>1, <1>2, <2>1, <2>2
    <3> QED
      BY <1>3, <2>1, <2>2, <3>1, TruthSame DEF NoRequest
  <2>3. CASE d = request.cam
    <3>1. told'[d] = IF request.kind = "set_offline" THEN "offline" ELSE "online"
      BY <1>1, <2>1, <2>3
    <3> QED
      BY <1>3, <2>1, <2>3, <3>1 DEF Truth, NoRequest
  <2> QED
    BY <2>2, <2>3
<1> QED
  BY <1>7, <1>8, <1>9, <1>10, <1>11, <1>12

LEMMA TruthKept ==
  ASSUME TypeOK, TypeOK', Stages, Next, NEW d \in Cameras \ untold', Truth(d)
  PROVE  Truth(d)'
<1>1. /\ row \in [Cameras -> Status \cup {"gone"}] /\ told \in [Cameras -> {"online", "offline"}]
      /\ handler \in [Cameras -> [stage : {"idle", "read", "committed"}, seen : Status]]
      /\ monitor \in [stage : {"sleeping", "assessing", "notifying"},
                      source : [Cameras -> BOOLEAN],
                      verdict : [Cameras -> Verdict], news : Seq(Notice)]
  BY DEF TypeOK
<1>2. ASSUME UNCHANGED <<row, told, handler, request>>, monitor'.news = monitor.news
      PROVE  Truth(d)'
  BY <1>2, TruthSame
<1>3. ASSUME NEW c \in Cameras, Flip(c) \/ HeartbeatAges(c) PROVE Truth(d)'
  BY <1>2, <1>3 DEF Flip, HeartbeatAges, dbVars
<1>4. ASSUME NEW c \in Cameras, FrameReads(c) PROVE Truth(d)'
  <2>1. handler[c].stage = "idle" /\ handler' = [handler EXCEPT ![c] = [stage |-> "read", seen |-> row[c]]]
        /\ UNCHANGED <<row, told, monitor, request>>
    BY <1>4 DEF FrameReads, dbVars
  <2>2. handler'[d].stage = "committed" /\ handler'[d].seen = "offline"
          <=> handler[d].stage = "committed" /\ handler[d].seen = "offline"
    BY <1>1, <2>1
  <2> QED
    BY <2>1, <2>2, TruthSame
<1>5. ASSUME NEW c \in Cameras, FrameCommits(c) PROVE Truth(d)'
  BY <1>5, TruthFramed
<1>6. ASSUME NEW c \in Cameras, FrameAnswers(c) PROVE Truth(d)'
  <2>1. /\ handler[c].stage = "committed" /\ handler' = [handler EXCEPT ![c] = NoFrame]
        /\ told' = IF handler[c].seen = "offline" THEN [told EXCEPT ![c] = "online"] ELSE told
        /\ UNCHANGED <<row, monitor, request>>
    BY <1>6 DEF FrameAnswers, dbVars
  <2>2. CASE d # c \/ handler[c].seen # "offline"
    <3>1. told'[d] = told[d]
      BY <1>1, <2>1, <2>2
    <3>2. handler'[d].stage = "committed" /\ handler'[d].seen = "offline"
            <=> handler[d].stage = "committed" /\ handler[d].seen = "offline"
      BY <1>1, <2>1, <2>2 DEF NoFrame
    <3> QED
      BY <2>1, <3>1, <3>2, TruthSame
  <2>3. CASE d = c /\ handler[c].seen = "offline"
    <3>1. told'[d] = "online" /\ handler'[d].stage = "idle"
      BY <1>1, <2>1, <2>3 DEF NoFrame
    <3> QED
      BY <2>1, <2>3, <3>1 DEF Truth
  <2> QED
    BY <2>2, <2>3
<1>7. CASE MonitorLoads \/ MonitorFails \/ \E c \in Cameras : MonitorAssesses(c)
  <2>1. monitor.news = <<>> /\ monitor'.news = <<>>
    BY <1>1, <1>7 DEF MonitorLoads, MonitorFails, MonitorAssesses, Asleep, Stages
  <2> QED
    BY <1>2, <1>7, <2>1 DEF MonitorLoads, MonitorFails, MonitorAssesses, dbVars
<1>8. CASE MonitorApplies
  BY <1>8, TruthApplied
<1>9. CASE MonitorNotifies
  BY <1>9, TruthNotified
<1>10. ASSUME NEW c \in Cameras, NEW k \in Kind, RequestReads(c, k) PROVE Truth(d)'
  <2>1. request.stage = "none" /\ request'.stage = "read" /\ UNCHANGED <<row, told, monitor, handler>>
    BY <1>10 DEF RequestReads, NoRequest, dbVars
  <2> QED
    BY <2>1, TruthSame
<1>11. CASE RequestFails
  <2>1. request.stage = "read" /\ request'.stage = "none" /\ UNCHANGED <<row, told, monitor, handler>>
    BY <1>11 DEF RequestFails, NoRequest, dbVars
  <2> QED
    BY <2>1, TruthSame
<1>12. CASE \/ SetOfflineCommits \/ SetOtherCommits \/ TestCommits
            \/ SoftDeleteCommits \/ HardDeleteCommits \/ RequestNotifies
  BY <1>12, TruthRequested
<1>13. CASE BackendRestarts
  <2>1. ~Owes(d)
    BY <1>13 DEF BackendRestarts, Crossing
  <2>2. /\ monitor'.news = <<>> /\ request'.stage = "none" /\ handler'[d].stage = "idle"
        /\ UNCHANGED <<row, told>>
    BY <1>13 DEF BackendRestarts, Asleep, NoRequest, NoFrame, dbVars
  <2> QED
    BY <2>1, <2>2 DEF Truth
<1> QED
  BY <1>3, <1>4, <1>5, <1>6, <1>7, <1>8, <1>9, <1>10, <1>11, <1>12, <1>13
  DEF Next, Frames, MonitorCycle, Operators, Environment

-----------------------------------------------------------------------------
(* The theorems *)

LEMMA Invariant ==
  Spec => []IInv
<1>1. Init => IInv
  <2> SUFFICES ASSUME Init PROVE IInv
    OBVIOUS
  <2>1. TypeOK
    BY NoNews DEF Init, TypeOK, NoFrame, Asleep, NoRequest, Status, Verdict
  <2>2. Stages
    BY DEF Init, Stages, Asleep, NoRequest
  <2>3. \A c \in Cameras : OutageCounted(c) /\ Truth(c)
    BY DEF Init, OutageCounted, Truth, Counted, NoRequest, Asleep, NoFrame
  <2> QED
    BY <2>1, <2>2, <2>3 DEF IInv
<1>2. IInv /\ [Next]_vars => IInv'
  <2> SUFFICES ASSUME IInv, [Next]_vars PROVE IInv'
    OBVIOUS
  <2>1. CASE Next
    <3>1. TypeOK' /\ Stages'
      BY <2>1, TypesKept DEF IInv
    <3>2. \A c \in Cameras : OutageCounted(c)'
      BY <2>1, CountKept DEF IInv
    <3>3. ASSUME NEW c \in Cameras \ untold' PROVE Truth(c)'
      <4>1. Truth(c)
        BY <2>1, UntoldGrows DEF IInv
      <4> QED
        BY <2>1, <3>1, <4>1, TruthKept DEF IInv
    <3> QED
      BY <3>1, <3>2, <3>3 DEF IInv
  <2>2. CASE UNCHANGED vars
    BY <2>2 DEF IInv, TypeOK, Stages, OutageCounted, Truth, Counted, Owes, vars, dbVars
  <2> QED
    BY <2>1, <2>2
<1> QED
  BY <1>1, <1>2, PTL DEF Spec

\* Every value the monitor, the handlers and the requests keep is of its type.
THEOREM StatusTypes ==
  Spec => []TypeOK
<1>1. IInv => TypeOK
  BY DEF IInv
<1> QED
  BY <1>1, Invariant, PTL

\* Whatever frames, cycles of the monitor, requests and restarts were under way, an
\* outage has an alert unless the camera was decommissioned, and at most one more
\* than there were operators' requests: the monitor adds no second one.
THEOREM OutagesAlerted ==
  Spec => []OutageAlerted
<1>1. IInv => OutageAlerted
  <2> SUFFICES ASSUME IInv, NEW c \in Cameras, row[c] = "offline"
               PROVE  (outage[c] = 0 => c \in decommissioned) /\ outage[c] <= 1 + requests
    BY DEF OutageAlerted
  <2>1. OutageCounted(c)
    BY DEF IInv
  <2>2. requests \in Nat /\ outage[c] \in Nat
    BY DEF IInv, TypeOK
  <2> QED
    BY <2>1, <2>2 DEF OutageCounted, Counted
<1> QED
  BY <1>1, Invariant, PTL

\* When nothing is owed about a camera whose notices could not cross, the last one
\* said of it what the database does.
THEOREM TruthTold ==
  Spec => []ToldTheTruth
<1>1. IInv => ToldTheTruth
  BY DEF IInv, ToldTheTruth, Truth, Quiet
<1> QED
  BY <1>1, Invariant, PTL
=============================================================================
