----------------------------- MODULE ConsoleProofs -----------------------------
(***************************************************************************)
(* Proofs about the pages of Console, for any cameras, alerts, paths,      *)
(* items, places and bounds.                                               *)
(***************************************************************************)
EXTENDS Console, FiniteSetTheorems, SequenceTheorems, TLAPS

\* One part moves, the others stand still.
LEMMA OnePartMoves ==
  ASSUME [ConsoleNext]_consoleVars
  PROVE  /\ part' = part
         /\ (part = "analysis" /\ Analysis!AnalysisNext) \/ UNCHANGED analysisVars
         /\ (part = "shell" /\ Shell!ShellNext) \/ UNCHANGED shellVars
         /\ (part = "alerts" /\ Board!AlertsNext) \/ UNCHANGED alertVars
         /\ (part = "view" /\ View!ViewNext) \/ UNCHANGED viewVars
         /\ (part = "reading" /\ Reading!ReadingNext) \/ UNCHANGED readingVars
         /\ (part = "desk" /\ Desk!DeskNext) \/ UNCHANGED deskVars
         /\ (part = "editor" /\ Editor!EditorNext) \/ UNCHANGED editorVars
         /\ (part = "evidence" /\ Evidence!EvidenceNext) \/ UNCHANGED evidenceVars
         /\ (part = "street" /\ Street!StreetNext) \/ UNCHANGED streetVars
         /\ (part = "map" /\ Map!MapNext) \/ UNCHANGED mapVars
         /\ (part = "registry" /\ Registry!RegistryNext) \/ UNCHANGED registryVars
         /\ (part = "triage" /\ Triage!TriageNext) \/ UNCHANGED triageVars
BY DEF ConsoleNext, consoleVars, AnalysisMoves, ShellMoves, BoardMoves, ViewMoves, ReadingMoves,
       DeskMoves, EditorMoves, EvidenceMoves, StreetMoves, MapMoves, RegistryMoves, TriageMoves

(***************************************************************************)
(* The page of one camera                                                  *)
(***************************************************************************)
\* The frames of a feed come in their order and the newest taken waits last.
FeedSound(q) ==
  /\ q \in [decoding : Nat, pending : Nat, last : Nat]
  /\ q.decoding <= q.last /\ q.last <= live[shown]
  /\ q.decoding = 0 => q.pending = 0
  /\ q.decoding # 0 => q.last = IF q.pending # 0 THEN q.pending ELSE q.decoding

\* The picture is no newer than the frame decoded next.
PictureSound ==
  /\ bitmap \in [camera : Cameras \cup {NoCamera}, n : Nat]
  /\ bitmap.n <= feed.last
  /\ feed.decoding # 0 => bitmap.n <= feed.decoding
  /\ bitmap # View!NoFrame => bitmap.camera = shown

ViewInv ==
  /\ shown \in Cameras /\ live \in [Cameras -> Nat]
  /\ FeedSound(feed) /\ PictureSound
  /\ ~mounted => bitmap = View!NoFrame /\ feed = View!Empty
  /\ View!RecordingInHand

\* Taking a frame no older than the last keeps the order of a feed.
LEMMA HandleSound ==
  ASSUME NEW q \in [decoding : Nat, pending : Nat, last : Nat], NEW n \in Nat, q.last <= n,
         q.decoding <= q.last, q.decoding = 0 => q.pending = 0,
         q.decoding # 0 => q.last = IF q.pending # 0 THEN q.pending ELSE q.decoding,
         NEW r, r = View!handle(q, n)
  PROVE  /\ r \in [decoding : Nat, pending : Nat, last : Nat]
         /\ r.decoding <= r.last /\ q.last <= r.last /\ r.last <= n
         /\ r.decoding = 0 => r.pending = 0
         /\ r.decoding # 0 => r.last = IF r.pending # 0 THEN r.pending ELSE r.decoding
         /\ q.decoding # 0 => r.decoding = q.decoding
         /\ q.decoding = 0 => r.decoding = 0 \/ r.decoding = n
<1>1. CASE paused \/ n = 0 \/ n = q.last
  BY <1>1 DEF View!handle
<1>2. CASE ~(paused \/ n = 0 \/ n = q.last)
  <2>1. CASE q.decoding # 0
    <3>1. r = [decoding |-> q.decoding, pending |-> n, last |-> n]
      BY <1>2, <2>1 DEF View!handle, View!decode
    <3> QED
      BY <1>2, <2>1, <3>1
  <2>2. CASE q.decoding = 0
    <3>1. r = [decoding |-> n, pending |-> 0, last |-> n]
      BY <1>2, <2>2 DEF View!handle, View!decode
    <3> QED
      BY <1>2, <2>2, <3>1
  <2> QED
    BY <2>1, <2>2
<1> QED
  BY <1>1, <1>2

LEMMA HandleFirst ==
  ASSUME NEW n \in Nat, NEW r, r = View!handle(View!Empty, n)
  PROVE  /\ r \in [decoding : Nat, pending : Nat, last : Nat]
         /\ r.decoding <= r.last /\ r.last <= n
         /\ r.decoding = 0 => r.pending = 0
         /\ r.decoding # 0 => r.last = IF r.pending # 0 THEN r.pending ELSE r.decoding
<1>1. r = View!Empty \/ r = [decoding |-> n, pending |-> 0, last |-> n]
  BY DEF View!handle, View!decode, View!Empty
<1> QED
  BY <1>1 DEF View!Empty

\* What a step of the page may not do, as PictureTrue says.
PictureStep ==
  /\ bitmap' # View!NoFrame => bitmap'.camera = shown'
  /\ bitmap # View!NoFrame /\ bitmap' # View!NoFrame /\ shown' = shown => bitmap'.n >= bitmap.n
  /\ feed'.decoding # 0 =>
       feed'.last = IF feed'.pending # 0 THEN feed'.pending ELSE feed'.decoding

\* A frame, a decode or a change of what is mounted keeps feed and picture.
LEMMA PictureKept ==
  ASSUME ViewInv, View!ViewNext
  PROVE  /\ shown' \in Cameras /\ live' \in [Cameras -> Nat]
         /\ FeedSound(feed)' /\ PictureSound'
         /\ (~mounted => bitmap = View!NoFrame /\ feed = View!Empty)'
         /\ PictureStep
<1> DEFINE Goal == /\ shown' \in Cameras /\ live' \in [Cameras -> Nat]
                   /\ FeedSound(feed)' /\ PictureSound'
                   /\ (~mounted => bitmap = View!NoFrame /\ feed = View!Empty)'
                   /\ PictureStep
<1> USE DEF ViewInv, FeedSound, PictureSound, PictureStep, View!NoFrame
<1>e. /\ View!Empty \in [decoding : Nat, pending : Nat, last : Nat]
      /\ View!Empty.decoding = 0 /\ View!Empty.pending = 0 /\ View!Empty.last = 0
  BY DEF View!Empty
<1>1. ASSUME NEW c \in Cameras, View!FrameReceived(c) PROVE Goal
  <2>1. /\ live' = [live EXCEPT ![c] = live[c] + 1] /\ live[c] \in Nat /\ live[shown] \in Nat
        /\ UNCHANGED <<shown, mounted, bitmap>>
    BY <1>1 DEF View!FrameReceived
  <2>2. /\ live' \in [Cameras -> Nat] /\ live[shown] <= live'[shown] /\ live'[shown] \in Nat
        /\ c = shown => live'[c] = live[c] + 1
    BY <2>1
  <2>3. CASE c = shown /\ mounted
    <3>1. feed' = View!handle(feed, live'[c])
      BY <1>1, <2>3 DEF View!FrameReceived
    <3>2. live'[c] \in Nat /\ feed.last <= live'[c] /\ live'[c] = live'[shown]
      BY <2>1, <2>2, <2>3
    <3>3. /\ feed' \in [decoding : Nat, pending : Nat, last : Nat]
          /\ feed'.decoding <= feed'.last /\ feed.last <= feed'.last /\ feed'.last <= live'[c]
          /\ feed'.decoding = 0 => feed'.pending = 0
          /\ feed'.decoding # 0 =>
               feed'.last = IF feed'.pending # 0 THEN feed'.pending ELSE feed'.decoding
          /\ feed.decoding # 0 => feed'.decoding = feed.decoding
          /\ feed.decoding = 0 => feed'.decoding = 0 \/ feed'.decoding = live'[c]
      BY <3>1, <3>2, HandleSound
    <3> QED
      BY <2>1, <2>2, <2>3, <3>2, <3>3
  <2>4. CASE ~(c = shown /\ mounted)
    <3>1. feed' = feed
      BY <1>1, <2>4 DEF View!FrameReceived
    <3> QED
      BY <2>1, <2>2, <3>1
  <2> QED
    BY <2>3, <2>4
<1>2. ASSUME NEW c \in Cameras, View!AutoStop(c) PROVE Goal
  BY <1>2 DEF View!AutoStop
<1>3. ASSUME NEW c \in Cameras, View!step(c) PROVE Goal
  <2>1. /\ shown' = c /\ live' = live /\ bitmap' = View!NoFrame
        /\ feed' = IF mounted' THEN View!handle(View!Empty, live[c]) ELSE View!Empty
        /\ live[c] \in Nat
    BY <1>3 DEF View!step, View!Dispose
  <2>2. CASE mounted'
    <3>1. /\ feed' \in [decoding : Nat, pending : Nat, last : Nat]
          /\ feed'.decoding <= feed'.last /\ feed'.last <= live[c]
          /\ feed'.decoding = 0 => feed'.pending = 0
          /\ feed'.decoding # 0 =>
               feed'.last = IF feed'.pending # 0 THEN feed'.pending ELSE feed'.decoding
      BY <2>1, <2>2, HandleFirst
    <3> QED
      BY <2>1, <2>2, <3>1
  <2>3. CASE ~mounted'
    BY <1>e, <2>1, <2>3
  <2> QED
    BY <2>2, <2>3
<1>4. CASE View!Decoded
  <2>1. /\ feed.decoding # 0 /\ UNCHANGED <<shown, mounted, live>> /\ live[shown] \in Nat
        /\ feed' = [decoding |-> feed.pending, pending |-> 0, last |-> feed.last]
    BY <1>4 DEF View!Decoded
  <2>2. feed.decoding <= feed.last /\ feed.pending <= feed.last /\ mounted
    BY <2>1 DEF View!Empty
  <2>3. CASE bitmap' = bitmap
    BY <2>1, <2>2, <2>3
  <2>4. CASE bitmap' = [camera |-> shown, n |-> feed.decoding]
    BY <2>1, <2>2, <2>4
  <2> QED
    BY <1>4, <2>3, <2>4 DEF View!Decoded
<1>5. CASE View!LateDecode \/ View!togglePause
  BY <1>5 DEF View!LateDecode, View!DecodedLate, View!togglePause
<1>6. CASE View!toggleRecording
  BY <1>6 DEF View!toggleRecording
<1>7. CASE View!DetailLoaded
  <2>1. /\ UNCHANGED <<shown, live, bitmap>> /\ mounted' /\ bitmap = View!NoFrame
        /\ feed' = View!handle(View!Empty, live[shown]) /\ live[shown] \in Nat
    BY <1>7 DEF View!DetailLoaded
  <2>2. /\ feed' \in [decoding : Nat, pending : Nat, last : Nat]
        /\ feed'.decoding <= feed'.last /\ feed'.last <= live[shown]
        /\ feed'.decoding = 0 => feed'.pending = 0
        /\ feed'.decoding # 0 =>
           feed'.last = IF feed'.pending # 0 THEN feed'.pending ELSE feed'.decoding
    BY <2>1, HandleFirst
  <2> QED
    BY <2>1, <2>2
<1>8. CASE View!DetailFails
  <2>1. /\ UNCHANGED <<shown, live>> /\ bitmap' = View!NoFrame /\ feed' = View!Empty
        /\ live[shown] \in Nat
    BY <1>8 DEF View!DetailFails, View!Dispose
  <2> QED
    BY <1>e, <2>1
<1> HIDE DEF Goal, ViewInv, FeedSound, PictureSound, PictureStep, View!NoFrame
<1> QED
  BY <1>1, <1>2, <1>3, <1>4, <1>5, <1>6, <1>7, <1>8 DEF View!ViewNext, Goal

\* The recorder is the one the page holds, whoever starts, stops or leaves it.
LEMMA RecordingKept ==
  ASSUME shown \in Cameras, View!RecordingInHand, View!ViewNext
  PROVE  View!RecordingInHand'
<1> USE DEF View!RecordingInHand
<1>0. NoCamera \notin Cameras
  BY ConsoleAssumption DEF View!CameraViewAssumption
<1>1. ASSUME NEW c \in Cameras, View!FrameReceived(c) PROVE View!RecordingInHand'
  BY <1>1 DEF View!FrameReceived
<1>2. ASSUME NEW c \in Cameras, View!AutoStop(c) PROVE View!RecordingInHand'
  BY <1>2 DEF View!AutoStop, View!finishRecording
<1>3. ASSUME NEW c \in Cameras, View!step(c) PROVE View!RecordingInHand'
  BY <1>3 DEF View!step, View!LeavesCamera
<1>4. CASE View!toggleRecording
  <2>1. CASE recording # NoCamera /\ View!finishRecording(recording) /\ shown' = shown
    BY <2>1 DEF View!finishRecording
  <2>2. CASE recording = NoCamera /\ View!startCanvasRecording /\ shown' = shown
    <3>1. running = {}
      BY <2>2
    <3>2. running' = {shown} /\ recording' = shown /\ since' = TRUE /\ shown # NoCamera
      BY <1>0, <2>2, <3>1 DEF View!startCanvasRecording
    <3> QED
      BY <2>2, <3>2
  <2> QED
    BY <1>4, <2>1, <2>2 DEF View!toggleRecording
<1>5. CASE \/ View!Decoded \/ View!LateDecode \/ View!togglePause \/ View!DetailLoaded
           \/ View!DetailFails
  BY <1>5 DEF View!Decoded, View!LateDecode, View!togglePause, View!DetailLoaded,
              View!DetailFails
<1> QED
  BY <1>1, <1>2, <1>3, <1>4, <1>5 DEF View!ViewNext

LEMMA ViewInvStarts == ConsoleInit => ViewInv
BY DEF ConsoleInit, View!ViewInit, View!Empty, View!NoFrame, View!RecordingInHand, ViewInv,
       FeedSound, PictureSound

LEMMA ViewInvKept == ViewInv /\ [ConsoleNext]_consoleVars => ViewInv'
<1> SUFFICES ASSUME ViewInv, [ConsoleNext]_consoleVars PROVE ViewInv'
  OBVIOUS
<1>1. CASE UNCHANGED viewVars
  BY <1>1 DEF viewVars, View!RecordingInHand, View!NoFrame, View!Empty, ViewInv, FeedSound,
              PictureSound
<1>2. CASE View!ViewNext
  BY <1>2, PictureKept, RecordingKept DEF ViewInv
<1> QED
  BY <1>1, <1>2, OnePartMoves

\* No recorder runs on out of the page's hands or films another camera.
THEOREM RecordingStaysInHand == ConsoleSpec => []RecordingInHand
<1>1. ViewInv => RecordingInHand
  BY DEF ViewInv, RecordingInHand
<1> QED
  BY <1>1, ViewInvStarts, ViewInvKept, PTL DEF ConsoleSpec

\* The picture is of the camera in the address and never goes back in time.
THEOREM PictureStaysTrue == ConsoleSpec => PictureTrue
<1>1. ViewInv /\ [ConsoleNext]_consoleVars => [PictureStep]_viewVars
  BY OnePartMoves, PictureKept
<1>2. [PictureStep]_viewVars <=>
      [/\ bitmap' # View!NoFrame => bitmap'.camera = shown'
       /\ bitmap # View!NoFrame /\ bitmap' # View!NoFrame /\ shown' = shown =>
            bitmap'.n >= bitmap.n
       /\ feed'.decoding # 0 =>
            feed'.last = IF feed'.pending # 0 THEN feed'.pending ELSE feed'.decoding]_View!viewVars
  BY DEF PictureStep, viewVars, View!viewVars
<1> QED
  BY <1>1, <1>2, ViewInvStarts, ViewInvKept, PTL DEF ConsoleSpec, PictureTrue, View!PictureTrue

(***************************************************************************)
(* The alert board                                                         *)
(***************************************************************************)
\* Whatever the browser knows of an alert the backend has on record: what it is
\* told or answered is never ahead of it, and the list is not ahead of a fetch.
BoardInv ==
  /\ server \in [Alerts -> Board!States] /\ list \in [Alerts -> Board!States]
  /\ liveAlerts \in [Alerts -> Board!States]
  /\ fetch = Board!NoFetch \/ fetch \in [Alerts -> Board!States]
  /\ acking \in [Alerts -> {"idle", "sent", "stored"}]
  /\ \A a \in Alerts :
       /\ list[a] # "none" \/ liveAlerts[a] # "none" => server[a] # "none"
       /\ list[a] = "acked" \/ liveAlerts[a] = "acked" => server[a] = "acked"
       /\ fetch # Board!NoFetch =>
            /\ list[a] # "none" => fetch[a] # "none"
            /\ fetch[a] # "none" => server[a] # "none"
            /\ fetch[a] = "acked" => server[a] = "acked"
       /\ [kind |-> "frame_update", alert |-> a] \in mail => server[a] # "none"
       /\ [kind |-> "alert_acknowledged", alert |-> a] \in mail => server[a] = "acked"
       /\ acking[a] = "stored" => server[a] = "acked"

\* What NoneHidden says of a step, with the definition of LET put in.
BoardStep ==
  \A a \in Alerts :
    /\ Board!mergeAlerts(a) # "none" =>
         \/ Board!mergeAlerts(a)' # "none"
         \/ board = "open" /\ server'[a] = "acked"
    /\ Board!mergeAlerts(a)' = "acked" => server'[a] = "acked"
    /\ Board!mergeAlerts(a) = "acked" =>
         \/ Board!mergeAlerts(a)' = "acked"
         \/ board = "open" /\ server'[a] = "acked"
         \/ fetch # Board!NoFetch /\ fetch' = Board!NoFetch /\ fetch[a] # "acked"

\* The sub-actions change what they say and leave the rest sound.
LEMMA InvalidateSound ==
  ASSUME Board!invalidate
  PROVE  fetch' = fetch \/ fetch' = server
BY DEF Board!invalidate

LEMMA AcknowledgedIs ==
  ASSUME NEW fed \in [Alerts -> Board!States], NEW a \in Alerts
  PROVE  /\ Board!acknowledged(fed, a) \in [Alerts -> Board!States]
         /\ \A b \in Alerts : Board!acknowledged(fed, a)[b] =
              IF b = a /\ fed[a] # "none" THEN "acked" ELSE fed[b]
BY DEF Board!acknowledged, Board!States

LEMMA BoardKept ==
  ASSUME BoardInv, Board!AlertsNext
  PROVE  BoardInv' /\ BoardStep
<1> USE DEF BoardInv, BoardStep, Board!mergeAlerts
<1>1. CASE Board!ThrottleOver
  <2>1. UNCHANGED <<board, server, mail, liveAlerts, list, acking>> /\ (fetch' = fetch \/ fetch' = server)
    BY <1>1 DEF Board!ThrottleOver
  <2> QED
    BY <2>1
<1>2. CASE Board!Refetch \/ Board!FetchFails
  BY <1>2 DEF Board!Refetch, Board!FetchFails
<1>3. CASE Board!Fetched
  <2>1. /\ fetch # Board!NoFetch /\ fetch' = Board!NoFetch /\ list' \in [Alerts -> Board!States]
        /\ UNCHANGED <<board, server, mail, liveAlerts, acking>>
    BY <1>3 DEF Board!Fetched, Board!Asked, Board!States
  <2>2. PICK answer \in [Alerts -> Board!States] :
          /\ \A a \in Alerts : answer[a] \in Board!Between(fetch[a], server[a])
          /\ list' = [a \in Alerts |-> Board!Asked(answer[a])]
    BY <1>3 DEF Board!Fetched
  <2>3. ASSUME NEW a \in Alerts
        PROVE  /\ list'[a] = answer[a] \/ (list'[a] = "none" /\ board = "open" /\ answer[a] = "acked")
               /\ \/ answer[a] = fetch[a] \/ answer[a] = server[a]
                  \/ fetch[a] = "none" /\ server[a] = "acked" /\ answer[a] = "open"
    <3>1. list'[a] = Board!Asked(answer[a])
      BY <2>2
    <3>2. answer[a] \in Board!Between(fetch[a], server[a])
      BY <2>2
    <3>3. list'[a] = answer[a] \/ (list'[a] = "none" /\ board = "open" /\ answer[a] = "acked")
      BY <3>1 DEF Board!Asked
    <3>4. \/ answer[a] = fetch[a] \/ answer[a] = server[a]
          \/ fetch[a] = "none" /\ server[a] = "acked" /\ answer[a] = "open"
      BY <3>2 DEF Board!Between, Board!States
    <3> QED
      BY <3>3, <3>4
  <2>4. ASSUME NEW a \in Alerts
        PROVE  /\ list'[a] # "none" => server[a] # "none"
               /\ list'[a] = "acked" => server[a] = "acked"
               /\ list[a] # "none" => list'[a] # "none" \/ (board = "open" /\ server[a] = "acked")
               /\ list[a] = "acked" => \/ list'[a] = "acked" \/ fetch[a] # "acked"
                                       \/ board = "open" /\ server[a] = "acked"
               /\ liveAlerts[a] = "acked" /\ fetch[a] = "acked" /\ list'[a] # "acked" =>
                    board = "open" /\ server[a] = "acked"
    BY <2>1, <2>3
  <2> QED
    BY <2>1, <2>4
<1>4. CASE Board!HearsCritical \/ Board!MessageLost
  <2>1. /\ UNCHANGED <<board, server, liveAlerts, list, acking>> /\ mail' \subseteq mail
        /\ fetch' = fetch \/ fetch' = server
    BY <1>4, InvalidateSound DEF Board!HearsCritical, Board!MessageLost
  <2> QED
    BY <2>1
<1>5. CASE Board!Raised
  <2> DEFINE x == CHOOSE b \in Alerts : server[b] = "none"
  <2>1. /\ x \in Alerts /\ server[x] = "none"
        /\ server' = [server EXCEPT ![x] = "open"]
        /\ mail' = mail \cup {[kind |-> "frame_update", alert |-> x]}
        /\ UNCHANGED <<board, liveAlerts, list, fetch, throttle, acking>>
    BY <1>5 DEF Board!Raised
  <2> HIDE DEF x
  <2> QED
    BY <2>1 DEF Board!States
<1>6. ASSUME NEW x \in Alerts, Board!HearsAlert(x) PROVE BoardInv' /\ BoardStep
  <2>1. CASE liveAlerts[x] = "none"
    <3>1. /\ [kind |-> "frame_update", alert |-> x] \in mail /\ mail' \subseteq mail
          /\ liveAlerts' = [liveAlerts EXCEPT ![x] = "open"]
          /\ UNCHANGED <<board, server, list, acking>>
          /\ fetch' = fetch \/ fetch' = server
      BY <1>6, <2>1, InvalidateSound DEF Board!HearsAlert
    <3> QED
      BY <2>1, <3>1 DEF Board!States
  <2>2. CASE liveAlerts[x] # "none"
    <3>1. mail' \subseteq mail /\ UNCHANGED <<board, server, list, acking, liveAlerts, fetch>>
      BY <1>6, <2>2 DEF Board!HearsAlert
    <3> QED
      BY <3>1
  <2> QED
    BY <2>1, <2>2
<1>7. ASSUME NEW x \in Alerts, Board!HearsAcknowledged(x) PROVE BoardInv' /\ BoardStep
  <2>1. /\ [kind |-> "alert_acknowledged", alert |-> x] \in mail /\ mail' \subseteq mail
        /\ liveAlerts' = Board!acknowledged(liveAlerts, x)
        /\ UNCHANGED <<board, server, list, acking>>
        /\ fetch' = fetch \/ fetch' = server
    BY <1>7, InvalidateSound DEF Board!HearsAcknowledged
  <2>2. /\ liveAlerts' \in [Alerts -> Board!States]
        /\ \A b \in Alerts : liveAlerts'[b] = IF b = x /\ liveAlerts[x] # "none" THEN "acked"
                                              ELSE liveAlerts[b]
    BY <2>1, AcknowledgedIs
  <2> HIDE DEF Board!mergeAlerts
  <2>3. BoardInv'
    BY <2>1, <2>2
  <2> QED
    BY <2>1, <2>2, <2>3 DEF Board!mergeAlerts
<1>8. ASSUME NEW x \in Alerts, Board!OtherAcknowledges(x) \/ Board!AcknowledgeStored(x)
      PROVE  BoardInv' /\ BoardStep
  <2>1. /\ server[x] = "open" /\ server' = [server EXCEPT ![x] = "acked"]
        /\ mail' = mail \cup {[kind |-> "alert_acknowledged", alert |-> x]}
        /\ UNCHANGED <<board, liveAlerts, list, fetch>>
        /\ acking' = acking \/ acking' = [acking EXCEPT ![x] = "stored"]
    BY <1>8 DEF Board!OtherAcknowledges, Board!AcknowledgeStored, Board!Store
  <2> QED
    BY <2>1 DEF Board!States
<1>9. ASSUME NEW x \in Alerts, Board!Acknowledge(x) \/ Board!AcknowledgeFails(x)
      PROVE  BoardInv' /\ BoardStep
  BY <1>9 DEF Board!Acknowledge, Board!AcknowledgeFails
<1>10. ASSUME NEW x \in Alerts, Board!Acknowledged(x) PROVE BoardInv' /\ BoardStep
  <2>1. /\ acking[x] = "stored" /\ acking' = [acking EXCEPT ![x] = "idle"]
        /\ liveAlerts' = Board!acknowledged(liveAlerts, x)
        /\ list' = Board!acknowledged(list, x)
        /\ UNCHANGED <<board, server, mail, fetch>>
    BY <1>10 DEF Board!Acknowledged
  <2>2. /\ liveAlerts' \in [Alerts -> Board!States]
        /\ \A b \in Alerts : liveAlerts'[b] = IF b = x /\ liveAlerts[x] # "none" THEN "acked"
                                              ELSE liveAlerts[b]
        /\ list' \in [Alerts -> Board!States]
        /\ \A b \in Alerts : list'[b] = IF b = x /\ list[x] # "none" THEN "acked" ELSE list[b]
    BY <2>1, AcknowledgedIs
  <2> HIDE DEF Board!mergeAlerts
  <2>3. BoardInv'
    BY <2>1, <2>2
  <2>4. ASSUME NEW a \in Alerts
        PROVE  /\ list'[a] = list[a] \/ (list[a] # "none" /\ list'[a] = "acked" /\ server[a] = "acked")
               /\ \/ liveAlerts'[a] = liveAlerts[a]
                  \/ liveAlerts[a] # "none" /\ liveAlerts'[a] = "acked" /\ server[a] = "acked"
    <3>1. server[x] = "acked"
      BY <2>1
    <3> QED
      BY <2>2, <3>1
  <2>5. ASSUME NEW a \in Alerts
        PROVE  /\ Board!mergeAlerts(a) # "none" => Board!mergeAlerts(a)' # "none"
               /\ Board!mergeAlerts(a)' = "acked" => server'[a] = "acked"
               /\ Board!mergeAlerts(a) = "acked" => Board!mergeAlerts(a)' = "acked"
    BY <2>1, <2>4 DEF Board!mergeAlerts
  <2> QED
    BY <2>3, <2>5
<1> HIDE DEF BoardInv, BoardStep
<1> QED
  BY <1>1, <1>2, <1>3, <1>4, <1>5, <1>6, <1>7, <1>8, <1>9, <1>10 DEF Board!AlertsNext

LEMMA BoardInvStarts == ConsoleInit => BoardInv
BY DEF ConsoleInit, Board!AlertsInit, Board!States, BoardInv

LEMMA BoardInvKept == BoardInv /\ [ConsoleNext]_consoleVars => BoardInv'
<1> SUFFICES ASSUME BoardInv, [ConsoleNext]_consoleVars PROVE BoardInv'
  OBVIOUS
<1>1. CASE UNCHANGED alertVars
  BY <1>1 DEF alertVars, BoardInv, Board!States, Board!NoFetch
<1> QED
  BY <1>1, BoardKept, OnePartMoves

\* No alert leaves the board but an acknowledged one a board of open alerts; none is
\* said to be acknowledged that is not; and one said to be is called open again only
\* by the answer to a fetch that began before it was.
THEOREM AlertsNeverHidden == ConsoleSpec => NoneHidden
<1>1. BoardInv /\ [ConsoleNext]_consoleVars => [BoardStep]_alertVars
  BY OnePartMoves, BoardKept
<1>2. [BoardStep]_alertVars <=>
      [\A a \in Alerts :
         LET gone == board = "open" /\ server'[a] = "acked" IN
         /\ Board!mergeAlerts(a) # "none" => Board!mergeAlerts(a)' # "none" \/ gone
         /\ Board!mergeAlerts(a)' = "acked" => server'[a] = "acked"
         /\ Board!mergeAlerts(a) = "acked" =>
              \/ Board!mergeAlerts(a)' = "acked" \/ gone
              \/ fetch # Board!NoFetch /\ fetch' = Board!NoFetch /\ fetch[a] # "acked"
      ]_Board!alertVars
  BY DEF BoardStep, alertVars, Board!alertVars
<1> QED
  BY <1>1, <1>2, BoardInvStarts, BoardInvKept, PTL DEF ConsoleSpec, NoneHidden, Board!NoneHidden

(***************************************************************************)
(* The other pages: what each sends or shows                               *)
(***************************************************************************)
\* A stream is called live by the WebSocket that is open, or by one that has yet
\* to say that it is closed.
StreamInv ==
  /\ streamed = [job |-> streamed.job, rec |-> streamed.rec, live |-> streamed.live]
  /\ socket = [phase |-> socket.phase, finished |-> socket.finished]
  /\ streamed.live \in BOOLEAN
  /\ streamed.live => \/ streamed.job = active /\ socket.phase = "open"
                      \/ streamed.job \in closing

\* Showing another job leaves the old WebSocket among those that close.
LEMMA ShowKeepsStream ==
  ASSUME StreamInv, NEW j, Analysis!show(j), streamed' = streamed
  PROVE  StreamInv'
<1>1. CASE j = active
  BY <1>1 DEF StreamInv, Analysis!show
<1>2. CASE j # active
  BY <1>2 DEF StreamInv, Analysis!show, Analysis!NoSocketYet
<1> QED
  BY <1>1, <1>2

LEMMA StreamKept ==
  ASSUME StreamInv, Analysis!AnalysisNext
  PROVE  StreamInv'
<1> USE DEF StreamInv, Analysis!NoSocketYet
<1>1. CASE Analysis!TokenAnswered
  BY <1>1 DEF Analysis!TokenAnswered
<1>2. CASE Analysis!Opened \/ Analysis!Frame
  <2>1. /\ streamed' = [job |-> active, rec |-> Analysis!streamedJob, live |-> TRUE]
        /\ active' = active /\ closing' = closing
        /\ socket' = [phase |-> "open", finished |-> socket.finished]
    BY <1>2 DEF Analysis!Opened, Analysis!Frame
  <2> QED
    BY <2>1
<1>3. CASE Analysis!Message
  BY <1>3 DEF Analysis!Message
<1>4. CASE Analysis!Closes
  BY <1>4 DEF Analysis!Closes, Analysis!closed
<1>5. ASSUME NEW j \in Jobs, Analysis!OldCloses(j) PROVE StreamInv'
  BY <1>5 DEF Analysis!OldCloses, Analysis!closed
<1>6. CASE Analysis!Poll \/ Analysis!ChooseFile \/ Analysis!Begin("analyze")
           \/ Analysis!Begin("upload")
  BY <1>6 DEF Analysis!Poll, Analysis!ChooseFile, Analysis!Begin, Analysis!streamVars
<1>7. ASSUME NEW j \in Jobs,
             Analysis!PollAnswered(j) \/ Analysis!PollFails(j) \/ Analysis!Works(j)
      PROVE  StreamInv'
  BY <1>7 DEF Analysis!PollAnswered, Analysis!PollFails, Analysis!Works, Analysis!streamVars
<1>8. ASSUME NEW x \in Analysis!Slots, Analysis!UploadStored(x) \/ Analysis!StartFails(x)
      PROVE  StreamInv'
  BY <1>8 DEF Analysis!UploadStored, Analysis!StartFails, Analysis!streamVars
<1> HIDE DEF StreamInv, Analysis!NoSocketYet
<1>9. ASSUME NEW x \in Analysis!Slots, Analysis!JobCreated(x) PROVE StreamInv'
  <2>1. streamed' = streamed /\ \E j : Analysis!show(j)
    BY <1>9 DEF Analysis!JobCreated
  <2> QED
    BY <2>1, ShowKeepsStream
<1>10. ASSUME NEW i \in DOMAIN runs, Analysis!OpenRun(i) PROVE StreamInv'
  BY <1>10, ShowKeepsStream DEF Analysis!OpenRun
<1>11. CASE Analysis!AnalyzeAnother
  BY <1>11, ShowKeepsStream DEF Analysis!AnalyzeAnother
<1>12. CASE Analysis!LeavePage
  BY <1>12 DEF Analysis!LeavePage, StreamInv, Analysis!NoSocketYet
<1> QED
  BY <1>1, <1>2, <1>3, <1>4, <1>5, <1>6, <1>7, <1>8, <1>9, <1>10, <1>11, <1>12
     DEF Analysis!AnalysisNext

LEMMA LiveIsTrueHolds == ASSUME StreamInv PROVE Analysis!LiveIsTrue
<1>1. Analysis!Headline = "LIVE ANALYSIS" => Analysis!live
  BY Zenon DEF Analysis!Headline
<1> QED
  BY <1>1 DEF Analysis!LiveIsTrue, Analysis!live, Analysis!current, StreamInv

\* A field that differs from the list was typed or has changed in it, and a mark comes
\* with the first automatic location.
DeskInv ==
  /\ stored = [f \in Desk!Fields |-> stored[f]] /\ listed = [f \in Desk!Fields |-> listed[f]]
  /\ dialog = [open |-> dialog.open, fields |-> dialog.fields, touched |-> dialog.touched]
  /\ dialog.fields = [f \in Desk!Fields |-> dialog.fields[f]]
  /\ dialog.open \in BOOLEAN
  /\ dialog.open => \A f \in Desk!Fields : dialog.fields[f] # listed[f] => f \in dialog.touched
  /\ locator \in [open : BOOLEAN, mine : BOOLEAN]
  /\ locator.open => dialog.open
  /\ save = [request |-> save.request, mine |-> save.mine]
  /\ run = [step |-> run.step, request |-> run.request]
  /\ save.request.stray = {} /\ run.request.stray = {}
  /\ auto \in [flights : Nat, place : BOOLEAN, tried : BOOLEAN]
  /\ auto.flights <= 1
  /\ ~auto.tried => auto.flights = 0

LEMMA NothingStray == Desk!NoRequest.stray = {} /\ Desk!Done.stray = {}
BY DEF Desk!NoRequest, Desk!Done

LEMMA PayloadTouched ==
  ASSUME DeskInv, dialog.open PROVE DOMAIN Desk!cameraEditPayload \subseteq dialog.touched
BY DEF DeskInv, Desk!cameraEditPayload, Desk!Restrict

LEMMA AutoLocateSound ==
  ASSUME DeskInv, NEW before, NEW now, Desk!AutoLocate(before, now)
  PROVE  /\ auto' \in [flights : Nat, place : BOOLEAN, tried : BOOLEAN]
         /\ auto'.flights <= 1
         /\ ~auto'.tried => auto'.flights = 0
BY DEF DeskInv, Desk!AutoLocate, Desk!markAttempted

\* What the backend stores is a record of a camera again.
LEMMA StoresRecord ==
  ASSUME NEW p, NEW r, r = Desk!Apply(p)
  PROVE  r = [f \in Desk!Fields |-> r[f]]
BY DEF Desk!Apply

LEMMA DeskKept ==
  ASSUME DeskInv, Desk!DeskNext
  PROVE  DeskInv'
<1> USE NothingStray DEF Desk!Closed
<1>1. CASE Desk!Refreshed
  <2>1. /\ UNCHANGED <<stored, save, locator, run>> /\ Desk!AutoLocate(listed, stored)
        /\ listed' = stored
        /\ dialog' = [dialog EXCEPT !.touched =
                 IF dialog.open THEN @ \cup {f \in Desk!Fields : listed[f] # stored[f]} ELSE @]
    BY <1>1 DEF Desk!Refreshed, Desk!Renew
  <2> QED
    BY <2>1, AutoLocateSound DEF DeskInv
<1>2. CASE Desk!AutoStored \/ Desk!AutoFails
  <2>1. /\ auto.flights > 0 /\ UNCHANGED <<listed, dialog, save, locator, run>>
        /\ auto' = [flights |-> auto.flights - 1, place |-> FALSE, tried |-> auto.tried]
        /\ stored' = [f \in Desk!Fields |-> stored'[f]]
    BY <1>2 DEF DeskInv, Desk!AutoStored, Desk!AutoFails, Desk!Apply
  <2> QED
    BY <2>1 DEF DeskInv
<1>3. CASE Desk!OtherEdits \/ Desk!formFor \/ Desk!CancelEdit \/ Desk!LeaveDesk
  <2>1. CASE Desk!OtherEdits
    <3>1. PICK f \in Desk!Fields, v \in {Desk!NotSet, Desk!Entered} :
            stored' = [stored EXCEPT ![f] = v]
      BY <2>1 DEF Desk!OtherEdits
    <3>2. stored' = [g \in Desk!Fields |-> stored'[g]]
      BY <3>1 DEF DeskInv
    <3> QED
      BY <2>1, <3>2 DEF DeskInv, Desk!OtherEdits
  <2>2. CASE Desk!formFor
    BY <2>2 DEF DeskInv, Desk!formFor
  <2>3. CASE Desk!CancelEdit
    BY <2>3 DEF DeskInv, Desk!CancelEdit
  <2>4. CASE Desk!LeaveDesk
    BY <2>4 DEF DeskInv, Desk!LeaveDesk
  <2> QED
    BY <1>3, <2>1, <2>2, <2>3, <2>4
<1>4. ASSUME NEW f \in Desk!Fields, Desk!set(f) PROVE DeskInv'
  <2>1. PICK v : /\ dialog' = [dialog EXCEPT !.fields[f] = v, !.touched = @ \cup {f}]
                 /\ UNCHANGED <<stored, listed, save, locator, run, auto>>
    BY <1>4 DEF Desk!set
  <2>2. /\ dialog' = [open |-> dialog.open, fields |-> [dialog.fields EXCEPT ![f] = v],
                      touched |-> dialog.touched \cup {f}]
    BY <2>1 DEF DeskInv
  <2> QED
    BY <2>1, <2>2 DEF DeskInv
<1>5. CASE Desk!submit
  BY <1>5, PayloadTouched DEF DeskInv, Desk!submit
<1>6. CASE Desk!SaveStored \/ Desk!Saved \/ Desk!SaveFails
  <2>1. CASE Desk!SaveStored
    BY <2>1, StoresRecord DEF DeskInv, Desk!SaveStored
  <2>2. CASE Desk!Saved /\ save.mine
    BY <2>2 DEF DeskInv, Desk!Saved
  <2>3. CASE Desk!Saved /\ ~save.mine
    BY <2>3 DEF DeskInv, Desk!Saved
  <2>4. CASE Desk!SaveFails
    BY <2>4 DEF DeskInv, Desk!SaveFails
  <2> QED
    BY <1>6, <2>1, <2>2, <2>3, <2>4
<1>7. CASE Desk!openLocate \/ Desk!CloseLocate
  <2>1. CASE Desk!openLocate
    BY <2>1 DEF DeskInv, Desk!openLocate
  <2>2. CASE Desk!CloseLocate
    BY <2>2 DEF DeskInv, Desk!CloseLocate
  <2> QED
    BY <1>7, <2>1, <2>2
<1>8. CASE Desk!locateConsole
  <2>1. DOMAIN Desk!Restrict(Desk!cameraEditPayload, DOMAIN Desk!cameraEditPayload \ {"gps"})
          \subseteq DOMAIN Desk!cameraEditPayload
    BY DEF Desk!Restrict
  <2>2. Desk!located.stray = {}
    BY <1>8, <2>1, PayloadTouched DEF Desk!locateConsole, Desk!located, DeskInv
  <2> QED
    BY <1>8, <2>2 DEF DeskInv, Desk!locateConsole
<1>9. CASE Desk!Fixed \/ Desk!LocationStored \/ Desk!LocationFails
  <2>1. CASE Desk!Fixed
    BY <2>1 DEF DeskInv, Desk!Fixed
  <2>2. CASE Desk!LocationStored
    BY <2>2, StoresRecord DEF DeskInv, Desk!LocationStored
  <2>3. CASE Desk!LocationFails
    BY <2>3 DEF DeskInv, Desk!LocationFails
  <2> QED
    BY <1>9, <2>1, <2>2, <2>3
<1>10. CASE Desk!Located
  BY <1>10, AutoLocateSound DEF DeskInv, Desk!Located
<1> QED
  BY <1>1, <1>2, <1>3, <1>4, <1>5, <1>6, <1>7, <1>8, <1>9, <1>10 DEF Desk!DeskNext

\* A zone on record that is edited is one of the camera the operator chose.
EditorInv ==
  /\ DOMAIN corners = {"count", "over"} /\ corners = [count |-> corners.count, over |-> corners.over]
  /\ chosenCameraId # NoFeed /\ editing \notin {NoZone, NewZone} => editing = chosenCameraId
  /\ Editor!DrawnWhereStored

LEMMA EditorKept ==
  ASSUME EditorInv, Editor!EditorNext
  PROVE  EditorInv'
<1> USE DEF EditorInv, Editor!DrawnWhereStored, Editor!cameraId, Editor!NoCorners
<1>0. NoFeed \notin Feeds /\ NoZone \notin Feeds /\ NewZone \notin Feeds /\ NewZone # NoZone
  BY ConsoleAssumption DEF Editor!EditorAssumption
<1>1. ASSUME NEW z \in Feeds \cup {NewZone}, Editor!startEdit(z) PROVE EditorInv'
  BY <1>0, <1>1 DEF Editor!startEdit
<1>2. CASE Editor!CancelEditing \/ Editor!ZoneSaved \/ Editor!ZoneRemoved
  BY <1>2 DEF Editor!CancelEditing, Editor!ZoneSaved, Editor!ZoneRemoved, Editor!cancel
<1>3. CASE Editor!onCanvasPointerDown
  BY <1>0, <1>3 DEF Editor!onCanvasPointerDown, Editor!Draw
<1>4. CASE Editor!onPointerMove
  BY <1>0, <1>4 DEF Editor!onPointerMove, Editor!Draw
<1>5. CASE Editor!GrabPoint \/ Editor!onPointerUp \/ Editor!UndoPoint
  BY <1>5 DEF Editor!GrabPoint, Editor!onPointerUp, Editor!UndoPoint, Editor!Draw
<1>6. CASE Editor!DefaultMoves
  BY <1>6 DEF Editor!DefaultMoves
<1>7. ASSUME NEW c \in Feeds, Editor!SelectCamera(c) PROVE EditorInv'
  BY <1>7 DEF Editor!SelectCamera, Editor!Choose, Editor!cancel
<1>8. CASE \/ Editor!SaveZone \/ Editor!ZoneSaveFails \/ Editor!AskDelete \/ Editor!KeepZone
           \/ Editor!ConfirmDelete \/ Editor!RemovalFails
  BY <1>8 DEF Editor!SaveZone, Editor!ZoneSaveFails, Editor!AskDelete, Editor!KeepZone,
              Editor!ConfirmDelete, Editor!RemovalFails
<1> HIDE DEF EditorInv
<1> QED
  BY <1>1, <1>2, <1>3, <1>4, <1>5, <1>6, <1>7, <1>8 DEF Editor!EditorNext

\* Two requests that change evidence are one.
EvidenceInv == Evidence!VerdictsBelong /\ \A c, d \in changing : c = d

LEMMA EvidenceKept ==
  ASSUME EvidenceInv, Evidence!EvidenceNext
  PROVE  EvidenceInv'
<1> USE DEF EvidenceInv, Evidence!VerdictsBelong
<1>1. CASE Evidence!Verified
  BY <1>1 DEF Evidence!Verified, Evidence!VerdictFor
<1>2. CASE Evidence!onConfirm
  BY <1>2 DEF Evidence!onConfirm, Evidence!loading
<1>3. ASSUME NEW c, Evidence!Changed(c) \/ Evidence!ChangeFails(c) PROVE EvidenceInv'
  BY <1>3 DEF Evidence!Changed, Evidence!ChangeFails
<1>4. ASSUME NEW x, \/ Evidence!withReset(x) \/ Evidence!Turn(x) \/ Evidence!Select(x)
                    \/ Evidence!OtherRemoves(x) \/ Evidence!Ask(x)
      PROVE  EvidenceInv'
  BY <1>4 DEF Evidence!withReset, Evidence!Turn, Evidence!Select, Evidence!OtherRemoves,
              Evidence!Ask
<1>5. CASE \/ Evidence!Deselect \/ Evidence!verify \/ Evidence!VerifyFails \/ Evidence!Withdraw
           \/ Evidence!OpenUpload \/ Evidence!ChooseUpload \/ Evidence!close
           \/ Evidence!submitUpload \/ Evidence!Uploaded \/ Evidence!UploadFails
  BY <1>5 DEF Evidence!Deselect, Evidence!verify, Evidence!VerifyFails, Evidence!Withdraw,
              Evidence!OpenUpload, Evidence!ChooseUpload, Evidence!close,
              Evidence!submitUpload, Evidence!Uploaded, Evidence!UploadFails, Evidence!Uploads
<1> HIDE DEF EvidenceInv
<1> QED
  BY <1>1, <1>2, <1>3, <1>4, <1>5 DEF Evidence!EvidenceNext

\* The cardinality the page's module speaks of is the one the library has facts of.
LEMMA SameCardinality ==
  /\ \A S : Evidence!Cardinality(S) = Cardinality(S)
  /\ \A S : Triage!Cardinality(S) = Cardinality(S)
  /\ \A S : Shell!Cardinality(S) = Cardinality(S)
BY DEF Evidence!Cardinality, Triage!Cardinality, Shell!Cardinality, Cardinality

LEMMA OneAtATimeHolds == ASSUME EvidenceInv PROVE Evidence!OneAtATime
<1>1. CASE changing = {}
  BY <1>1, FS_EmptySet, SameCardinality DEF Evidence!OneAtATime
<1>2. CASE changing # {}
  <2>1. PICK c : changing = {c}
    BY <1>2 DEF EvidenceInv
  <2> QED
    BY <2>1, FS_Singleton, SameCardinality DEF Evidence!OneAtATime
<1> QED
  BY <1>1, <1>2

LEMMA PanoramaKept ==
  ASSUME Street!PanoramaTrue, Street!StreetNext
  PROVE  Street!PanoramaTrue'
<1> USE DEF Street!PanoramaTrue, Street!Current
<1>1. ASSUME NEW l, NEW p, NEW r, Street!Mount(l, p, r) PROVE Street!PanoramaTrue'
  BY <1>1 DEF Street!Mount
<1>2. ASSUME NEW l, Street!setPanorama(l) \/ Street!setProvider(l) PROVE Street!PanoramaTrue'
  BY <1>1, <1>2 DEF Street!setPanorama, Street!setProvider
<1>3. CASE Street!WidenSearch
  BY <1>1, <1>3 DEF Street!WidenSearch
<1>4. CASE Street!CloseStreet
  BY <1>4 DEF Street!CloseStreet
<1>5. CASE Street!Shows
  BY <1>5 DEF Street!Shows
<1>6. CASE Street!NothingNear \/ Street!MountFails \/ Street!ScriptLoads \/ Street!ScriptFails
  BY <1>6 DEF Street!NothingNear, Street!MountFails, Street!ScriptLoads, Street!ScriptFails
<1>7. ASSUME NEW m, Street!LateShows(m) \/ Street!LateGivesUp(m) PROVE Street!PanoramaTrue'
  BY <1>7 DEF Street!LateShows, Street!LateGivesUp, Street!lateViewer
<1> HIDE DEF Street!PanoramaTrue
<1> QED
  BY <1>2, <1>3, <1>4, <1>5, <1>6, <1>7 DEF Street!StreetNext

\* The polygon in the fence dialog has its corners, before and after a change of
\* the camera it is for.
MapInv ==
  /\ zoneDialog # Map!NoDialog =>
       /\ zoneDialog = [polygon |-> zoneDialog.polygon, cameraId |-> zoneDialog.cameraId]
       /\ zoneDialog.polygon >= 3
  /\ Map!MapWorkSound

LEMMA MapKept ==
  ASSUME MapInv, Map!MapNext
  PROVE  MapInv'
<1> USE DEF MapInv, Map!MapWorkSound
<1>1. CASE \/ Map!toggleDrawing \/ Map!toggleStreetMode \/ Map!MapClick \/ Map!UndoCorner
           \/ Map!CancelDrawing
  <2>1. /\ zoneDialog = Map!NoDialog
           \/ UNCHANGED drawing
           \/ drawing' = Map!NotDrawing
        /\ UNCHANGED <<zoneDialog, create, calibrate>>
    BY <1>1 DEF Map!toggleDrawing, Map!toggleStreetMode, Map!MapClick, Map!UndoCorner,
                Map!CancelDrawing, Map!dialogOpen, Map!unchangedDialogs
  <2> QED
    BY <2>1
<1>2. CASE Map!finishDrawing
  <2>1. PICK c : zoneDialog' = [polygon |-> drawing, cameraId |-> c]
    BY <1>2 DEF Map!finishDrawing
  <2>2. drawing >= 3 /\ drawing' = Map!NotDrawing /\ UNCHANGED <<create, calibrate>>
    BY <1>2, ConsoleAssumption DEF Map!finishDrawing, Map!MapAssumption
  <2> QED
    BY <2>1, <2>2
<1>3. ASSUME NEW c, Map!setCameraId(c) PROVE MapInv'
  <2>1. /\ zoneDialog # Map!NoDialog
        /\ zoneDialog' = [polygon |-> zoneDialog.polygon, cameraId |-> c]
        /\ UNCHANGED <<drawing, create, calibrate>>
    BY <1>3 DEF Map!setCameraId, Map!unchangedTools
  <2> QED
    BY <2>1
<1>4. CASE Map!submitFence
  BY <1>4 DEF Map!submitFence, Map!unchangedTools
<1>5. CASE \/ Map!CloseZoneDialog \/ Map!FenceSaved \/ Map!FenceFails
  BY <1>5 DEF Map!CloseZoneDialog, Map!FenceSaved, Map!FenceFails, Map!unchangedTools
<1>6. ASSUME NEW c, Map!setCalibrating(c) \/ Map!CalibrateFirst(c) \/ Map!setFrameSize(c)
      PROVE  MapInv'
  BY <1>6 DEF Map!setCalibrating, Map!CalibrateFirst, Map!setFrameSize, Map!unchangedTools
<1>7. CASE Map!Probed \/ Map!LiveFrame \/ Map!onImageClick \/ Map!onPick
  BY <1>7 DEF Map!Probed, Map!LiveFrame, Map!onImageClick, Map!onPick, Map!unchangedMap,
              Map!unchangedTools
<1>8. ASSUME NEW x, Map!RemovePair(x) PROVE MapInv'
  BY <1>8 DEF Map!RemovePair, Map!unchangedMap, Map!unchangedTools
<1>9. CASE Map!SaveCalibration
  BY <1>9 DEF Map!SaveCalibration, Map!ready, Map!unchangedTools
<1>10. CASE \/ Map!CloseCalibration \/ Map!CalibrationSaved \/ Map!CalibrationFails
            \/ Map!CamerasRefetched
  BY <1>10 DEF Map!CloseCalibration, Map!CalibrationSaved, Map!CalibrationFails,
               Map!CamerasRefetched, Map!unchangedTools
<1> HIDE DEF MapInv
<1> QED
  BY <1>1, <1>2, <1>3, <1>4, <1>5, <1>6, <1>7, <1>8, <1>9, <1>10 DEF Map!MapNext

\* The wizard waits on its last step, with the draft that was reviewed there.
RegistryInv ==
  /\ step \in 0..3
  /\ register # Registry!NoDraft => step = Registry!Review
  /\ Registry!RegistrationReviewed

LEMMA RegistryKept ==
  ASSUME RegistryInv, Registry!RegistryNext
  PROVE  RegistryInv'
<1> USE DEF RegistryInv, Registry!RegistrationReviewed, Registry!Identity, Registry!Location,
            Registry!Stream, Registry!Review, Registry!Fields
<1>1. CASE Registry!OpenWizard
  BY <1>1 DEF Registry!OpenWizard
<1>2. CASE Registry!set
  <2>1. register = Registry!NoDraft /\ UNCHANGED <<step, register, orphan>>
    BY <1>2 DEF Registry!set
  <2> QED
    BY <2>1
<1>3. CASE Registry!Back
  BY <1>3 DEF Registry!Back, Registry!CanGoBack
<1>4. CASE Registry!next
  <2>1. CASE Registry!validateCameraDraft(draft, step) /\ step = 3
    <3>1. \A p \in {0, 1, 2} : draft[p]
      BY <2>1 DEF Registry!validateCameraDraft
    <3>2. register' = draft /\ UNCHANGED <<step, draft, orphan>>
      BY <1>4, <2>1 DEF Registry!next
    <3> QED
      BY <2>1, <3>1, <3>2
  <2>2. CASE Registry!validateCameraDraft(draft, step) /\ step # 3
    BY <1>4, <2>2 DEF Registry!next
  <2>3. CASE ~Registry!validateCameraDraft(draft, step)
    BY <1>4, <2>3 DEF Registry!next
  <2> QED
    BY <2>1, <2>2, <2>3
<1>5. CASE Registry!close \/ Registry!RegisterAnother
  BY <1>5 DEF Registry!close, Registry!RegisterAnother, Registry!reset
<1>6. CASE Registry!Registered \/ Registry!RegistrationFails
  BY <1>6 DEF Registry!Registered, Registry!RegistrationFails
<1>7. ASSUME NEW c, \/ Registry!test(c) \/ Registry!Tested(c) \/ Registry!TestFails(c)
                    \/ Registry!AskDelete(c)
      PROVE  RegistryInv'
  BY <1>7 DEF Registry!test, Registry!Tested, Registry!TestFails, Registry!AskDelete,
              Registry!unchangedWizard
<1>8. CASE \/ Registry!CloseTest \/ Registry!KeepCamera \/ Registry!ConfirmDelete
           \/ Registry!Removed \/ Registry!RemovalFails \/ Registry!ListRefetched
  BY <1>8 DEF Registry!CloseTest, Registry!KeepCamera, Registry!ConfirmDelete,
              Registry!Removed, Registry!RemovalFails, Registry!ListRefetched,
              Registry!unchangedWizard
<1> HIDE DEF RegistryInv
<1> QED
  BY <1>1, <1>2, <1>3, <1>4, <1>5, <1>6, <1>7, <1>8 DEF Registry!RegistryNext

\* The rows of the list are alerts, and the list begins with its first.
RowsSound(rs) ==
  /\ rs # <<>> => 1 \in DOMAIN rs
  /\ \A i \in DOMAIN rs : rs[i].id # Triage!NoReport

TriageInv ==
  /\ alertPage \in Nat
  /\ RowsSound(items)
  /\ form = [alarm |-> form.alarm, note |-> form.note, asking |-> form.asking]
  /\ Triage!NotesBelong /\ Triage!ReviewGoesOn

\* A page of the list shows alerts out of those that match.
LEMMA ListedSound ==
  ASSUME TriageInv, NEW ranked \in [1..Triage!Cardinality(Triage!Matching) -> Triage!Matching]
  PROVE  RowsSound(Triage!Listed(ranked))
<1> DEFINE count == Cardinality(Triage!Matching)
<1> DEFINE first == alertPage * PAGE_SIZE
<1> DEFINE size == IF count - first < PAGE_SIZE THEN count - first ELSE PAGE_SIZE
<1> DEFINE list0 == Triage!Listed(ranked)
<1>1. PAGE_SIZE \in Nat /\ MaxReports \in Nat
  BY ConsoleAssumption DEF Triage!TriageAssumption
<1>2. count \in Nat /\ Triage!Cardinality(Triage!Matching) = count
  <2>1. IsFiniteSet(1..MaxReports)
    BY <1>1, FS_Interval
  <2>2. IsFiniteSet(Triage!Matching)
    BY <2>1, FS_Subset DEF Triage!Matching, Triage!Reports
  <2> QED
    BY <2>2, FS_CardinalityType, SameCardinality
<1>3. first \in Nat
  BY <1>1 DEF TriageInv
<1>4. size \in Int /\ size <= count - first
  BY <1>1, <1>2, <1>3
<1>5. list0 = [i \in 1..size |-> [id |-> ranked[first + i], state |-> triaged[ranked[first + i]]]]
  BY <1>2 DEF Triage!Listed
<1> HIDE DEF count, first, size, list0
<1>6. ASSUME NEW i \in DOMAIN list0 PROVE list0[i].id # Triage!NoReport
  <2>1. i \in 1..size
    BY <1>5, <1>6
  <2>2. first + i \in 1..count
    BY <1>2, <1>3, <1>4, <2>1
  <2>3. ranked[first + i] \in Triage!Matching
    BY <1>2, <2>2
  <2>4. ranked[first + i] # Triage!NoReport
    BY <1>1, <2>3 DEF Triage!Matching, Triage!Reports, Triage!NoReport
  <2> QED
    BY <1>5, <2>1, <2>4
<1>7. list0 # <<>> => 1 \in DOMAIN list0
  <2> SUFFICES ASSUME 1 \notin DOMAIN list0 PROVE list0 = <<>>
    OBVIOUS
  <2>1. 1..size = {}
    BY <1>4, <1>5
  <2> QED
    BY <1>5, <2>1
<1> QED
  BY <1>6, <1>7 DEF RowsSound, list0

\* However the page is rendered, its form is about the alert that is shown, and
\* one is in review if there is any.
LEMMA RendersSound ==
  ASSUME TriageInv, NEW rs, NEW wanted, NEW copies, NEW f, RowsSound(rs),
         Triage!Renders(rs, wanted, copies, f), f = form \/ f = Triage!Blank
  PROVE  /\ RowsSound(items)' /\ Triage!ReviewGoesOn'
         /\ form' = [alarm |-> form'.alarm, note |-> form'.note, asking |-> form'.asking]
         /\ form'.note \in {Triage!NoReport, Triage!shownId'}
<1>1. RowsSound(items)' /\ Triage!ReviewGoesOn'
  BY DEF Triage!Renders, Triage!firstSelected, RowsSound, Triage!ReviewGoesOn
<1>2. \/ form' = form /\ Triage!shownId' = Triage!shownId
      \/ form' = Triage!Blank
  BY DEF Triage!Renders, Triage!keyed
<1> QED
  BY <1>1, <1>2 DEF TriageInv, Triage!NotesBelong, Triage!Blank

\* What is shown stays, if the list, the selection and the copy do.
LEMMA ShownStays ==
  ASSUME UNCHANGED <<items, selectedId, detail>> PROVE Triage!shownId' = Triage!shownId
BY DEF Triage!shownId, Triage!selected, Triage!InList

LEMMA TriageKept ==
  ASSUME TriageInv, Triage!TriageNext
  PROVE  TriageInv'
<1> DEFINE NoteHolds == request'.kind = "acknowledge" =>
                          /\ request'.note \in {Triage!NoReport, request'.id}
                          /\ request'.alarm => request'.note # Triage!NoReport
<1>1. ASSUME NEW rs, NEW wanted, NEW copies, NEW f, RowsSound(rs),
             Triage!Renders(rs, wanted, copies, f), f = form \/ f = Triage!Blank,
             alertPage' = alertPage, request' = request \/ request' = Triage!NoRequest
      PROVE  TriageInv'
  <2>1. NoteHolds
    BY <1>1 DEF TriageInv, Triage!NotesBelong, Triage!NoRequest
  <2> QED
    BY <1>1, <2>1, RendersSound DEF TriageInv, Triage!NotesBelong
<1>2. ASSUME UNCHANGED <<items, selectedId, detail>>, alertPage' \in Nat,
             form' = [alarm |-> form'.alarm, note |-> form'.note, asking |-> form'.asking],
             form'.note \in {form.note, Triage!NoReport, Triage!shownId}, NoteHolds
      PROVE  TriageInv'
  BY <1>2, ShownStays DEF TriageInv, Triage!NotesBelong, Triage!ReviewGoesOn, RowsSound
<1>3. CASE Triage!ListFetched
  <2>1. PICK ranked \in [1..Triage!Cardinality(Triage!Matching) -> Triage!Matching] :
          Triage!Renders(Triage!Listed(ranked), selectedId,
                         IF selectedId = Triage!NoReport THEN {"none"}
                         ELSE Triage!Copies(selectedId), form)
    BY <1>3 DEF Triage!ListFetched
  <2>2. UNCHANGED <<alertPage, request>>
    BY <1>3 DEF Triage!ListFetched
  <2> QED
    BY <1>1, <2>1, <2>2, ListedSound
<1>4. CASE Triage!DetailFetched
  <2>1. RowsSound(items)
    BY DEF TriageInv
  <2> QED
    BY <1>1, <1>4, <2>1 DEF Triage!DetailFetched
<1>5. ASSUME NEW i, Triage!select(i) PROVE TriageInv'
  <2>1. RowsSound(items)
    BY DEF TriageInv
  <2> QED
    BY <1>1, <1>5, <2>1 DEF Triage!select
<1>6. CASE Triage!Acknowledged
  <2> DEFINE rs == [i \in DOMAIN items |-> IF items[i].id # request.id THEN items[i]
                                           ELSE [items[i] EXCEPT !.state = "acknowledged"]]
  <2>1. RowsSound(rs)
    BY DEF TriageInv, RowsSound
  <2>2. /\ Triage!Renders(rs, selectedId,
             {IF selectedId = request.id THEN "acknowledged" ELSE detail}, form)
        /\ alertPage' = alertPage /\ request' = Triage!NoRequest
    BY <1>6 DEF Triage!Acknowledged
  <2> HIDE DEF rs
  <2> QED
    BY <1>1, <2>1, <2>2
<1>7. CASE Triage!Deleted
  <2>1. RowsSound(items)
    BY DEF TriageInv
  <2> QED
    BY <1>1, <1>7, <2>1 DEF Triage!Deleted
<1>8. ASSUME NEW x, Triage!withReset(x) \/ Triage!OtherActs(x) PROVE TriageInv'
  BY <1>2, <1>8 DEF Triage!withReset, Triage!OtherActs, TriageInv, Triage!NotesBelong
<1>9. ASSUME NEW n \in 0..MaxReports, Triage!Turn(n) PROVE TriageInv'
  BY <1>2, <1>9 DEF Triage!Turn, TriageInv, Triage!NotesBelong
<1>10. CASE Triage!setFalseAlarm \/ Triage!AskDelete \/ Triage!KeepAlert
  BY <1>2, <1>10 DEF Triage!setFalseAlarm, Triage!AskDelete, Triage!KeepAlert, Triage!Fills,
                     TriageInv, Triage!NotesBelong
<1>11. CASE Triage!setNotes
  BY <1>2, <1>11 DEF Triage!setNotes, Triage!Fills, TriageInv, Triage!NotesBelong
<1>12. CASE Triage!acknowledge
  <2>1. Triage!shownId = selectedId
    BY <1>12 DEF Triage!acknowledge, Triage!shownId
  <2> QED
    BY <1>2, <1>12, <2>1 DEF Triage!acknowledge, Triage!Sends, TriageInv, Triage!NotesBelong
<1>13. CASE Triage!enter \/ Triage!ConfirmDelete \/ Triage!RequestFails
  <2>1. UNCHANGED <<items, selectedId, detail, form, alertPage>>
    BY <1>13 DEF Triage!enter, Triage!ConfirmDelete, Triage!RequestFails, Triage!Sends
  <2>2. ASSUME Triage!enter PROVE NoteHolds
    <3>1. request' = [kind |-> "acknowledge", id |-> selectedId, alarm |-> FALSE,
                      note |-> Triage!NoReport]
      BY <2>2 DEF Triage!enter, Triage!Sends
    <3> QED
      BY <3>1
  <2>3. ASSUME Triage!ConfirmDelete PROVE NoteHolds
    <3>1. request'.kind = "delete"
      BY <2>3 DEF Triage!ConfirmDelete, Triage!Sends, Triage!NoRequest
    <3> QED
      BY <3>1
  <2>4. ASSUME Triage!RequestFails PROVE NoteHolds
    <3>1. request'.kind = "none"
      BY <2>4 DEF Triage!RequestFails, Triage!NoRequest
    <3> QED
      BY <3>1
  <2>5. NoteHolds
    BY <1>13, <2>2, <2>3, <2>4
  <2> QED
    BY <1>2, <2>1, <2>5 DEF TriageInv
<1> QED
  BY <1>3, <1>4, <1>5, <1>6, <1>7, <1>8, <1>9, <1>10, <1>11, <1>12, <1>13
     DEF Triage!TriageNext

\* The invariants of the parts, side by side.
PagesInv ==
  /\ StreamInv /\ DeskInv /\ EditorInv /\ EvidenceInv /\ Street!PanoramaTrue
  /\ MapInv /\ RegistryInv /\ TriageInv

LEMMA PagesInvStarts == ConsoleInit => PagesInv
<1> SUFFICES ASSUME ConsoleInit PROVE PagesInv
  OBVIOUS
<1>1. StreamInv
  BY DEF ConsoleInit, Analysis!AnalysisInit, Analysis!PageInit, Analysis!NoSocketYet, StreamInv
<1>2. DeskInv
  BY NothingStray DEF ConsoleInit, Desk!DeskInit, Desk!Camera, Desk!Closed, DeskInv
<1>3. EditorInv
  BY DEF ConsoleInit, Editor!EditorInit, Editor!NoCorners, Editor!DrawnWhereStored, EditorInv
<1>4. EvidenceInv
  BY DEF ConsoleInit, Evidence!EvidenceInit, Evidence!VerdictsBelong, EvidenceInv
<1>5. Street!PanoramaTrue
  BY DEF ConsoleInit, Street!StreetInit, Street!PanoramaTrue
<1>6. MapInv
  BY DEF ConsoleInit, Map!MapInit, Map!MapWorkSound, MapInv
<1>7. RegistryInv
  BY DEF ConsoleInit, Registry!RegistryInit, Registry!RegistrationReviewed, Registry!Identity,
         RegistryInv
<1>8. TriageInv
  BY DEF ConsoleInit, Triage!TriageInit, Triage!Blank, Triage!NoRequest, Triage!NotesBelong,
         Triage!ReviewGoesOn, RowsSound, TriageInv
<1> QED
  BY <1>1, <1>2, <1>3, <1>4, <1>5, <1>6, <1>7, <1>8 DEF PagesInv

\* The part that moves keeps its own, the others stand still.
LEMMA PagesInvKept == PagesInv /\ [ConsoleNext]_consoleVars => PagesInv'
<1> SUFFICES ASSUME PagesInv, [ConsoleNext]_consoleVars PROVE PagesInv'
  OBVIOUS
<1> USE OnePartMoves DEF PagesInv
<1>1. StreamInv'
  <2>1. UNCHANGED analysisVars => StreamInv'
    BY DEF analysisVars, StreamInv
  <2> QED
    BY <2>1, StreamKept
<1>2. DeskInv'
  <2>1. UNCHANGED deskVars => DeskInv'
    BY DEF deskVars, DeskInv
  <2> QED
    BY <2>1, DeskKept
<1>3. EditorInv'
  <2>1. UNCHANGED editorVars => EditorInv'
    BY DEF editorVars, EditorInv, Editor!DrawnWhereStored, Editor!cameraId
  <2> QED
    BY <2>1, EditorKept
<1>4. EvidenceInv'
  <2>1. UNCHANGED evidenceVars => EvidenceInv'
    BY DEF evidenceVars, EvidenceInv, Evidence!VerdictsBelong
  <2> QED
    BY <2>1, EvidenceKept
<1>5. Street!PanoramaTrue'
  <2>1. UNCHANGED streetVars => Street!PanoramaTrue'
    BY DEF streetVars, Street!PanoramaTrue, Street!Current
  <2> QED
    BY <2>1, PanoramaKept
<1>6. MapInv'
  <2>1. UNCHANGED mapVars => MapInv'
    BY DEF mapVars, MapInv, Map!MapWorkSound
  <2> QED
    BY <2>1, MapKept
<1>7. RegistryInv'
  <2>1. UNCHANGED registryVars => RegistryInv'
    BY DEF registryVars, RegistryInv, Registry!RegistrationReviewed
  <2> QED
    BY <2>1, RegistryKept
<1>8. TriageInv'
  <2>1. UNCHANGED triageVars => TriageInv'
    BY ShownStays DEF triageVars, TriageInv, RowsSound, Triage!NotesBelong, Triage!ReviewGoesOn
  <2> QED
    BY <2>1, TriageKept
<1> QED
  BY <1>1, <1>2, <1>3, <1>4, <1>5, <1>6, <1>7, <1>8

\* Each page's own property of these names, however its answers overtake each other
\* and its dialogs are closed and opened again.
THEOREM PagesStaySound == ConsoleSpec => []PagesSound
<1>1. PagesInv => PagesSound
  <2> SUFFICES ASSUME PagesInv PROVE PagesSound
    OBVIOUS
  <2>1. Analysis!LiveIsTrue /\ Evidence!OneAtATime
    BY LiveIsTrueHolds, OneAtATimeHolds DEF PagesInv
  <2>2. Desk!OnlyChangesSent
    BY DEF PagesInv, DeskInv, Desk!OnlyChangesSent
  <2> QED
    BY <2>1, <2>2 DEF PagesInv, EditorInv, EvidenceInv, MapInv, RegistryInv, TriageInv, PagesSound
<1> QED
  BY <1>1, PagesInvStarts, PagesInvKept, PTL DEF ConsoleSpec

(***************************************************************************)
(* The layers of keyboard shortcuts                                        *)
(***************************************************************************)
\* No shortcut acts beneath a cover or a lock, and the security keys act above all.
THEOREM KeysStayLayered == ConsoleSpec => []KeysLayered
<1>1. ASSUME NEW k \in Shell!Keys, NEW inField \in BOOLEAN
      PROVE  Shell!dialogOpen => Shell!dispatch(k, inField) # "page"
  BY <1>1, Zenon DEF Shell!dispatch
<1>2. ASSUME NEW k \in Shell!Keys, NEW inField \in BOOLEAN, session = "locked"
      PROVE  Shell!dispatch(k, inField) = "none"
  <2>1. Shell!activeBindings = {} /\ Shell!dialogOpen
    BY <1>2, Zenon DEF Shell!activeBindings, Shell!dialogOpen
  <2> QED
    BY <2>1, Zenon DEF Shell!dispatch
<1>3. ASSUME NEW k \in Shell!Keys, NEW inField \in BOOLEAN, session = "in", k \in Shell!Security
      PROVE  Shell!dispatch(k, inField) = "shell"
  <2>1. k \notin Shell!pageBindings
    BY <1>3 DEF Shell!Security, Shell!pageBindings
  <2>2. k \in Shell!activeBindings
    BY <1>3, Zenon DEF Shell!activeBindings, Shell!Keys, Shell!Security
  <2> QED
    BY <1>3, <2>1, <2>2, Zenon DEF Shell!dispatch
<1>4. ASSUME NEW k \in Shell!Keys, NEW inField \in BOOLEAN, session = "in", "panic" \in covers,
             k = "escape", ~inField
      PROVE  Shell!dispatch(k, inField) = "shell"
  <2>1. k \in Shell!activeBindings /\ Shell!dialogOpen
    BY <1>4, Zenon DEF Shell!activeBindings, Shell!dialogOpen
  <2> QED
    BY <1>4, <2>1, Zenon DEF Shell!dispatch
<1>5. KeysLayered
  BY <1>1, <1>2, <1>3, <1>4 DEF KeysLayered, Shell!KeysLayered
<1> QED
  BY <1>5, PTL

(***************************************************************************)
(* The tab strip                                                           *)
(***************************************************************************)
\* Closing the tab at m moves those behind it up by one.
LEMMA WithoutProperties ==
  ASSUME NEW S, NEW seq \in Seq(S), NEW m \in 1..Len(seq),
         \A i \in 1..Len(seq) : seq[i] = seq[m] => i = m,
         NEW r, r = Shell!Without(seq, seq[m])
  PROVE  /\ r \in Seq(S) /\ Len(r) = Len(seq) - 1
         /\ \A n \in 1..(Len(seq) - 1) : r[n] = seq[IF n < m THEN n ELSE n + 1]
<1> DEFINE L == Len(seq)
           kept == {i \in DOMAIN seq : seq[i] # seq[m]}
           rank(i) == Shell!Cardinality({k \in kept : k <= i})
           at(n) == IF n < m THEN n ELSE n + 1
<1>1. L \in Nat /\ DOMAIN seq = 1..L /\ m \in 1..L /\ \A i \in 1..L : seq[i] \in S
  BY LenProperties, ElementOfSeq
<1>2. kept = (1..L) \ {m}
  BY <1>1
<1>3. r = [n \in 1..Shell!Cardinality(kept) |-> seq[CHOOSE i \in kept : rank(i) = n]]
  BY DEF Shell!Without
<1> HIDE DEF kept
<1>r. ASSUME NEW i \in 1..L
      PROVE  Cardinality((1..i) \ {m}) = IF m \in 1..i THEN i - 1 ELSE i
  <2>1. IsFiniteSet(1..i) /\ Cardinality(1..i) = i
    BY <1>1, FS_Interval
  <2>2. Cardinality((1..i) \ {m}) = IF m \in 1..i THEN Cardinality(1..i) - 1 ELSE Cardinality(1..i)
    BY <2>1, FS_RemoveElement, Zenon
  <2> QED
    BY <2>1, <2>2
<1>4. Shell!Cardinality(kept) = L - 1
  BY <1>1, <1>2, <1>r, SameCardinality
<1>5. ASSUME NEW i \in kept PROVE rank(i) = IF i < m THEN i ELSE i - 1
  <2>1. {k \in kept : k <= i} = (1..i) \ {m} /\ i \in 1..L /\ i # m
    BY <1>1, <1>2
  <2> QED
    BY <1>1, <1>r, <2>1, SameCardinality
<1> HIDE DEF rank
<1>6. ASSUME NEW n \in 1..(L - 1) PROVE (CHOOSE i \in kept : rank(i) = n) = at(n)
  <2>1. at(n) \in kept /\ rank(at(n)) = n
    BY <1>1, <1>2, <1>5
  <2>2. \A i \in kept : rank(i) = n => i = at(n)
    BY <1>1, <1>2, <1>5
  <2> HIDE DEF at
  <2> QED
    BY <2>1, <2>2
<1>7. r = [n \in 1..(L - 1) |-> seq[at(n)]]
  BY <1>3, <1>4, <1>6
<1>8. \A n \in 1..(L - 1) : at(n) \in 1..L
  BY <1>1
<1>9. L - 1 \in Nat
  BY <1>1
<1> HIDE DEF at
<1>10. r \in [1..(L - 1) -> S] /\ \A n \in 1..(L - 1) : r[n] = seq[at(n)]
  BY <1>1, <1>7, <1>8
<1>11. r \in Seq(S) /\ Len(r) = L - 1
  BY <1>9, <1>10
<1> QED
  BY <1>10, <1>11 DEF at

\* A strip of pages: the dashboard first and no page twice.
StripSound(seq) ==
  /\ seq \in Seq(Paths) /\ 1 <= Len(seq) /\ Len(seq) <= MAX_TABS /\ seq[1] = Home
  /\ \A i, k \in 1..Len(seq) : seq[i] = seq[k] => i = k

On(seq, p) == \E i \in 1..Len(seq) : seq[i] = p

\* Closing a tab that is not the dashboard leaves the others on the strip.
LEMMA WithoutSound ==
  ASSUME NEW seq \in Seq(Paths), 1 <= Len(seq), seq[1] = Home,
         \A i, k \in 1..Len(seq) : seq[i] = seq[k] => i = k,
         NEW m \in 2..Len(seq), Len(seq) <= MAX_TABS + 1,
         NEW r, r = Shell!Without(seq, seq[m])
  PROVE  /\ StripSound(r) /\ Len(r) = Len(seq) - 1
         /\ \A p : p # seq[m] /\ On(seq, p) => On(r, p)
<1> DEFINE L == Len(seq)
<1>1. L \in Nat /\ m \in 1..L /\ 2 <= m /\ MAX_TABS \in Nat
  BY LenProperties, ConsoleAssumption DEF Shell!ShellAssumption
<1>2. /\ r \in Seq(Paths) /\ Len(r) = L - 1
      /\ \A n \in 1..(L - 1) : r[n] = seq[IF n < m THEN n ELSE n + 1]
  BY <1>1, WithoutProperties
<1>3. r[1] = Home
  BY <1>1, <1>2
<1>4. ASSUME NEW i \in 1..(L - 1), NEW k \in 1..(L - 1), r[i] = r[k] PROVE i = k
  <2> DEFINE at(n) == IF n < m THEN n ELSE n + 1
  <2>1. at(i) \in 1..L /\ at(k) \in 1..L /\ r[i] = seq[at(i)] /\ r[k] = seq[at(k)]
    BY <1>1, <1>2
  <2>2. at(i) = at(k)
    BY <1>4, <2>1
  <2> QED
    BY <1>1, <2>2
<1>5. ASSUME NEW i \in 1..L, seq[i] # seq[m] PROVE On(r, seq[i])
  <2> DEFINE n == IF i < m THEN i ELSE i - 1
  <2>1. i # m /\ n \in 1..(L - 1) /\ i = IF n < m THEN n ELSE n + 1
    BY <1>1, <1>5
  <2>2. r[n] = seq[i]
    BY <1>2, <2>1
  <2> QED
    BY <1>2, <2>1, <2>2 DEF On
<1>6. StripSound(r)
  BY <1>1, <1>2, <1>3, <1>4 DEF StripSound
<1> QED
  BY <1>2, <1>5, <1>6 DEF On

\* Making room takes the tab after the dashboard.
LEMMA OldestIsSecond ==
  ASSUME NEW seq \in Seq(Paths), 2 <= Len(seq), seq[1] = Home, seq[2] # Home
  PROVE  Shell!Oldest(seq) = seq[2]
<1> DEFINE Fits(i) == seq[i] # Home /\ \A k \in 1..(i - 1) : seq[k] = Home
<1>1. Len(seq) \in Nat /\ DOMAIN seq = 1..Len(seq)
  BY LenProperties
<1>2. 2 \in DOMAIN seq /\ Fits(2)
  BY <1>1
<1>3. \A i \in DOMAIN seq : Fits(i) => i = 2
  BY <1>1, <1>2
<1>4. (CHOOSE i \in DOMAIN seq : Fits(i)) = 2
  BY <1>2, <1>3
<1> QED
  BY <1>4 DEF Shell!Oldest

\* The page that is opened is on the strip afterwards.
LEMMA OpenTabSound ==
  ASSUME NEW seq, StripSound(seq), NEW p \in Paths, NEW r, r = Shell!openTab(seq, p)
  PROVE  StripSound(r) /\ On(r, p)
<1>1. /\ seq \in Seq(Paths) /\ Len(seq) \in Nat /\ DOMAIN seq = 1..Len(seq) /\ 1 <= Len(seq)
      /\ Len(seq) <= MAX_TABS /\ seq[1] = Home /\ MAX_TABS \in Nat /\ 2 <= MAX_TABS
      /\ \A i, k \in 1..Len(seq) : seq[i] = seq[k] => i = k
  BY LenProperties, ConsoleAssumption DEF StripSound, Shell!ShellAssumption
<1>2. CASE p \in {seq[i] : i \in DOMAIN seq}
  <2>1. r = seq
    BY <1>2 DEF Shell!openTab
  <2> QED
    BY <1>1, <1>2, <2>1 DEF On
<1>3. CASE p \notin {seq[i] : i \in DOMAIN seq}
  <2> DEFINE longer == Append(seq, p)
  <2>1. /\ longer \in Seq(Paths) /\ Len(longer) = Len(seq) + 1 /\ longer[Len(seq) + 1] = p
        /\ \A i \in 1..Len(seq) : longer[i] = seq[i]
    BY <1>1, AppendProperties
  <2>2. r = IF Len(longer) > MAX_TABS THEN Shell!Without(longer, Shell!Oldest(longer)) ELSE longer
    BY <1>3 DEF Shell!openTab
  <2> HIDE DEF longer
  <2>3. longer[1] = Home
    BY <1>1, <2>1
  <2>4. ASSUME NEW i \in 1..Len(longer), NEW k \in 1..Len(longer), longer[i] = longer[k]
        PROVE  i = k
    <3>1. \A n \in 1..Len(seq) : seq[n] # p
      BY <1>1, <1>3
    <3> QED
      BY <1>1, <2>1, <2>4, <3>1
  <2>5. On(longer, p)
    BY <1>1, <2>1 DEF On
  <2>6. CASE Len(longer) > MAX_TABS
    <3>1. 2 \in 2..Len(longer) /\ Len(longer) = MAX_TABS + 1 /\ 3 <= Len(longer)
      BY <1>1, <2>1, <2>6
    <3>2. longer[2] # Home /\ longer[2] # p
      BY <1>1, <2>1, <2>3, <2>4, <3>1
    <3>3. Shell!Oldest(longer) = longer[2]
      BY <2>1, <2>3, <3>1, <3>2, OldestIsSecond
    <3>4. r = Shell!Without(longer, longer[2])
      BY <2>2, <2>6, <3>3
    <3>5. 1 <= Len(longer) /\ Len(longer) <= MAX_TABS + 1
      BY <1>1, <3>1
    <3>6. StripSound(r) /\ \A q : q # longer[2] /\ On(longer, q) => On(r, q)
      BY <2>1, <2>3, <2>4, <3>1, <3>4, <3>5, WithoutSound, Zenon
    <3> QED
      BY <2>5, <3>2, <3>6
  <2>7. CASE ~(Len(longer) > MAX_TABS)
    <3>1. r = longer
      BY <2>2, <2>7
    <3> QED
      BY <1>1, <2>1, <2>3, <2>4, <2>5, <2>7, <3>1 DEF StripSound
  <2> QED
    BY <2>6, <2>7
<1> QED
  BY <1>2, <1>3

ShellInv ==
  /\ path \in Paths /\ StripSound(tabs) /\ covers \subseteq Shell!Layers
  /\ session \in {"out", "in", "locked"}
  /\ sidebar \in [pinned : BOOLEAN, hover : BOOLEAN, timer : BOOLEAN]
  /\ session # "out" => On(tabs, path)

LEMMA NavigateSound ==
  ASSUME ShellInv, NEW p \in Paths, NEW seq, StripSound(seq), Shell!Navigate(p, seq)
  PROVE  ShellInv'
<1>1. path' = p /\ tabs' = Shell!openTab(seq, p) /\ covers' \subseteq covers
  BY DEF Shell!Navigate
<1>2. session' = session /\ sidebar' = sidebar
  BY DEF Shell!Navigate
<1>3. StripSound(tabs') /\ On(tabs', p)
  BY <1>1, OpenTabSound
<1> QED
  BY <1>1, <1>2, <1>3 DEF ShellInv, StripSound, On

\* The tab that takes the place of a closed one is on the strip.
LEMMA NeighbourSound ==
  ASSUME StripSound(tabs), NEW p, p # Home, On(tabs, p)
  PROVE  /\ StripSound(Shell!Without(tabs, p))
         /\ Shell!Neighbour(p) \in Paths
         /\ \A q : q # p /\ On(tabs, q) => On(Shell!Without(tabs, p), q)
<1> DEFINE rest == Shell!Without(tabs, p)
<1>1. /\ tabs \in Seq(Paths) /\ Len(tabs) \in Nat /\ DOMAIN tabs = 1..Len(tabs)
      /\ 1 <= Len(tabs) /\ Len(tabs) <= MAX_TABS /\ tabs[1] = Home /\ MAX_TABS \in Nat
      /\ \A i, k \in 1..Len(tabs) : tabs[i] = tabs[k] => i = k
  BY LenProperties, ConsoleAssumption DEF StripSound, Shell!ShellAssumption
<1>2. PICK m \in 1..Len(tabs) : tabs[m] = p
  BY DEF On
<1>3. m \in 2..Len(tabs) /\ Len(tabs) <= MAX_TABS + 1
  BY <1>1, <1>2
<1>4. /\ StripSound(rest) /\ Len(rest) = Len(tabs) - 1
      /\ \A q : q # tabs[m] /\ On(tabs, q) => On(rest, q)
  BY <1>1, <1>2, <1>3, WithoutSound, Zenon
<1>5. Shell!IndexOf(p) = m
  BY <1>1, <1>2 DEF Shell!IndexOf
<1>6. Shell!Neighbour(p) = rest[IF m < Len(rest) THEN m ELSE Len(rest)]
  BY <1>5 DEF Shell!Neighbour
<1>7. rest \in Seq(Paths) /\ (IF m < Len(rest) THEN m ELSE Len(rest)) \in 1..Len(rest)
  BY <1>1, <1>3, <1>4 DEF StripSound
<1>8. Shell!Neighbour(p) \in Paths
  <2> HIDE DEF rest
  <2> QED
    BY <1>6, <1>7, ElementOfSeq
<1> QED
  BY <1>2, <1>4, <1>8

\* A step along the strip goes round it.
LEMMA TabStepSound ==
  ASSUME StripSound(tabs), On(tabs, path), NEW d \in {-1, 1}
  PROVE  Shell!tabStep(d) \in Paths
<1>1. tabs \in Seq(Paths) /\ Len(tabs) \in Nat /\ 1 <= Len(tabs) /\ DOMAIN tabs = 1..Len(tabs)
  BY LenProperties DEF StripSound
<1>2. Shell!IndexOf(path) \in 1..Len(tabs)
  BY <1>1 DEF Shell!IndexOf, On
<1> DEFINE i == Shell!IndexOf(path) - 1 + d
<1>3. i \in Int /\ Len(tabs) > 0
  BY <1>1, <1>2
<1>4. (i % Len(tabs)) + 1 \in 1..Len(tabs)
  <2> HIDE DEF i
  <2> QED
    BY <1>1, <1>3
<1> QED
  BY <1>1, <1>4, ElementOfSeq DEF Shell!tabStep

LEMMA ShellKeySignedIn ==
  ASSUME NEW k, NEW inField, Shell!dispatch(k, inField) = "shell"
  PROVE  session = "in"
<1> SUFFICES ASSUME session # "in" PROVE FALSE
  OBVIOUS
<1>1. Shell!activeBindings = {}
  BY Zenon DEF Shell!activeBindings
<1>2. Shell!dispatch(k, inField) \in {"none", "page"}
  BY <1>1, Zenon DEF Shell!dispatch
<1> QED
  BY <1>2

LEMMA ShellKept ==
  ASSUME ShellInv, Shell!ShellNext
  PROVE  ShellInv'
<1>0. StripSound(tabs) /\ path \in Paths
  BY DEF ShellInv
<1>1. ASSUME UNCHANGED <<path, tabs>>, covers' \subseteq Shell!Layers,
             session' \in {"out", "in", "locked"}, session' # "out" => session # "out",
             sidebar' \in [pinned : BOOLEAN, hover : BOOLEAN, timer : BOOLEAN]
      PROVE  ShellInv'
  BY <1>1 DEF ShellInv, StripSound, On
<1>2. ASSUME UNCHANGED <<path, tabs, session, sidebar>>, covers' \subseteq Shell!Layers
      PROVE  ShellInv'
  BY <1>1, <1>2 DEF ShellInv
<1>3. ASSUME NEW c \in Shell!Layers, Shell!Cover(c) PROVE ShellInv'
  BY <1>2, <1>3 DEF Shell!Cover, ShellInv
<1>4. ASSUME NEW cs, Shell!Uncover(cs) PROVE ShellInv'
  BY <1>2, <1>4 DEF Shell!Uncover, ShellInv
<1>5. ASSUME NEW c \in Shell!Layers, Shell!Toggle(c) PROVE ShellInv'
  BY <1>3, <1>4, <1>5 DEF Shell!Toggle
<1>6. ASSUME UNCHANGED <<path, tabs, covers, session>>,
             sidebar' \in [pinned : BOOLEAN, hover : BOOLEAN, timer : BOOLEAN]
      PROVE  ShellInv'
  BY <1>1, <1>6 DEF ShellInv
<1>7. ASSUME Shell!togglePinned PROVE ShellInv'
  BY <1>6, <1>7 DEF Shell!togglePinned, ShellInv
<1>8. ASSUME session # "out", Shell!Lock PROVE ShellInv'
  BY <1>1, <1>8 DEF Shell!Lock, ShellInv
<1>9. ASSUME NEW k \in Shell!Keys, NEW inField \in BOOLEAN, Shell!Press(k, inField)
      PROVE  ShellInv'
  <2>1. CASE Shell!dispatch(k, inField) = "shell" /\ Shell!ShellKey(k)
    <3>1. session = "in" /\ On(tabs, path)
      BY <2>1, ShellKeySignedIn DEF ShellInv
    <3>2. CASE (k = "lock" /\ Shell!Lock) \/ (k = "nav" /\ Shell!togglePinned)
      BY <1>7, <1>8, <3>1, <3>2
    <3>3. CASE \/ k = "panic" /\ Shell!Toggle("panic")
               \/ k = "help" /\ Shell!Toggle("help")
               \/ k = "escape" /\ Shell!Uncover({"panic"})
      BY <1>4, <1>5, <3>3 DEF Shell!Layers
    <3>4. CASE \E p \in Paths : Shell!Navigate(p, tabs)
      BY <1>0, <3>4, NavigateSound
    <3>5. CASE path # Home /\ Shell!Navigate(Shell!Neighbour(path), Shell!Without(tabs, path))
      BY <1>0, <3>1, <3>5, NeighbourSound, NavigateSound
    <3>6. CASE \E d \in {-1, 1} : Shell!Navigate(Shell!tabStep(d), tabs)
      BY <1>0, <3>1, <3>6, TabStepSound, NavigateSound
    <3> QED
      BY <2>1, <3>2, <3>3, <3>4, <3>5, <3>6 DEF Shell!ShellKey
  <2>2. CASE Shell!Cover("modal") \/ Shell!Cover("dialog")
    BY <1>3, <2>2 DEF Shell!Layers
  <2>3. CASE Shell!Uncover(Shell!Uppermost)
    BY <1>4, <2>3
  <2> QED
    BY <1>9, <2>1, <2>2, <2>3 DEF Shell!Press
<1>10. CASE Shell!Follow
  BY <1>0, <1>10, NavigateSound DEF Shell!Follow
<1>11. CASE Shell!Click
  <2>1. \/ \E c \in Shell!Layers : Shell!Cover(c)
        \/ \E cs : Shell!Uncover(cs)
    BY <1>11 DEF Shell!Click
  <2> QED
    BY <1>3, <1>4, <2>1
<1>12. CASE Shell!IdleLocks
  BY <1>8, <1>12 DEF Shell!IdleLocks
<1>13. CASE Shell!Unlocked \/ Shell!SignedOutByCall \/ Shell!Expires
  BY <1>1, <1>13 DEF Shell!Unlocked, Shell!SignedOutByCall, Shell!Expires, ShellInv
<1>14. CASE Shell!SignsIn
  <2>1. /\ session' = "in" /\ tabs' = Shell!openTab(tabs, path)
        /\ path' = path /\ covers' = covers /\ sidebar' = sidebar
    BY <1>14 DEF Shell!SignsIn
  <2>2. StripSound(tabs') /\ On(tabs', path)
    BY <1>0, <2>1, OpenTabSound
  <2> QED
    BY <2>1, <2>2 DEF ShellInv, StripSound, On
<1>15. CASE Shell!Reloads
  <2>1. PICK p \in Paths : path' = p /\ tabs' = IF session = "out" THEN tabs
                                                ELSE Shell!openTab(tabs, p)
    BY <1>15 DEF Shell!Reloads
  <2>2. /\ covers' = {} /\ session' = session
        /\ sidebar' = [pinned |-> sidebar.pinned, hover |-> FALSE, timer |-> FALSE]
    BY <1>15 DEF Shell!Reloads
  <2>3. StripSound(tabs') /\ (session # "out" => On(tabs', p))
    BY <1>0, <2>1, OpenTabSound
  <2> QED
    BY <2>1, <2>2, <2>3 DEF ShellInv, StripSound, On
<1>16. ASSUME NEW p \in Paths, Shell!CloseTab(p) PROVE ShellInv'
  <2>1. p # Home /\ On(tabs, p) /\ Shell!Reachable
    <3>1. DOMAIN tabs = 1..Len(tabs)
      BY <1>0, LenProperties DEF StripSound
    <3> QED
      BY <1>16, <3>1 DEF Shell!CloseTab, Shell!Open, On
  <2>2. /\ StripSound(Shell!Without(tabs, p)) /\ Shell!Neighbour(p) \in Paths
        /\ \A q : q # p /\ On(tabs, q) => On(Shell!Without(tabs, p), q)
    BY <1>0, <2>1, NeighbourSound
  <2>3. CASE Shell!Navigate(Shell!Neighbour(p), Shell!Without(tabs, p))
    BY <2>2, <2>3, NavigateSound
  <2>4. CASE /\ p # path /\ tabs' = Shell!Without(tabs, p)
             /\ UNCHANGED <<path, covers, session, sidebar>>
    BY <2>2, <2>4 DEF ShellInv, StripSound, On
  <2> QED
    BY <1>16, <2>3, <2>4 DEF Shell!CloseTab
<1>17. ASSUME NEW p \in Paths, Shell!PanicFeed(p) PROVE ShellInv'
  <2>1. /\ path' = p /\ tabs' = Shell!openTab(tabs, p) /\ covers' \subseteq covers
        /\ session' = session /\ sidebar' = sidebar
    BY <1>17 DEF Shell!PanicFeed
  <2>2. StripSound(tabs') /\ On(tabs', p)
    BY <1>0, <2>1, OpenTabSound
  <2> QED
    BY <2>1, <2>2 DEF ShellInv, StripSound, On
<1>18. CASE Shell!PointerEnters \/ Shell!HoverTimer \/ Shell!PinButton
  <2>1. \/ /\ UNCHANGED <<path, tabs, covers, session>>
           /\ \/ sidebar' = [sidebar EXCEPT !.timer = TRUE]
              \/ sidebar' = [sidebar EXCEPT !.timer = FALSE, !.hover = TRUE]
        \/ Shell!togglePinned
    BY <1>18 DEF Shell!PointerEnters, Shell!HoverTimer, Shell!PinButton
  <2>2. sidebar \in [pinned : BOOLEAN, hover : BOOLEAN, timer : BOOLEAN]
    BY DEF ShellInv
  <2> QED
    BY <1>6, <1>7, <2>1, <2>2
<1>19. CASE Shell!PointerLeaves
  <2>1. /\ UNCHANGED <<path, tabs, covers, session>>
        /\ sidebar' = [sidebar EXCEPT !.timer = FALSE, !.hover = sidebar.hover /\ sidebar.pinned]
    BY <1>19 DEF Shell!PointerLeaves
  <2>2. sidebar \in [pinned : BOOLEAN, hover : BOOLEAN, timer : BOOLEAN]
    BY DEF ShellInv
  <2>3. (sidebar.hover /\ sidebar.pinned) \in BOOLEAN
    OBVIOUS
  <2> QED
    BY <1>6, <2>1, <2>2, <2>3
<1> QED
  BY <1>9, <1>10, <1>11, <1>12, <1>13, <1>14, <1>15, <1>16, <1>17, <1>18, <1>19
     DEF Shell!ShellNext

LEMMA ShellInvStarts == ConsoleInit => ShellInv
<1> SUFFICES ASSUME ConsoleInit PROVE ShellInv
  OBVIOUS
<1>1. /\ path \in Paths /\ tabs = <<Home>> /\ covers = {} /\ session = "out"
      /\ sidebar = [pinned |-> FALSE, hover |-> FALSE, timer |-> FALSE]
  BY DEF ConsoleInit, Shell!ShellInit
<1>2. Home \in Paths /\ MAX_TABS \in Nat /\ 2 <= MAX_TABS
  BY ConsoleAssumption DEF Shell!ShellAssumption
<1>3. StripSound(<<Home>>)
  BY <1>2 DEF StripSound
<1> QED
  BY <1>1, <1>3 DEF ShellInv

LEMMA ShellInvKept == ShellInv /\ [ConsoleNext]_consoleVars => ShellInv'
<1> SUFFICES ASSUME ShellInv, [ConsoleNext]_consoleVars PROVE ShellInv'
  OBVIOUS
<1>1. UNCHANGED shellVars => ShellInv'
  BY DEF shellVars, ShellInv, StripSound, On
<1> QED
  BY <1>1, ShellKept, OnePartMoves

\* The strip has the dashboard first, no page twice, keeps to its limit, and a
\* signed-in operator is on one of its tabs.
THEOREM TabsStaySound == ConsoleSpec => []TabsSound
<1>1. ShellInv => TabsSound
  <2> SUFFICES ASSUME ShellInv PROVE TabsSound
    OBVIOUS
  <2>1. tabs \in Seq(Paths) /\ DOMAIN tabs = 1..Len(tabs)
    BY LenProperties DEF ShellInv, StripSound
  <2> QED
    BY <2>1 DEF ShellInv, StripSound, On, TabsSound, Shell!TabsSound, Shell!Open
<1> QED
  BY <1>1, ShellInvStarts, ShellInvKept, PTL DEF ConsoleSpec
=============================================================================
