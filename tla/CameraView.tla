------------------------------ MODULE CameraView ------------------------------
(***************************************************************************)
(* The page of one camera: the picture its feed shows and the recording    *)
(* made of it (frontend/src/components/camera/CameraFeed.tsx,              *)
(* pages/CameraViewPage.tsx, lib/recording.ts).                            *)
(*                                                                         *)
(* Stepping to the next camera keeps the page and gives it another         *)
(* cameraId.  Frames are numbered per camera, in the order they reach the  *)
(* live store.  Uploads and toasts are left out.                           *)
(***************************************************************************)
EXTENDS Naturals

CONSTANTS Cameras, NoCamera, MaxFrames

CameraViewAssumption == NoCamera \notin Cameras /\ MaxFrames \in Nat

VARIABLES
  shown,      \* cameraId, from the address
  mounted,    \* the feed and its canvas are on the page
  paused,
  live,       \* the last frame of each camera in the live store, 0: none
  feed,       \* the decode queue of the feed, numbers of frames, 0: none
  late,       \* a decode begun for a camera since left
  bitmap,     \* the picture: its camera and frame
  recording,  \* recordingRef: the camera recorded, or NoCamera
  running,    \* cameras of the MediaRecorders that run
  since       \* recordingSince # null: the page shows REC

viewVars ==
  <<shown, mounted, paused, live, feed, late, bitmap, recording, running, since>>

NoFrame == [camera |-> NoCamera, n |-> 0]
Frames == {NoFrame} \cup [camera : Cameras, n : 1..MaxFrames]
Empty == [decoding |-> 0, pending |-> 0, last |-> 0]

ViewTypeOK ==
  /\ shown \in Cameras /\ mounted \in BOOLEAN /\ paused \in BOOLEAN
  /\ live \in [Cameras -> 0..MaxFrames]
  /\ feed \in [decoding : 0..MaxFrames, pending : 0..MaxFrames, last : 0..MaxFrames]
  /\ late \in Frames /\ bitmap \in Frames
  /\ recording \in Cameras \cup {NoCamera} /\ running \subseteq Cameras
  /\ since \in BOOLEAN

ViewInit ==
  /\ shown \in Cameras /\ mounted = FALSE /\ paused = FALSE
  /\ live = [c \in Cameras |-> 0]
  /\ feed = Empty /\ late = NoFrame /\ bitmap = NoFrame
  /\ recording = NoCamera /\ running = {} /\ since = FALSE

(***************************************************************************)
(* The picture                                                             *)
(***************************************************************************)
decode(q, n) ==
  IF q.decoding # 0 THEN [q EXCEPT !.pending = n] ELSE [q EXCEPT !.decoding = n]

handle(q, n) ==
  IF paused \/ n = 0 \/ n = q.last THEN q ELSE decode([q EXCEPT !.last = n], n)

\* A frame is never older than those before it: the sockets keep their order.
FrameReceived(c) ==
  /\ live[c] < MaxFrames
  /\ live' = [live EXCEPT ![c] = @ + 1]
  /\ feed' = IF c = shown /\ mounted THEN handle(feed, live'[c]) ELSE feed
  /\ UNCHANGED <<shown, mounted, paused, late, bitmap, recording, running, since>>

\* finally: the frame that waits is next, whether or not this one could be decoded.
Decoded ==
  /\ feed.decoding # 0
  /\ bitmap' \in {bitmap, [camera |-> shown, n |-> feed.decoding]}
  /\ feed' = [feed EXCEPT !.decoding = feed.pending, !.pending = 0]
  /\ UNCHANGED <<shown, mounted, paused, live, late, recording, running, since>>

\* Mutant of DecodedLate: the decode does not look at disposed
ShowsLate == late # NoFrame /\ bitmap' = late

DecodedLate == late # NoFrame /\ bitmap' = bitmap

LateDecode ==
  /\ DecodedLate
  /\ late' = NoFrame
  /\ UNCHANGED <<shown, mounted, paused, live, feed, recording, running, since>>

\* The effect is disposed; bound: one late decode at a time.
Dispose ==
  /\ bitmap' = NoFrame
  /\ feed.decoding # 0 => late = NoFrame
  /\ late' = IF feed.decoding # 0 THEN [camera |-> shown, n |-> feed.decoding] ELSE late

togglePause ==
  /\ paused' = ~paused
  /\ UNCHANGED <<shown, mounted, live, feed, late, bitmap, recording, running, since>>

(***************************************************************************)
(* The recording                                                           *)
(***************************************************************************)
startCanvasRecording ==
  /\ recording' = shown /\ running' = running \cup {shown} /\ since' = TRUE

finishRecording(c) == recording' = NoCamera /\ running' = running \ {c} /\ since' = FALSE

\* Without the role, the canvas or MP4 support nothing starts.
toggleRecording ==
  /\ \/ recording # NoCamera /\ finishRecording(recording)
     \/ recording = NoCamera /\ mounted /\ startCanvasRecording
  /\ UNCHANGED <<shown, mounted, paused, live, feed, late, bitmap>>

\* The timer of MAX_RECORDING_MS, which only stop() clears.
AutoStop(c) ==
  /\ c \in running /\ finishRecording(c)
  /\ UNCHANGED <<shown, mounted, paused, live, feed, late, bitmap>>

\* Mutant of LeavesCamera: the clean-up runs only when the page unmounts
KeepsRecording == UNCHANGED <<recording, running, since>>

\* The clean-up of the effect on cameraId; recordingSince stays as it was.
LeavesCamera ==
  /\ recording' = NoCamera /\ running' = running \ {recording}
  /\ UNCHANGED since

(***************************************************************************)
(* The page                                                                *)
(***************************************************************************)
\* The next or the previous camera of the list, whose detail is there or not.
step(c) ==
  /\ c # shown
  /\ shown' = c /\ mounted' \in BOOLEAN
  /\ Dispose /\ LeavesCamera
  /\ feed' = IF mounted' THEN handle(Empty, live[c]) ELSE Empty
  /\ UNCHANGED <<paused, live>>

DetailLoaded ==
  /\ ~mounted /\ mounted' = TRUE
  /\ feed' = handle(Empty, live[shown])
  /\ UNCHANGED <<shown, paused, live, late, bitmap, recording, running, since>>

\* A refetch that fails puts the error in the place of the feed.
DetailFails ==
  /\ mounted /\ mounted' = FALSE
  /\ Dispose /\ feed' = Empty
  /\ UNCHANGED <<shown, paused, live, recording, running, since>>

ViewNext ==
  \/ \E c \in Cameras : FrameReceived(c) \/ AutoStop(c) \/ step(c)
  \/ Decoded \/ LateDecode \/ togglePause \/ toggleRecording \/ DetailLoaded \/ DetailFails

(***************************************************************************)
(* Properties                                                              *)
(***************************************************************************)
\* The picture is always of the camera in the address and, until the feed is
\* mounted anew, never goes back to an older frame, however decodes end; the
\* newest frame taken is the one decoded last (CameraFeed.tsx:83).
PictureTrue ==
  [][/\ bitmap' # NoFrame => bitmap'.camera = shown'
     /\ bitmap # NoFrame /\ bitmap' # NoFrame /\ shown' = shown => bitmap'.n >= bitmap.n
     /\ feed'.decoding # 0 =>
          feed'.last = IF feed'.pending # 0 THEN feed'.pending ELSE feed'.decoding]_viewVars

\* No recorder runs on that the page cannot stop, and none films the picture of
\* another camera than the one its evidence is filed under
\* (CameraViewPage.tsx:65); while it runs the page counts its time, and shows that
\* unless an error has taken the place of the whole page (line 200).
RecordingInHand ==
  /\ running = {recording} \ {NoCamera}
  /\ running # {} => running = {shown} /\ since

=============================================================================
