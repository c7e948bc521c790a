-------------------------------- MODULE Console --------------------------------
(***************************************************************************)
(* The parts of the operator's console that are open for work after the    *)
(* sign-in: its frame (frontend/src/components/layout/AppShell.tsx), the   *)
(* alert board and the pages and dialogs that App.tsx routes to.  None     *)
(* waits for another and what they share, the record of a camera or an     *)
(* alert, every part takes as changing at any time: a behaviour of the     *)
(* console is, part by part, a behaviour of one of them.  So one part      *)
(* moves in a behaviour of this module, any one of them.                   *)
(***************************************************************************)
EXTENDS Naturals

CONSTANTS
  Jobs, NoJob, FullPercent, KeptRuns, MaxUploads,
  Paths, Home, MapPath, MAX_TABS,
  Alerts,
  Cameras, NoCamera, MaxFrames,
  Width, Height, Xs, Ys, Gaps, MaxPoints, Instants,
  MaxFlights,
  Feeds, NoFeed, NoZone, NewZone, MaxCorners,
  Items, NoItem, Intact,
  Places, NoPlace, configuredProviders,
  Placed, Sizes, NoSize, MIN_POINTS, MaxPairs,
  MaxReports, PAGE_SIZE

VARIABLES
  part,
  \* the video analysis page
  active, picked, uploads, start, runs, streamed, socket, closing, polled,
  asked, work,
  \* the frame around every page
  path, tabs, covers, session, sidebar,
  \* the alert board
  board, server, mail, liveAlerts, list, fetch, throttle, acking,
  \* the page of one camera
  shown, mounted, paused, live, feed, late, bitmap, recording, running,
  since,
  \* the dialogs that explain an alert
  reading, risk, track, sightings,
  \* the record of a camera
  stored, listed, dialog, save, locator, run, auto,
  \* the zone editor
  chosenCameraId, defaultCameraId, editing, corners, dragging,
  pendingDelete, zoneSave, zoneRemoval,
  \* the evidence page
  tier, tierFilter, pageNumber, itemShown, confirming, changing,
  verifying, verification, uploading,
  \* the street-level panorama
  location, provider, radius, status, overtaken, viewers, googleLoader,
  \* the threat map
  drawing, streetMode, zoneDialog, create, marking, calibrate,
  calibrated, frameSizes,
  \* the camera registry
  open, step, draft, touched, result, register, orphan, rows, testing,
  testResult, removalAsked, remove,
  \* the alerts page
  triaged, onlyOpen, alertPage, items, selectedId, detail, form, request

Analysis == INSTANCE VideoAnalysis
Shell == INSTANCE ConsoleShell
Board == INSTANCE LiveAlerts
View == INSTANCE CameraView
Reading == INSTANCE TrackReading
Desk == INSTANCE CameraDesk
Editor == INSTANCE ZoneEditor
Evidence == INSTANCE EvidenceDesk
Street == INSTANCE StreetView
Map == INSTANCE ThreatMap WITH Cameras <- Placed
Registry == INSTANCE CameraRegistry WITH pendingDelete <- removalAsked
Triage == INSTANCE AlertTriage

ASSUME ConsoleAssumption ==
  /\ Analysis!AnalysisAssumption /\ Shell!ShellAssumption /\ View!CameraViewAssumption
  /\ Reading!ReadingAssumption
  /\ Desk!DeskAssumption /\ Editor!EditorAssumption /\ Evidence!EvidenceAssumption
  /\ Street!ConfiguredAssumption /\ Map!MapAssumption
  /\ Triage!TriageAssumption

analysisVars == <<active, picked, uploads, start, runs, streamed, socket,
                  closing, polled, asked, work>>
shellVars == <<path, tabs, covers, session, sidebar>>
alertVars == <<board, server, mail, liveAlerts, list, fetch, throttle, acking>>
viewVars == <<shown, mounted, paused, live, feed, late, bitmap, recording,
              running, since>>
readingVars == <<reading, risk, track, sightings>>
deskVars == <<stored, listed, dialog, save, locator, run, auto>>
editorVars == <<chosenCameraId, defaultCameraId, editing, corners, dragging,
                pendingDelete, zoneSave, zoneRemoval>>
evidenceVars == <<tier, tierFilter, pageNumber, itemShown, confirming,
                  changing, verifying, verification,
                  uploading>>
streetVars == <<location, provider, radius, status, overtaken, viewers,
                googleLoader>>
mapVars == <<drawing, streetMode, zoneDialog, create, marking,
             calibrate, calibrated, frameSizes>>
registryVars == <<open, step, draft, touched, result, register, orphan, rows,
                  testing, testResult, removalAsked, remove>>
triageVars == <<triaged, onlyOpen, alertPage, items, selectedId, detail, form,
                request>>

consoleVars ==
  <<part, analysisVars, shellVars, alertVars, viewVars, readingVars, deskVars,
    editorVars, evidenceVars, streetVars, mapVars, registryVars, triageVars>>

\* A part that stands still begins in one of the states it may begin in.
ConsoleInit ==
  /\ part \in {"analysis", "shell", "alerts", "view", "reading", "desk", "editor",
               "evidence", "street", "map", "registry", "triage"}
  /\ Analysis!AnalysisInit /\ Board!AlertsInit /\ Street!StreetInit /\ Registry!RegistryInit
  /\ Map!MapInit /\ Triage!TriageInit
  /\ Shell!ShellInit
  /\ part # "shell" => path = Home
  /\ View!ViewInit
  /\ part # "alerts" => board = "all"
  /\ part # "view" => shown = CHOOSE c \in Cameras : TRUE
  /\ Reading!ReadingInit
  /\ part # "reading" => reading = "path"
  /\ Desk!DeskInit
  /\ part # "desk" => stored = [f \in Desk!Fields |-> Desk!NotSet]
  /\ Editor!EditorInit
  /\ part # "editor" => defaultCameraId = CHOOSE c \in Feeds : TRUE
  /\ Evidence!EvidenceInit

AnalysisMoves ==
  /\ part = "analysis" /\ Analysis!AnalysisNext
  /\ UNCHANGED <<part, shellVars, alertVars, viewVars, readingVars, deskVars,
                 editorVars, evidenceVars, streetVars,
                 mapVars, registryVars, triageVars>>

ShellMoves ==
  /\ part = "shell" /\ Shell!ShellNext
  /\ UNCHANGED <<part, analysisVars, alertVars, viewVars, readingVars, deskVars,
                 editorVars, evidenceVars, streetVars,
                 mapVars, registryVars, triageVars>>

BoardMoves ==
  /\ part = "alerts" /\ Board!AlertsNext
  /\ UNCHANGED <<part, analysisVars, shellVars, viewVars, readingVars, deskVars,
                 editorVars, evidenceVars, streetVars,
                 mapVars, registryVars, triageVars>>

ViewMoves ==
  /\ part = "view" /\ View!ViewNext
  /\ UNCHANGED <<part, analysisVars, shellVars, alertVars, readingVars, deskVars,
                 editorVars, evidenceVars, streetVars,
                 mapVars, registryVars, triageVars>>

ReadingMoves ==
  /\ part = "reading" /\ Reading!ReadingNext
  /\ UNCHANGED <<part, analysisVars, shellVars, alertVars, viewVars, deskVars,
                 editorVars, evidenceVars, streetVars,
                 mapVars, registryVars, triageVars>>

DeskMoves ==
  /\ part = "desk" /\ Desk!DeskNext
  /\ UNCHANGED <<part, analysisVars, shellVars, alertVars, viewVars, readingVars,
                 editorVars, evidenceVars, streetVars,
                 mapVars, registryVars, triageVars>>

EditorMoves ==
  /\ part = "editor" /\ Editor!EditorNext
  /\ UNCHANGED <<part, analysisVars, shellVars, alertVars, viewVars, readingVars,
                 deskVars, evidenceVars, streetVars,
                 mapVars, registryVars, triageVars>>

EvidenceMoves ==
  /\ part = "evidence" /\ Evidence!EvidenceNext
  /\ UNCHANGED <<part, analysisVars, shellVars, alertVars, viewVars, readingVars,
                 deskVars, editorVars, streetVars,
                 mapVars, registryVars, triageVars>>

StreetMoves ==
  /\ part = "street" /\ Street!StreetNext
  /\ UNCHANGED <<part, analysisVars, shellVars, alertVars, viewVars, readingVars,
                 deskVars, editorVars, evidenceVars,
                 mapVars, registryVars, triageVars>>

MapMoves ==
  /\ part = "map" /\ Map!MapNext
  /\ UNCHANGED <<part, analysisVars, shellVars, alertVars, viewVars, readingVars,
                 deskVars, editorVars, evidenceVars,
                 streetVars, registryVars, triageVars>>

RegistryMoves ==
  /\ part = "registry" /\ Registry!RegistryNext
  /\ UNCHANGED <<part, analysisVars, shellVars, alertVars, viewVars, readingVars,
                 deskVars, editorVars, evidenceVars,
                 streetVars, mapVars, triageVars>>

TriageMoves ==
  /\ part = "triage" /\ Triage!TriageNext
  /\ UNCHANGED <<part, analysisVars, shellVars, alertVars, viewVars, readingVars,
                 deskVars, editorVars, evidenceVars,
                 streetVars, mapVars, registryVars>>

ConsoleNext ==
  \/ AnalysisMoves
  \/ ShellMoves
  \/ BoardMoves
  \/ ViewMoves
  \/ ReadingMoves
  \/ DeskMoves
  \/ EditorMoves
  \/ EvidenceMoves
  \/ StreetMoves
  \/ MapMoves
  \/ RegistryMoves
  \/ TriageMoves

\* A part that stands still owes nothing; the analysis page then has no job.
ConsoleFairness ==
  /\ Analysis!AnalysisFairness
  /\ WF_alertVars(part = "alerts" /\ Board!Refetch)
  /\ SF_alertVars(part = "alerts" /\ Board!Fetched)

ConsoleSpec == ConsoleInit /\ [][ConsoleNext]_consoleVars /\ ConsoleFairness

(***************************************************************************)
(* Properties                                                              *)
(***************************************************************************)
\* Of the part that moves: the others stand as they may begin.
ConsoleTypeOK ==
  /\ part = "analysis" => Analysis!AnalysisTypeOK
  /\ part = "shell" => Shell!ShellTypeOK
  /\ part = "alerts" => Board!AlertsTypeOK
  /\ part = "view" => View!ViewTypeOK
  /\ part = "reading" => Reading!ReadingTypeOK
  /\ part = "desk" => Desk!DeskTypeOK
  /\ part = "editor" => Editor!EditorTypeOK
  /\ part = "evidence" => Evidence!EvidenceTypeOK
  /\ part = "street" => Street!StreetTypeOK
  /\ part = "map" => Map!MapTypeOK
  /\ part = "registry" => Registry!RegistryTypeOK
  /\ part = "triage" => Triage!TriageTypeOK

\* The tab strip: see ConsoleShell.
TabsSound == part = "shell" => Shell!TabsSound

\* The layers of keyboard shortcuts: see ConsoleShell.
KeysLayered == part = "shell" => Shell!KeysLayered

\* The progress of a video analysis: see VideoAnalysis.
ProgressStands == Analysis!ProgressStands

\* The end of a video analysis: see VideoAnalysis.
ResultArrives == Analysis!ResultArrives

\* The alerts on the board: see LiveAlerts.
NoneHidden == Board!NoneHidden

\* The acknowledgements on the board: see LiveAlerts.
AckShown == Board!AckShown

\* The picture of a camera: see CameraView.
PictureTrue == View!PictureTrue

\* The recording of a camera: see CameraView.
RecordingInHand == part = "view" => View!RecordingInHand

\* What the dialogs compute from an alert and a track: see TrackReading.
ReadingsSound == part = "reading" => Reading!ReadingsSound

\* What a page sends or shows after its answers have overtaken each other and its
\* dialogs have been closed and opened again: see the properties of these names.
PagesSound ==
  /\ part = "analysis" => Analysis!LiveIsTrue
  /\ part = "desk" => Desk!OnlyChangesSent
  /\ part = "editor" => Editor!DrawnWhereStored
  /\ part = "evidence" => Evidence!VerdictsBelong /\ Evidence!OneAtATime
  /\ part = "street" => Street!PanoramaTrue
  /\ part = "map" => Map!MapWorkSound
  /\ part = "registry" => Registry!RegistrationReviewed
  /\ part = "triage" => Triage!NotesBelong /\ Triage!ReviewGoesOn
=============================================================================
