------------------------------- MODULE ThreatMap -------------------------------
(***************************************************************************)
(* The tools of the threat map (frontend/src/pages/MapViewPage.tsx): an    *)
(* area is drawn on the map and saved as a fence of a calibrated camera    *)
(* (components/map/MapZoneDialog.tsx), and a camera is calibrated by the   *)
(* same landmarks marked in its image and on the map                       *)
(* (components/camera/CalibrationDialog.tsx).                              *)
(*                                                                         *)
(* The operator has the supervisor role: without it nothing here can be    *)
(* drawn or calibrated.  What the street-level panel shows is StreetView's.*)
(***************************************************************************)
EXTENDS Naturals, Functions

CONSTANTS Cameras, NoCamera,
          Sizes, NoSize,  \* image sizes
          MIN_POINTS,     \* landmark pairs a calibration needs
          MaxCorners,     \* bound: corners of a drawing
          MaxPairs        \* bound: landmark pairs of one image size

MapAssumption == MIN_POINTS \in Nat /\ MaxCorners \in Nat /\ MaxPairs \in Nat

VARIABLES
  drawing,     \* corners placed, or NotDrawing
  streetMode,  \* clicks on the map open the panorama there
  zoneDialog,  \* the finished drawing and the camera chosen for it, or NoDialog
  create,      \* the request to save a fence, sent by this dialog or an earlier one
  marking,     \* the calibration dialog, or NoDialog
  calibrate,   \* the request to calibrate, likewise
  calibrated,  \* the cameras the list says are calibrated
  frameSizes   \* the size each camera was last shown in, or NoSize

mapVars == <<drawing, streetMode, zoneDialog, create, marking, calibrate,
             calibrated, frameSizes>>

NotDrawing == MaxCorners + 1
NoDialog == [open |-> FALSE]

Fences == [corners : Nat, cameraId : Cameras]
Calibrations == [points : [Sizes -> Nat], image_size : Sizes]
NoRequest == [sent |-> FALSE]

MapTypeOK ==
  /\ drawing \in 0..NotDrawing
  /\ streetMode \in BOOLEAN
  /\ \/ zoneDialog = NoDialog
     \/ zoneDialog \in [polygon : 0..MaxCorners, cameraId : Cameras \cup {NoCamera}]
  /\ \/ marking = NoDialog
     \/ marking \in [camera : Cameras, points : [Sizes -> 0..MaxPairs], live : BOOLEAN,
                     probing : BOOLEAN, snapshot : Sizes \cup {NoSize}, image : Sizes \cup {NoSize}, geo : BOOLEAN]
  /\ create = NoRequest \/ create \in Fences
  /\ calibrate = NoRequest \/ calibrate \in Calibrations
  /\ calibrated \subseteq Cameras
  /\ frameSizes \in [Cameras -> Sizes \cup {NoSize}]

MapInit ==
  /\ drawing = NotDrawing /\ streetMode = FALSE
  /\ zoneDialog = NoDialog /\ create = NoRequest
  /\ marking = NoDialog /\ calibrate = NoRequest
  /\ calibrated = {} /\ frameSizes = [c \in Cameras |-> NoSize]

\* Mutant of dialogOpen: the keys of the page work beneath the fence dialog
OnlyCalibration == marking # NoDialog

\* A dialog lies over the page: neither its keys nor its buttons are in reach.
dialogOpen == zoneDialog # NoDialog \/ marking # NoDialog

(***************************************************************************)
(* Drawing and looking around                                              *)
(***************************************************************************)
unchangedDialogs == UNCHANGED <<zoneDialog, create, marking, calibrate, calibrated, frameSizes>>

toggleDrawing ==
  /\ ~dialogOpen
  /\ IF drawing # NotDrawing
     THEN drawing' = NotDrawing /\ UNCHANGED streetMode
     ELSE drawing' = 0 /\ streetMode' = FALSE
  /\ unchangedDialogs

\* Leaves a drawing under way as it is.
toggleStreetMode ==
  /\ ~dialogOpen
  /\ streetMode' = ~streetMode
  /\ UNCHANGED drawing /\ unchangedDialogs

\* One click serves every tool that is on.
MapClick ==
  /\ ~dialogOpen
  /\ drawing # NotDrawing \/ streetMode
  /\ drawing' = IF drawing \in 0..(MaxCorners - 1) THEN drawing + 1 ELSE drawing
  /\ UNCHANGED streetMode /\ unchangedDialogs

UndoCorner ==
  /\ drawing \in 1..MaxCorners /\ ~dialogOpen
  /\ drawing' = drawing - 1
  /\ UNCHANGED streetMode /\ unchangedDialogs

\* Cancel, and Escape.
CancelDrawing ==
  /\ drawing # NotDrawing /\ ~dialogOpen
  /\ drawing' = NotDrawing
  /\ UNCHANGED streetMode /\ unchangedDialogs

\* Finish, and Enter.  The dialog is made with the first calibrated camera, or none.
finishDrawing ==
  /\ drawing \in 3..MaxCorners /\ ~dialogOpen
  /\ \E c \in IF calibrated = {} THEN {NoCamera} ELSE calibrated :
       zoneDialog' = [polygon |-> drawing, cameraId |-> c]
  /\ drawing' = NotDrawing
  /\ UNCHANGED <<streetMode, create, marking, calibrate, calibrated, frameSizes>>

(***************************************************************************)
(* The fence dialog                                                        *)
(***************************************************************************)
unchangedTools == UNCHANGED <<drawing, streetMode, calibrated, frameSizes>>

setCameraId(c) ==
  /\ zoneDialog # NoDialog /\ c \in calibrated /\ zoneDialog.cameraId # c
  /\ zoneDialog' = [zoneDialog EXCEPT !.cameraId = c]
  /\ UNCHANGED <<create, marking, calibrate>> /\ unchangedTools

\* Bound: one request at a time, where every dialog sends one at a time.
submitFence ==
  /\ zoneDialog # NoDialog /\ zoneDialog.cameraId # NoCamera /\ create = NoRequest
  /\ create' = [corners |-> zoneDialog.polygon, cameraId |-> zoneDialog.cameraId]
  /\ UNCHANGED <<zoneDialog, marking, calibrate>> /\ unchangedTools

\* What was sent is still answered.
CloseZoneDialog ==
  /\ zoneDialog # NoDialog
  /\ zoneDialog' = NoDialog
  /\ UNCHANGED <<create, marking, calibrate>> /\ unchangedTools

\* onSuccess closes the dialog that is open, be it the one that sent this or not.
FenceSaved ==
  /\ create # NoRequest
  /\ create' = NoRequest /\ zoneDialog' = NoDialog
  /\ UNCHANGED <<marking, calibrate>> /\ unchangedTools

FenceFails ==
  /\ create # NoRequest
  /\ create' = NoRequest
  /\ UNCHANGED <<zoneDialog, marking, calibrate>> /\ unchangedTools

(***************************************************************************)
(* The calibration dialog                                                  *)
(***************************************************************************)
\* The effect of the new dialog asks for a frame unless there is a live one.
Opened(c, live) ==
  [camera |-> c, points |-> [s \in Sizes |-> 0], live |-> live, probing |-> ~live,
   snapshot |-> NoSize, image |-> NoSize, geo |-> FALSE]

setCalibrating(c) ==
  /\ ~dialogOpen
  /\ \E live \in BOOLEAN : marking' = Opened(c, live)
  /\ UNCHANGED <<zoneDialog, create, calibrate>> /\ unchangedTools

\* "Calibrate" in the fence dialog, when no camera is: the drawing is given up.
CalibrateFirst(c) ==
  /\ zoneDialog # NoDialog /\ calibrated = {}
  /\ zoneDialog' = NoDialog
  /\ \E live \in BOOLEAN : marking' = Opened(c, live)
  /\ UNCHANGED <<create, calibrate>> /\ unchangedTools

\* The size the camera was last shown in comes before that of the frame asked for.
size == IF frameSizes[marking.camera] # NoSize THEN frameSizes[marking.camera] ELSE marking.snapshot

unchangedMap == UNCHANGED <<zoneDialog, create, calibrate>> /\ unchangedTools

Probed ==
  /\ marking # NoDialog /\ marking.probing
  /\ \E s \in Sizes \cup {NoSize} : marking' = [marking EXCEPT !.probing = FALSE, !.snapshot = s]
  /\ unchangedMap

LiveFrame ==
  /\ marking # NoDialog /\ ~marking.live
  /\ marking' = [marking EXCEPT !.live = TRUE]
  /\ unchangedMap

\* The effect on the marks: the same landmark marked in both views is a pair.
Paired(m) ==
  IF m.image # NoSize /\ m.geo
  THEN [m EXCEPT !.points[m.image] = @ + 1, !.image = NoSize, !.geo = FALSE]
  ELSE m

HasRoom == \A s \in Sizes : marking.points[s] < MaxPairs

onImageClick ==
  /\ marking # NoDialog /\ HasRoom
  /\ marking.live \/ marking.snapshot # NoSize
  /\ size # NoSize
  /\ marking' = Paired([marking EXCEPT !.image = size])
  /\ unchangedMap

onPick ==
  /\ marking # NoDialog /\ HasRoom
  /\ marking' = Paired([marking EXCEPT !.geo = TRUE])
  /\ unchangedMap

RemovePair(s) ==
  /\ marking # NoDialog /\ marking.points[s] > 0
  /\ marking' = [marking EXCEPT !.points[s] = @ - 1]
  /\ unchangedMap

ready == SumFunction(marking.points) >= MIN_POINTS /\ size # NoSize

SaveCalibration ==
  /\ marking # NoDialog /\ ready /\ calibrate = NoRequest
  /\ calibrate' = [points |-> marking.points, image_size |-> size]
  /\ UNCHANGED <<zoneDialog, create, marking>> /\ unchangedTools

CloseCalibration ==
  /\ marking # NoDialog
  /\ marking' = NoDialog
  /\ UNCHANGED <<zoneDialog, create, calibrate>> /\ unchangedTools

\* As with fences, whichever calibration is open is closed.
CalibrationSaved ==
  /\ calibrate # NoRequest
  /\ calibrate' = NoRequest /\ marking' = NoDialog
  /\ UNCHANGED <<zoneDialog, create>> /\ unchangedTools

CalibrationFails ==
  /\ calibrate # NoRequest
  /\ calibrate' = NoRequest
  /\ UNCHANGED <<zoneDialog, create, marking>> /\ unchangedTools

\* The list is fetched again, for this or another reason.
CamerasRefetched ==
  /\ calibrated' \in SUBSET Cameras
  /\ UNCHANGED <<drawing, streetMode, zoneDialog, create, marking, calibrate, frameSizes>>

\* A feed, such as the right panel's, shows the camera: marks made before this may
\* be in another size than those made after it.
setFrameSize(c) ==
  /\ \E s \in Sizes : frameSizes' = [frameSizes EXCEPT ![c] = s]
  /\ UNCHANGED <<drawing, streetMode, zoneDialog, create, marking, calibrate, calibrated>>

MapNext ==
  \/ toggleDrawing \/ toggleStreetMode \/ MapClick
  \/ UndoCorner \/ CancelDrawing \/ finishDrawing
  \/ submitFence \/ CloseZoneDialog \/ FenceSaved \/ FenceFails
  \/ \E c \in Cameras : setCameraId(c) \/ setCalibrating(c) \/ CalibrateFirst(c) \/ setFrameSize(c)
  \/ Probed \/ LiveFrame \/ onImageClick \/ onPick
  \/ \E s \in Sizes : RemovePair(s)
  \/ SaveCalibration \/ CloseCalibration \/ CalibrationSaved \/ CalibrationFails
  \/ CamerasRefetched

(***************************************************************************)
(* Properties                                                              *)
(***************************************************************************)
\* No area is drawn on beneath the dialog that would save it; and what is sent stands
\* up: a fence has three corners, a calibration its landmark pairs and an image size,
\* whatever was undone, removed or closed since.
MapWorkSound ==
  /\ zoneDialog # NoDialog => drawing = NotDrawing
  /\ create # NoRequest => create.corners >= 3
  /\ calibrate # NoRequest =>
       SumFunction(calibrate.points) >= MIN_POINTS /\ calibrate.image_size # NoSize
=============================================================================
