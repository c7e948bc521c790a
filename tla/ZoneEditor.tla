------------------------------ MODULE ZoneEditor ------------------------------
(***************************************************************************)
(* Drawing fences on the feed of a camera: the Zone Manager                *)
(* (frontend/src/pages/ZoneManagerPage.tsx), one visit of it by an         *)
(* operator who may manage zones.                                          *)
(*                                                                         *)
(* Of the points only their number counts, and over which cameras' feeds   *)
(* they were put.  Each camera has one zone on record, which goes by the   *)
(* camera's name and may be listed or not; what the backend makes of a     *)
(* request is left out.                                                    *)
(***************************************************************************)
EXTENDS Naturals

CONSTANTS Feeds, NoFeed, NoZone, NewZone,
  MaxCorners   \* bound: points of a polygon

EditorAssumption ==
  {NoFeed, NoZone, NewZone} \cap Feeds = {} /\ NewZone # NoZone /\ MaxCorners \in Nat

VARIABLES
  chosenCameraId, \* the camera the operator chose
  defaultCameraId,\* otherwise the one selected elsewhere, or the first one
  editing, corners, dragging, pendingDelete,
  zoneSave,       \* the save mutation
  zoneRemoval     \* the remove mutation

editorVars == <<chosenCameraId, defaultCameraId, editing, corners,
                dragging, pendingDelete, zoneSave, zoneRemoval>>

NoCorners == [count |-> 0, over |-> {}]
Idle == [zone |-> NoZone, camera |-> NoFeed]

EditorTypeOK ==
  /\ chosenCameraId \in Feeds \cup {NoFeed} /\ defaultCameraId \in Feeds
  /\ editing \in Feeds \cup {NoZone, NewZone}
  /\ corners \in [count : 0..MaxCorners, over : SUBSET Feeds] /\ dragging \in BOOLEAN
  /\ pendingDelete \in Feeds \cup {NoZone}
  /\ zoneSave \in [zone : Feeds \cup {NoZone, NewZone}, camera : Feeds \cup {NoFeed}]
  /\ zoneRemoval \in Feeds \cup {NoZone}

cameraId == IF chosenCameraId # NoFeed THEN chosenCameraId ELSE defaultCameraId

EditorInit ==
  /\ chosenCameraId = NoFeed /\ defaultCameraId \in Feeds
  /\ editing = NoZone /\ corners = NoCorners /\ dragging = FALSE
  /\ pendingDelete = NoZone /\ zoneSave = Idle /\ zoneRemoval = NoZone

\* The confirmation covers the page.
AtHand == pendingDelete = NoZone

cancel == editing' = NoZone /\ corners' = NoCorners /\ dragging' = FALSE

\* "New zone" while nothing is edited; a zone of the camera's list at any time.
startEdit(z) ==
  /\ AtHand /\ IF z = NewZone THEN editing = NoZone ELSE z = cameraId
  /\ editing' = z
  /\ corners' = IF z = NewZone THEN NoCorners ELSE [count |-> MaxCorners, over |-> {cameraId}]
  /\ UNCHANGED <<chosenCameraId, defaultCameraId, dragging, pendingDelete,
                 zoneSave, zoneRemoval>>

CancelEditing ==
  /\ AtHand /\ editing # NoZone /\ cancel
  /\ UNCHANGED <<chosenCameraId, defaultCameraId, pendingDelete, zoneSave,
                 zoneRemoval>>

Draw(drawn, drag) ==
  /\ AtHand /\ editing # NoZone
  /\ corners' = drawn /\ dragging' = drag
  /\ UNCHANGED <<chosenCameraId, defaultCameraId, editing, pendingDelete,
                 zoneSave, zoneRemoval>>

\* A point outside the frame is not taken.
onCanvasPointerDown ==
  /\ ~dragging /\ corners.count < MaxCorners
  /\ Draw([count |-> corners.count + 1, over |-> corners.over \cup {cameraId}], FALSE)

GrabPoint == ~dragging /\ corners.count > 0 /\ Draw(corners, TRUE)
onPointerMove == dragging /\ Draw([corners EXCEPT !.over = @ \cup {cameraId}], TRUE)
onPointerUp == dragging /\ Draw(corners, FALSE)

UndoPoint ==
  /\ corners.count > 0
  /\ Draw(IF corners.count = 1 THEN NoCorners ELSE [corners EXCEPT !.count = @ - 1], dragging)

\* Mutant of Choose: the drawing stays
ChooseOnly(c) == chosenCameraId' = c /\ UNCHANGED <<editing, corners, dragging>>

Choose(c) == chosenCameraId' = c /\ cancel

SelectCamera(c) ==
  /\ AtHand /\ Choose(c)
  /\ UNCHANGED <<defaultCameraId, pendingDelete, zoneSave, zoneRemoval>>

\* The list of cameras has changed, or another page element selected one: a
\* drawing that was begun goes on over the other feed.
DefaultMoves ==
  /\ defaultCameraId' \in Feeds
  /\ UNCHANGED <<chosenCameraId, editing, corners, dragging, pendingDelete,
                 zoneSave, zoneRemoval>>

\* The rest of the form is taken to be filled in.
validateZoneForm == corners.count >= 3

\* The mutation takes the camera and the polygon of the moment.
SaveZone ==
  /\ AtHand /\ editing # NoZone /\ zoneSave = Idle /\ validateZoneForm
  /\ zoneSave' = [zone |-> editing,
                  camera |-> IF editing = NewZone THEN cameraId ELSE editing]
  /\ UNCHANGED <<chosenCameraId, defaultCameraId, editing, corners, dragging,
                 pendingDelete, zoneRemoval>>

\* Whatever is edited by now is given up.
ZoneSaved ==
  /\ zoneSave # Idle /\ zoneSave' = Idle /\ cancel
  /\ UNCHANGED <<chosenCameraId, defaultCameraId, pendingDelete, zoneRemoval>>

ZoneSaveFails ==
  /\ zoneSave # Idle /\ zoneSave' = Idle
  /\ UNCHANGED <<chosenCameraId, defaultCameraId, editing, corners, dragging,
                 pendingDelete, zoneRemoval>>

AskDelete ==
  /\ AtHand /\ editing \in Feeds
  /\ pendingDelete' = editing
  /\ UNCHANGED <<chosenCameraId, defaultCameraId, editing, corners, dragging,
                 zoneSave, zoneRemoval>>

\* Escape and "Cancel" leave a removal that is under way alone.
KeepZone ==
  /\ pendingDelete # NoZone /\ pendingDelete' = NoZone
  /\ UNCHANGED <<chosenCameraId, defaultCameraId, editing, corners, dragging,
                 zoneSave, zoneRemoval>>

ConfirmDelete ==
  /\ pendingDelete # NoZone /\ zoneRemoval = NoZone
  /\ zoneRemoval' = pendingDelete
  /\ UNCHANGED <<chosenCameraId, defaultCameraId, editing, corners, dragging,
                 pendingDelete, zoneSave>>

ZoneRemoved ==
  /\ zoneRemoval # NoZone /\ zoneRemoval' = NoZone
  /\ pendingDelete' = NoZone /\ cancel
  /\ UNCHANGED <<chosenCameraId, defaultCameraId, zoneSave>>

RemovalFails ==
  /\ zoneRemoval # NoZone /\ zoneRemoval' = NoZone
  /\ UNCHANGED <<chosenCameraId, defaultCameraId, editing, corners, dragging,
                 pendingDelete, zoneSave>>

EditorNext ==
  \/ \E z \in Feeds \cup {NewZone} : startEdit(z)
  \/ CancelEditing \/ onCanvasPointerDown \/ GrabPoint \/ onPointerMove \/ onPointerUp
  \/ UndoPoint \/ DefaultMoves
  \/ \E c \in Feeds : SelectCamera(c)
  \/ SaveZone \/ ZoneSaved \/ ZoneSaveFails
  \/ AskDelete \/ KeepZone \/ ConfirmDelete \/ ZoneRemoved \/ RemovalFails

(***************************************************************************)
(* Property                                                                *)
(***************************************************************************)
\* Once the operator has chosen the camera, a polygon goes to the camera over
\* whose feed every point of it was put, whatever answers, lists and selections
\* change under the drawing.  It says nothing of the camera the page starts with:
\* while none is chosen the default one (ZoneManagerPage.tsx:43-44) may change under
\* a new zone, and what was drawn over one feed is stored with the other camera.
DrawnWhereStored ==
  chosenCameraId # NoFeed /\ editing # NoZone =>
    corners.over \subseteq {IF editing = NewZone THEN cameraId ELSE editing}
=============================================================================
