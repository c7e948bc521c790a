------------------------------ MODULE CameraDesk ------------------------------
(***************************************************************************)
(* Changing a camera's record from the console: the edit dialog            *)
(* (frontend/src/components/camera/CameraEditDialog.tsx), locating it      *)
(* (LocateCameraDialog.tsx, lib/geolocation.ts) and the console locating   *)
(* the cameras attached to it by itself (hooks/useAutoLocate.ts).          *)
(*                                                                         *)
(* There is one camera, a local device, and another operator who edits it  *)
(* too.  The pair of coordinates is "gps"; "place" stands for each of the  *)
(* other fields, which are compared and sent one by one.                   *)
(***************************************************************************)
EXTENDS Naturals, Functions

CONSTANT MaxFlights   \* bound: automatic locations under way

DeskAssumption == MaxFlights \in Nat \ {0}

VARIABLES
  stored,    \* the backend's record
  listed,    \* the record in the query cache, the camera of every dialog
  dialog,    \* the edit dialog; touched: the fields the operator typed in it, and
             \* those that the list has changed since it was opened
  save,      \* the PATCH of the edit dialog; mine: of the page still shown
  locator,   \* the locate dialog; mine: its own run is under way
  run,       \* a run of "Enable location"
  auto       \* automatic location: flights under way, and sessionStorage's mark

deskVars == <<stored, listed, dialog, save, locator, run, auto>>

Fields == {"place", "gps"}
NotSet == 0
Entered == 1
Invalid == 2   \* typed coordinates out of range, or only one of them
Camera == [Fields -> {NotSet, Entered}]
Payload == UNION {[S -> {NotSet, Entered, Invalid}] : S \in SUBSET Fields}
\* stray: the fields it carries that are not touched
Request == [stage : {"sent", "done"}, payload : Payload, stray : SUBSET Fields]
NoPayload == [f \in {} |-> NotSet]
NoRequest == [stage |-> "none", payload |-> NoPayload, stray |-> {}]
Done == [NoRequest EXCEPT !.stage = "done"]
Closed == [open |-> FALSE, fields |-> [f \in Fields |-> NotSet], touched |-> {}]

DeskTypeOK ==
  /\ stored \in Camera /\ listed \in Camera
  /\ dialog \in [open : BOOLEAN, fields : [Fields -> {NotSet, Entered, Invalid}],
                 touched : SUBSET Fields]
  /\ save.request \in Request \cup {NoRequest} /\ save.mine \in BOOLEAN
  /\ locator \in [open : BOOLEAN, mine : BOOLEAN]
  /\ run.step \in {"none", "locating", "saving"}
  /\ run.request \in Request \cup {NoRequest}
  /\ auto \in [flights : 0..MaxFlights, place : BOOLEAN, tried : BOOLEAN]

(***************************************************************************)
(* What is sent                                                            *)
(***************************************************************************)
validateCameraEdit == dialog.fields["gps"] # Invalid

\* Mutant of cameraEditPayload: the whole form is sent
WholeForm == dialog.fields

cameraEditPayload ==
  Restrict(dialog.fields, {f \in Fields : dialog.fields[f] # listed[f]})

Apply(payload) == [f \in Fields |-> IF f \in DOMAIN payload THEN payload[f] ELSE stored[f]]

\* The other unsaved edits travel with the fix; a camera without a place gets one.
located ==
  LET other == Restrict(cameraEditPayload, DOMAIN cameraEditPayload \ {"gps"})
      place == IF "place" \in DOMAIN other THEN other["place"] ELSE listed["place"]
      named == IF place = NotSet THEN {"place"} ELSE {}
  IN  [stage |-> "sent",
       payload |-> [f \in DOMAIN other \cup {"gps"} \cup named |->
                      IF f \in named \cup {"gps"} THEN Entered ELSE other[f]],
       stray |-> DOMAIN other \ dialog.touched]

(***************************************************************************)
(* The list, and the console locating the camera by itself                 *)
(***************************************************************************)
\* Mutant of markAttempted: the marks cannot be stored
NotMarked(a) == a.tried

markAttempted(a) == TRUE

\* The effect runs when the camera has just become one without coordinates.
AutoLocate(before, now) ==
  auto' = IF before["gps"] # NotSet /\ now["gps"] = NotSet /\ ~auto.tried
                /\ auto.flights < MaxFlights
          THEN [flights |-> auto.flights + 1, place |-> now["place"] = NotSet,
                tried |-> markAttempted(auto)]
          ELSE auto

\* The form is filled once: the dialog takes the new record for its camera, and
\* its fields stay.
Renew ==
  /\ listed' = stored
  /\ dialog' = [dialog EXCEPT !.touched =
                  IF dialog.open THEN @ \cup {f \in Fields : listed[f] # stored[f]} ELSE @]
  /\ AutoLocate(listed, stored)

Refreshed == Renew /\ UNCHANGED <<stored, save, locator, run>>

\* Nothing looks at the record again before it is written.
AutoStored ==
  /\ auto.flights > 0
  /\ auto' = [auto EXCEPT !.flights = @ - 1, !.place = FALSE]
  /\ stored' = Apply([f \in IF auto.place THEN Fields ELSE {"gps"} |-> Entered])
  /\ UNCHANGED <<listed, dialog, save, locator, run>>

AutoFails ==
  /\ auto.flights > 0
  /\ auto' = [auto EXCEPT !.flights = @ - 1, !.place = FALSE]
  /\ UNCHANGED <<stored, listed, dialog, save, locator, run>>

OtherEdits ==
  /\ \E f \in Fields : \E v \in {NotSet, Entered} \ {stored[f]} :
       stored' = [stored EXCEPT ![f] = v]
  /\ UNCHANGED <<listed, dialog, save, locator, run, auto>>

(***************************************************************************)
(* The edit dialog                                                         *)
(***************************************************************************)
formFor ==
  /\ ~dialog.open
  /\ dialog' = [open |-> TRUE, fields |-> listed, touched |-> {}]
  /\ UNCHANGED <<stored, listed, save, locator, run, auto>>

\* In its fields or, for the coordinates, on the map.
set(f) ==
  /\ dialog.open /\ ~locator.open
  /\ \E v \in {NotSet, Entered} \cup (IF f = "gps" THEN {Invalid} ELSE {}) :
       dialog' = [dialog EXCEPT !.fields[f] = v, !.touched = @ \cup {f}]
  /\ UNCHANGED <<stored, listed, save, locator, run, auto>>

\* Cancel is not kept from closing by a PATCH under way.
CancelEdit ==
  /\ dialog.open /\ ~locator.open
  /\ dialog' = Closed
  /\ UNCHANGED <<stored, listed, save, locator, run, auto>>

\* Bound: one request of the two dialogs at a time.
submit ==
  /\ dialog.open /\ ~locator.open /\ save.request = NoRequest /\ run.step = "none"
  /\ validateCameraEdit /\ cameraEditPayload # NoPayload
  /\ save' = [request |-> [stage |-> "sent", payload |-> cameraEditPayload,
                           stray |-> DOMAIN cameraEditPayload \ dialog.touched],
              mine |-> TRUE]
  /\ UNCHANGED <<stored, listed, dialog, locator, run, auto>>

SaveStored ==
  /\ save.request.stage = "sent"
  /\ stored' = Apply(save.request.payload)
  /\ save' = [save EXCEPT !.request = Done]
  /\ UNCHANGED <<listed, dialog, locator, run, auto>>

\* Also a dialog that was opened anew meanwhile is closed.
Saved ==
  /\ save.request.stage = "done"
  /\ save' = [request |-> NoRequest, mine |-> FALSE]
  /\ dialog' = IF save.mine THEN Closed ELSE dialog
  /\ locator' = IF save.mine THEN [open |-> FALSE, mine |-> FALSE] ELSE locator
  /\ UNCHANGED <<stored, listed, run, auto>>

SaveFails ==
  /\ save.request # NoRequest
  /\ save' = [request |-> NoRequest, mine |-> FALSE]
  /\ UNCHANGED <<stored, listed, dialog, locator, run, auto>>

\* Another page: what is under way goes on.
LeaveDesk ==
  /\ dialog' = Closed /\ locator' = [open |-> FALSE, mine |-> FALSE]
  /\ save' = [save EXCEPT !.mine = FALSE]
  /\ UNCHANGED <<stored, listed, run, auto>>

(***************************************************************************)
(* The locate dialog, over the edit dialog                                 *)
(***************************************************************************)
openLocate ==
  /\ dialog.open /\ ~locator.open
  /\ locator' = [open |-> TRUE, mine |-> FALSE]
  /\ UNCHANGED <<stored, listed, dialog, save, run, auto>>

CloseLocate ==
  /\ locator.open /\ ~locator.mine
  /\ locator' = [open |-> FALSE, mine |-> FALSE]
  /\ UNCHANGED <<stored, listed, dialog, save, run, auto>>

\* The browser is asked, if it may be, and Windows when that fails.
locateConsole ==
  /\ locator.open /\ run.step = "none" /\ save.request = NoRequest
  /\ locator' = [locator EXCEPT !.mine = TRUE]
  /\ run' = [step |-> "locating", request |-> located]
  /\ UNCHANGED <<stored, listed, dialog, save, auto>>

Fixed ==
  /\ run.step = "locating"
  /\ run' = [run EXCEPT !.step = "saving"]
  /\ UNCHANGED <<stored, listed, dialog, save, locator, auto>>

LocationStored ==
  /\ run.step = "saving" /\ run.request.stage = "sent"
  /\ stored' = Apply(run.request.payload)
  /\ run' = [run EXCEPT !.request = Done]
  /\ UNCHANGED <<listed, dialog, save, locator, auto>>

\* The list has been fetched anew, and the map is opened, whatever page is shown.
Located ==
  /\ run.step = "saving" /\ run.request.stage = "done"
  /\ run' = [step |-> "none", request |-> NoRequest]
  /\ listed' = stored /\ AutoLocate(listed, stored)
  /\ dialog' = Closed /\ locator' = [open |-> FALSE, mine |-> FALSE]
  /\ save' = [save EXCEPT !.mine = FALSE]
  /\ UNCHANGED stored

LocationFails ==
  /\ run.step # "none"
  /\ run' = [step |-> "none", request |-> NoRequest]
  /\ locator' = [locator EXCEPT !.mine = FALSE]
  /\ UNCHANGED <<stored, listed, dialog, save, auto>>

DeskInit ==
  /\ stored \in Camera /\ listed = stored
  /\ dialog = Closed /\ save = [request |-> NoRequest, mine |-> FALSE]
  /\ locator = [open |-> FALSE, mine |-> FALSE]
  /\ run = [step |-> "none", request |-> NoRequest]
  /\ auto = IF listed["gps"] = NotSet
            THEN [flights |-> 1, place |-> listed["place"] = NotSet, tried |-> TRUE]
            ELSE [flights |-> 0, place |-> FALSE, tried |-> FALSE]

DeskNext ==
  \/ Refreshed \/ AutoStored \/ AutoFails \/ OtherEdits
  \/ formFor \/ CancelEdit \/ submit \/ SaveStored \/ Saved \/ SaveFails \/ LeaveDesk
  \/ \E f \in Fields : set(f)
  \/ openLocate \/ CloseLocate \/ locateConsole \/ Fixed
  \/ LocationStored \/ Located \/ LocationFails

(***************************************************************************)
(* Properties                                                              *)
(***************************************************************************)
\* The console sends of a form what was changed: no request carries a field that
\* was neither typed nor changed in the list under the open dialog, and a camera is
\* located automatically once a session at most (useAutoLocate.ts:32).  This is less
\* than validation.ts:121 says.  The form is filled once (CameraEditDialog.tsx:42)
\* and compared with the record as the list has it by then (line 57): a field that
\* another operator edits under the open dialog is sent back as the form found it.
OnlyChangesSent ==
  /\ save.request.stray = {} /\ run.request.stray = {}
  /\ auto.flights <= 1
=============================================================================
