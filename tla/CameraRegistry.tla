----------------------------- MODULE CameraRegistry -----------------------------
(***************************************************************************)
(* The camera registry page: the registration wizard of four steps         *)
(* (frontend/src/components/camera/CameraRegistration.tsx), and the row    *)
(* actions test, set online or offline, delete                             *)
(* (frontend/src/pages/CamerasPage.tsx).  What the operator has typed into *)
(* a step is sound or not, as validateCameraDraft of lib/validation.ts has *)
(* it; the Review step has no fields.                                      *)
(***************************************************************************)
EXTENDS Naturals

CONSTANTS Cameras, NoCamera

VARIABLES
  open,          \* the wizard
  step, draft, touched, result,
  register,      \* the registration the wizard waits for, as typed, or NoDraft
  orphan,        \* one that a wizard closed since had sent, or NoDraft
  rows,        \* the cameras of the list
  testing,       \* stream tests under way
  testResult,    \* the camera whose test is shown, or NoCamera
  pendingDelete, \* the camera the dialog asks about, or NoCamera
  remove         \* the deletion under way, or NoCamera

registryVars == <<open, step, draft, touched, result, register, orphan, rows,
                  testing, testResult, pendingDelete, remove>>

Identity == 0  Location == 1  Stream == 2  Review == 3
Fields == {Identity, Location, Stream}
Drafts == [Fields -> BOOLEAN]
EMPTY == [part \in Fields |-> part = Location]
NoDraft == [part \in {} |-> FALSE]

RegistryTypeOK ==
  /\ open \in BOOLEAN /\ step \in Identity..Review /\ draft \in Drafts
  /\ touched \in BOOLEAN /\ result \in BOOLEAN
  /\ register \in Drafts \cup {NoDraft} /\ orphan \in Drafts \cup {NoDraft}
  /\ rows \subseteq Cameras /\ testing \subseteq Cameras
  /\ {testResult, pendingDelete, remove} \subseteq Cameras \cup {NoCamera}

RegistryInit ==
  /\ open = FALSE /\ step = Identity /\ draft = EMPTY /\ touched = FALSE /\ result = FALSE
  /\ register = NoDraft /\ orphan = NoDraft
  /\ rows = Cameras /\ testing = {} /\ testResult = NoCamera
  /\ pendingDelete = NoCamera /\ remove = NoCamera

unchangedPage == UNCHANGED <<rows, testing, testResult, pendingDelete, remove>>
unchangedWizard == UNCHANGED <<open, step, draft, touched, result, register, orphan>>

\* A dialog lies over the page, which the modal one does not let through.
InReach == ~open /\ testResult = NoCamera /\ pendingDelete = NoCamera

(***************************************************************************)
(* The wizard                                                              *)
(***************************************************************************)
\* The fields of a step and of those before it.
validateCameraDraft(d, s) == \A part \in Fields : part <= s => d[part]

OpenWizard ==
  /\ InReach
  /\ open' = TRUE
  /\ UNCHANGED <<step, draft, touched, result, register, orphan>> /\ unchangedPage

\* Typing into a field of the step shown.
set ==
  /\ open /\ ~result /\ step \in Fields
  /\ draft' = [draft EXCEPT ![step] = ~@]
  /\ UNCHANGED <<open, step, touched, result, register, orphan>> /\ unchangedPage

\* Mutant of CanGoBack: also while the registration is under way
AlwaysBack == open /\ ~result /\ step > Identity

CanGoBack == open /\ ~result /\ step > Identity /\ register = NoDraft

Back ==
  /\ CanGoBack
  /\ step' = step - 1
  /\ UNCHANGED <<open, draft, touched, result, register, orphan>> /\ unchangedPage

\* The button of the last step sends what was typed.
next ==
  /\ open /\ ~result /\ register = NoDraft
  /\ IF ~validateCameraDraft(draft, step)
     THEN touched' = TRUE /\ UNCHANGED <<step, register>>
     ELSE /\ touched' = FALSE
          /\ IF step < Review
             THEN step' = step + 1 /\ UNCHANGED register
             ELSE register' = draft /\ UNCHANGED step
  /\ UNCHANGED <<open, draft, result, orphan>> /\ unchangedPage

\* reset forgets the registration under way, which runs on.  Bound: one of those.
reset ==
  /\ step' = Identity /\ draft' = EMPTY /\ touched' = FALSE /\ result' = FALSE
  /\ register = NoDraft \/ orphan = NoDraft
  /\ register' = NoDraft
  /\ orphan' = IF register # NoDraft THEN register ELSE orphan

close == open /\ open' = FALSE /\ reset /\ unchangedPage

RegisterAnother == open /\ result /\ reset /\ UNCHANGED open /\ unchangedPage

\* onSuccess runs whether the wizard waits for it or has been reset.
Registered ==
  /\ \/ register # NoDraft /\ register' = NoDraft /\ UNCHANGED orphan
     \/ orphan # NoDraft /\ orphan' = NoDraft /\ UNCHANGED register
  /\ result' = TRUE
  /\ UNCHANGED <<open, step, draft, touched>> /\ unchangedPage

RegistrationFails ==
  /\ \/ register # NoDraft /\ register' = NoDraft /\ UNCHANGED orphan
     \/ orphan # NoDraft /\ orphan' = NoDraft /\ UNCHANGED register
  /\ UNCHANGED <<open, step, draft, touched, result>> /\ unchangedPage

(***************************************************************************)
(* The rows of the list                                                    *)
(***************************************************************************)
\* A second test may be asked for: only the last row asked for shows it is under way.
test(c) ==
  /\ InReach /\ c \in rows
  /\ testing' = testing \cup {c}
  /\ UNCHANGED <<rows, testResult, pendingDelete, remove>> /\ unchangedWizard

Tested(c) ==
  /\ c \in testing
  /\ testing' = testing \ {c} /\ testResult' = c
  /\ UNCHANGED <<rows, pendingDelete, remove>> /\ unchangedWizard

TestFails(c) ==
  /\ c \in testing
  /\ testing' = testing \ {c}
  /\ UNCHANGED <<rows, testResult, pendingDelete, remove>> /\ unchangedWizard

CloseTest ==
  /\ testResult # NoCamera
  /\ testResult' = NoCamera
  /\ UNCHANGED <<rows, testing, pendingDelete, remove>> /\ unchangedWizard

AskDelete(c) ==
  /\ InReach /\ c \in rows
  /\ pendingDelete' = c
  /\ UNCHANGED <<rows, testing, testResult, remove>> /\ unchangedWizard

KeepCamera ==
  /\ pendingDelete # NoCamera
  /\ pendingDelete' = NoCamera
  /\ UNCHANGED <<rows, testing, testResult, remove>> /\ unchangedWizard

ConfirmDelete ==
  /\ pendingDelete # NoCamera /\ remove = NoCamera
  /\ remove' = pendingDelete
  /\ UNCHANGED <<rows, testing, testResult, pendingDelete>> /\ unchangedWizard

\* Whichever camera is asked about by now, the dialog goes.
Removed ==
  /\ remove # NoCamera
  /\ remove' = NoCamera /\ pendingDelete' = NoCamera
  /\ UNCHANGED <<rows, testing, testResult>> /\ unchangedWizard

RemovalFails ==
  /\ remove # NoCamera
  /\ remove' = NoCamera
  /\ UNCHANGED <<rows, testing, testResult, pendingDelete>> /\ unchangedWizard

\* After a registration, a status change, a removal, or any of another operator's.
ListRefetched ==
  /\ rows' \in SUBSET Cameras
  /\ UNCHANGED <<testing, testResult, pendingDelete, remove>> /\ unchangedWizard

RegistryNext ==
  \/ OpenWizard \/ set \/ Back \/ next \/ close \/ RegisterAnother
  \/ Registered \/ RegistrationFails
  \/ \E c \in Cameras : test(c) \/ Tested(c) \/ TestFails(c) \/ AskDelete(c)
  \/ CloseTest \/ KeepCamera \/ ConfirmDelete \/ Removed \/ RemovalFails \/ ListRefetched

(***************************************************************************)
(* Properties                                                              *)
(***************************************************************************)
\* What is sent for registration is sound in every step, whichever steps the
\* operator went back to; and the wizard that waits still shows just that.
RegistrationReviewed ==
  /\ \A sent \in {register, orphan} \ {NoDraft} : \A part \in Fields : sent[part]
  /\ register # NoDraft => register = draft
=============================================================================
