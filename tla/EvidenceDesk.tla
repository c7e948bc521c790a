----------------------------- MODULE EvidenceDesk -----------------------------
(***************************************************************************)
(* The evidence locker (frontend/src/pages/EvidencePage.tsx) as an         *)
(* administrator uses it: the filtered list, one piece of evidence in its  *)
(* dialog with its requests, and the upload dialog.                        *)
(*                                                                         *)
(* "all" and one storage tier stand for every filter, and a page of the    *)
(* list holds one piece.  Requests may be answered long after their dialog *)
(* was left, but none is made during an upload, nor an upload meanwhile.   *)
(***************************************************************************)
EXTENDS Naturals, FiniteSets

CONSTANTS Items, NoItem,
  Intact   \* the pieces whose file still has its hash

EvidenceAssumption == NoItem \notin Items /\ IsFiniteSet(Items) /\ Intact \subseteq Items

VARIABLES
  tier,         \* the backend: where each piece is
  tierFilter, pageNumber,
  itemShown,    \* selected, as the list had it when it was clicked
  confirming,   \* confirm: the kind of request and its piece
  changing,     \* archive and remove requests under way
  verifying,    \* the verify request under way
  verification, \* the verdicts given in this visit
  uploading     \* the upload dialog, the uploads under way, and whether the dialog
                \* waits for one of them

evidenceVars == <<tier, tierFilter, pageNumber, itemShown, confirming,
                  changing, verifying, verification, uploading>>

Tiers == {"hot", "archived", "gone"}
Filters == {"all", "hot"}
MaxSent == 2   \* bound: uploads at a time
NoChange == [kind |-> "none", item |-> NoItem]
Changes == [kind : {"archive", "delete"}, item : Items]

EvidenceTypeOK ==
  /\ tier \in [Items -> Tiers]
  /\ tierFilter \in Filters
  /\ pageNumber \in 0..Cardinality(Items)
  /\ itemShown \in [item : Items, hot : BOOLEAN] \cup {[item |-> NoItem, hot |-> FALSE]}
  /\ confirming \in Changes \cup {NoChange} /\ changing \subseteq Changes
  /\ verifying \in Items \cup {NoItem}
  /\ verification \in [Items -> {"none", "valid", "tampered"}]
  /\ uploading \in [open : BOOLEAN, file : BOOLEAN, pending : BOOLEAN, sent : 0..MaxSent]

Matching(filter) ==
  {e \in Items : tier[e] # "gone" /\ filter \in {"all", tier[e]}}

NobodyShown == [item |-> NoItem, hot |-> FALSE]
NoUpload == [open |-> FALSE, file |-> FALSE, pending |-> FALSE, sent |-> 0]

EvidenceInit ==
  /\ tier = [e \in Items |-> "hot"]
  /\ tierFilter = "all" /\ pageNumber = 0
  /\ itemShown = NobodyShown /\ confirming = NoChange /\ changing = {}
  /\ verifying = NoItem /\ verification = [e \in Items |-> "none"]
  /\ uploading = NoUpload

AtList == itemShown = NobodyShown /\ ~uploading.open
InDialog == itemShown # NobodyShown /\ confirming = NoChange

(***************************************************************************)
(* The list                                                                *)
(***************************************************************************)
pages == IF Matching(tierFilter) = {} THEN 1 ELSE Cardinality(Matching(tierFilter))

\* A change of a filter starts at the first page; removals leave the page number.
withReset(filter) ==
  /\ AtList /\ tierFilter' = filter /\ pageNumber' = 0
  /\ UNCHANGED <<tier, itemShown, confirming, changing, verifying,
                 verification, uploading>>

Turn(n) ==
  /\ AtList /\ n \in {pageNumber - 1, pageNumber + 1} /\ n >= 0
  /\ n > pageNumber => n < pages
  /\ pageNumber' = n
  /\ UNCHANGED <<tier, tierFilter, itemShown, confirming, changing,
                 verifying, verification, uploading>>

\* The list may still be that of the former filter, and older than the last change.
Select(e) ==
  /\ AtList
  /\ \E hot \in BOOLEAN : itemShown' = [item |-> e, hot |-> hot]
  /\ UNCHANGED <<tier, tierFilter, pageNumber, confirming, changing,
                 verifying, verification, uploading>>

(***************************************************************************)
(* The dialog of one piece                                                 *)
(***************************************************************************)
Deselect ==
  /\ InDialog /\ itemShown' = NobodyShown
  /\ UNCHANGED <<tier, tierFilter, pageNumber, confirming, changing,
                 verifying, verification, uploading>>

verify ==
  /\ InDialog /\ verifying = NoItem /\ uploading.sent = 0
  /\ verifying' = itemShown.item
  /\ UNCHANGED <<tier, tierFilter, pageNumber, itemShown, confirming,
                 changing, verification, uploading>>

\* Mutant of VerdictFor: the verdict goes to the piece that is shown
ForShown(e) == itemShown.item

VerdictFor(e) == e

Verified ==
  /\ verifying # NoItem
  /\ verification' = [e \in Items |->
       IF e # VerdictFor(verifying) THEN verification[e]
       ELSE IF verifying \in Intact THEN "valid" ELSE "tampered"]
  /\ verifying' = NoItem
  /\ UNCHANGED <<tier, tierFilter, pageNumber, itemShown, confirming,
                 changing, uploading>>

VerifyFails ==
  /\ verifying # NoItem /\ verifying' = NoItem
  /\ UNCHANGED <<tier, tierFilter, pageNumber, itemShown, confirming,
                 changing, verification, uploading>>

\* What was archived meanwhile can still be asked to be, from an old copy.
Ask(kind) ==
  /\ InDialog /\ (kind = "archive" => itemShown.hot)
  /\ confirming' = [kind |-> kind, item |-> itemShown.item]
  /\ UNCHANGED <<tier, tierFilter, pageNumber, itemShown, changing,
                 verifying, verification, uploading>>

Withdraw ==
  /\ confirming # NoChange /\ confirming' = NoChange
  /\ UNCHANGED <<tier, tierFilter, pageNumber, itemShown, changing,
                 verifying, verification, uploading>>

\* Mutant of loading: the button looks at one of the two mutations
OneKind == \E c \in changing : c.kind = confirming.kind

loading == changing # {}

onConfirm ==
  /\ confirming # NoChange /\ ~loading /\ uploading.sent = 0
  /\ changing' = changing \cup {confirming}
  /\ UNCHANGED <<tier, tierFilter, pageNumber, itemShown, confirming,
                 verifying, verification, uploading>>

\* The answer closes the dialogs, whatever they show by now.
Changed(c) ==
  /\ c \in changing /\ changing' = changing \ {c}
  /\ tier' = [tier EXCEPT ![c.item] = IF c.kind = "delete" THEN "gone" ELSE "archived"]
  /\ tier[c.item] # "gone" /\ (c.kind = "archive" => tier[c.item] = "hot")
  /\ confirming' = NoChange /\ itemShown' = NobodyShown
  /\ UNCHANGED <<tierFilter, pageNumber, verifying, verification, uploading>>

ChangeFails(c) ==
  /\ c \in changing /\ changing' = changing \ {c}
  /\ UNCHANGED <<tier, tierFilter, pageNumber, itemShown, confirming,
                 verifying, verification, uploading>>

OtherRemoves(e) ==
  /\ tier[e] # "gone"
  /\ \E t \in {"archived", "gone"} : tier' = [tier EXCEPT ![e] = t]
  /\ UNCHANGED <<tierFilter, pageNumber, itemShown, confirming, changing,
                 verifying, verification, uploading>>

(***************************************************************************)
(* The upload dialog                                                       *)
(***************************************************************************)
Uploads(next) ==
  /\ uploading' = next
  /\ UNCHANGED <<tier, tierFilter, pageNumber, itemShown, confirming,
                 changing, verifying, verification>>

OpenUpload == AtList /\ Uploads([uploading EXCEPT !.open = TRUE])
ChooseUpload == uploading.open /\ ~uploading.file /\ Uploads([uploading EXCEPT !.file = TRUE])

\* upload.reset(): a request under way is forgotten, not ended, and the next may
\* be made.  "Cancel" waits for it, Escape does not.
close == uploading.open /\ Uploads([NoUpload EXCEPT !.sent = uploading.sent])

submitUpload ==
  /\ uploading.open /\ uploading.file /\ ~uploading.pending
  /\ changing = {} /\ verifying = NoItem /\ uploading.sent < MaxSent
  /\ Uploads([uploading EXCEPT !.pending = TRUE, !.sent = @ + 1])

\* Also a dialog that was opened for the next file is closed and emptied.
Uploaded == uploading.sent > 0 /\ Uploads([NoUpload EXCEPT !.sent = uploading.sent - 1])

\* The dialog's own, or, if there is one, a forgotten one.
UploadFails ==
  /\ uploading.sent > 0
  /\ \E own \in BOOLEAN :
       /\ own => uploading.pending
       /\ uploading.pending /\ ~own => uploading.sent > 1
       /\ Uploads([uploading EXCEPT !.pending = @ /\ ~own, !.sent = @ - 1])

EvidenceNext ==
  \/ \E f \in Filters : withReset(f)
  \/ \E n \in 0..Cardinality(Items) : Turn(n)
  \/ \E e \in Items : Select(e) \/ OtherRemoves(e)
  \/ Deselect \/ verify \/ Verified \/ VerifyFails
  \/ \E kind \in {"archive", "delete"} : Ask(kind)
  \/ Withdraw \/ onConfirm
  \/ \E c \in Changes : Changed(c) \/ ChangeFails(c)
  \/ OpenUpload \/ ChooseUpload \/ close \/ submitUpload \/ Uploaded \/ UploadFails

(***************************************************************************)
(* Properties                                                              *)
(***************************************************************************)
\* A verdict is shown with the piece it was given for, although another one may
\* be on the screen when it comes.
VerdictsBelong ==
  \A e \in Items : verification[e] # "none" => (verification[e] = "valid") = (e \in Intact)

\* Closing a confirmation and choosing another piece does not let a second
\* request loose while the first moves files.
OneAtATime == Cardinality(changing) <= 1
=============================================================================
