------------------------------ MODULE AlertTriage ------------------------------
(***************************************************************************)
(* The alerts page (frontend/src/pages/AlertsPage.tsx) with the details of *)
(* the alert in review (frontend/src/components/alerts/AlertDetail.tsx),   *)
(* as an administrator uses it: the list, the selection in the address,    *)
(* the acknowledgement form and the deletion.                              *)
(*                                                                         *)
(* Newer alerts have higher numbers; "unacknowledged" and "all" stand for  *)
(* every filter.  The list and the details stay as they were last fetched. *)
(* Bound: one request at a time.                                           *)
(***************************************************************************)
EXTENDS Integers, Sequences, FiniteSets

CONSTANTS MaxReports, PAGE_SIZE

TriageAssumption == MaxReports \in Nat \ {0} /\ PAGE_SIZE \in Nat \ {0}

VARIABLES
  triaged,    \* the backend: the state of every alert
  onlyOpen, alertPage,
  items,      \* the rows of the list, as fetched
  selectedId, \* the alert in the address
  detail,     \* the copy useAlert has of it, when the list has none
  form,       \* AlertDetail: falseAlarm, the alert the note is about, confirmDelete
  request     \* acknowledge or remove

triageVars == <<triaged, onlyOpen, alertPage, items, selectedId, detail, form, request>>

NoReport == 0
Reports == 1..MaxReports
Blank == [alarm |-> FALSE, note |-> NoReport, asking |-> FALSE]
NoRequest == [kind |-> "none", id |-> NoReport, alarm |-> FALSE, note |-> NoReport]

TriageTypeOK ==
  /\ triaged \in [Reports -> {"open", "acknowledged", "gone"}]
  /\ onlyOpen \in BOOLEAN /\ alertPage \in 0..MaxReports
  /\ items \in Seq([id : Reports, state : {"open", "acknowledged"}])
  /\ selectedId \in Reports \cup {NoReport}
  /\ detail \in {"none", "open", "acknowledged"}
  /\ form \in [alarm : BOOLEAN, note : Reports \cup {NoReport}, asking : BOOLEAN]
  /\ request \in [kind : {"acknowledge", "delete"}, id : Reports, alarm : BOOLEAN,
                  note : Reports \cup {NoReport}] \cup {NoRequest}

(***************************************************************************)
(* The list and the alert in review                                        *)
(***************************************************************************)
Matching == {a \in Reports : triaged[a] = "open" \/ (~onlyOpen /\ triaged[a] = "acknowledged")}

\* Unacknowledged first, newest first
Before(a, b) == IF triaged[a] = triaged[b] THEN a > b ELSE triaged[a] = "open"

Listed(ranked) ==
  LET first == alertPage * PAGE_SIZE
      rows == Cardinality(Matching) - first
  IN  [i \in 1..(IF rows < PAGE_SIZE THEN rows ELSE PAGE_SIZE) |->
         [id |-> ranked[first + i], state |-> triaged[ranked[first + i]]]]

pages == IF Matching = {} THEN 1 ELSE (Cardinality(Matching) + PAGE_SIZE - 1) \div PAGE_SIZE

InList(a) == \E i \in DOMAIN items : items[i].id = a
selected == IF InList(selectedId)
            THEN items[CHOOSE i \in DOMAIN items : items[i].id = selectedId].state
            ELSE detail
shownId == IF selected = "none" THEN NoReport ELSE selectedId

\* Mutant of firstSelected: only a new head of the list is selected
NewHead(wanted, rows) ==
  IF wanted = NoReport /\ rows # <<>> /\ (items = <<>> \/ rows[1].id # items[1].id)
  THEN rows[1].id ELSE wanted

firstSelected(wanted, rows) ==
  IF wanted = NoReport /\ rows # <<>> THEN rows[1].id ELSE wanted

\* Mutant of keyed: the details are not mounted anew for another alert
KeepsForm(f) == f

keyed(f) == IF shownId' = shownId THEN f ELSE Blank

\* The page is rendered with these rows, this selection and, for an alert that is
\* not among them, a copy from its last visit or the one that has just come.
Renders(rows, wanted, copies, f) ==
  /\ items' = rows
  /\ selectedId' = firstSelected(wanted, rows)
  /\ detail' \in IF selectedId' = NoReport \/ InList(selectedId)' THEN {"none"} ELSE copies
  /\ form' = keyed(f)

Copies(a) == IF a = selectedId /\ ~InList(a) THEN {detail}
             ELSE {"none", "open"} \cup ({"acknowledged"} \cap {triaged[a]})

ListFetched ==
  /\ \E ranked \in [1..Cardinality(Matching) -> Matching] :
       /\ \A i, j \in DOMAIN ranked : i < j => Before(ranked[i], ranked[j])
       /\ Renders(Listed(ranked), selectedId,
                  IF selectedId = NoReport THEN {"none"} ELSE Copies(selectedId), form)
  /\ UNCHANGED <<triaged, onlyOpen, alertPage, request>>

\* An alert that is gone is an error, which leaves an older copy in place.
DetailFetched ==
  /\ selectedId # NoReport /\ ~InList(selectedId) /\ triaged[selectedId] # "gone"
  /\ Renders(items, selectedId, {triaged[selectedId]}, form)
  /\ UNCHANGED <<triaged, onlyOpen, alertPage, request>>

AtPage == ~form.asking

withReset(open) ==
  /\ AtPage /\ onlyOpen' = open /\ alertPage' = 0
  /\ UNCHANGED <<triaged, items, selectedId, detail, form, request>>

Turn(n) ==
  /\ AtPage /\ n \in {alertPage - 1, alertPage + 1} /\ n >= 0
  /\ n > alertPage => n < pages
  /\ alertPage' = n
  /\ UNCHANGED <<triaged, onlyOpen, items, selectedId, detail, form, request>>

\* A row, J and K, and A for the latest: always a row of the list.  From an alert
\* that is not in it J goes to the first row, and so does K.
select(i) ==
  /\ AtPage /\ i \in DOMAIN items
  /\ Renders(items, items[i].id, {"none"}, form)
  /\ UNCHANGED <<triaged, onlyOpen, alertPage, request>>

(***************************************************************************)
(* Acknowledgement and deletion                                            *)
(***************************************************************************)
Fills(f) ==
  /\ form' = f
  /\ UNCHANGED <<triaged, onlyOpen, alertPage, items, selectedId, detail, request>>

setFalseAlarm == AtPage /\ selected = "open" /\ Fills([form EXCEPT !.alarm = ~@])
setNotes ==
  /\ AtPage /\ selected = "open"
  /\ \E n \in {NoReport, shownId} : Fills([form EXCEPT !.note = n])

Sends(r) ==
  /\ request = NoRequest /\ request' = r
  /\ UNCHANGED <<triaged, onlyOpen, alertPage, items, selectedId, detail, form>>

acknowledge ==
  /\ AtPage /\ selected = "open" /\ (form.alarm => form.note # NoReport)
  /\ Sends([kind |-> "acknowledge", id |-> selectedId, alarm |-> form.alarm, note |-> form.note])

\* Enter on the page does not look at the form.
enter ==
  /\ AtPage /\ selected = "open"
  /\ Sends([kind |-> "acknowledge", id |-> selectedId, alarm |-> FALSE, note |-> NoReport])

Acknowledged ==
  /\ request.kind = "acknowledge" /\ triaged[request.id] = "open"
  /\ triaged' = [triaged EXCEPT ![request.id] = "acknowledged"]
  /\ Renders([i \in DOMAIN items |-> IF items[i].id # request.id THEN items[i]
                                     ELSE [items[i] EXCEPT !.state = "acknowledged"]],
             selectedId, {IF selectedId = request.id THEN "acknowledged" ELSE detail}, form)
  /\ request' = NoRequest
  /\ UNCHANGED <<onlyOpen, alertPage>>

RequestFails ==
  /\ request # NoRequest /\ request' = NoRequest
  /\ UNCHANGED <<triaged, onlyOpen, alertPage, items, selectedId, detail, form>>

AskDelete == AtPage /\ selected # "none" /\ Fills([form EXCEPT !.asking = TRUE])
KeepAlert == form.asking /\ Fills([form EXCEPT !.asking = FALSE])

ConfirmDelete ==
  /\ form.asking
  /\ Sends([NoRequest EXCEPT !.kind = "delete", !.id = selectedId])

\* onDeleted takes back the selection, whatever is selected by now.
Deleted ==
  /\ request.kind = "delete" /\ triaged[request.id] # "gone"
  /\ triaged' = [triaged EXCEPT ![request.id] = "gone"]
  /\ Renders(items, NoReport, {"none"}, Blank)
  /\ request' = NoRequest
  /\ UNCHANGED <<onlyOpen, alertPage>>

OtherActs(a) ==
  /\ triaged[a] # "gone"
  /\ \E s \in {"acknowledged", "gone"} \ {triaged[a]} : triaged' = [triaged EXCEPT ![a] = s]
  /\ UNCHANGED <<onlyOpen, alertPage, items, selectedId, detail, form, request>>

TriageInit ==
  /\ triaged = [a \in Reports |-> "open"]
  /\ onlyOpen = TRUE /\ alertPage = 0 /\ items = <<>>
  /\ selectedId = NoReport /\ detail = "none" /\ form = Blank /\ request = NoRequest

TriageNext ==
  \/ ListFetched \/ DetailFetched
  \/ \E open \in BOOLEAN : withReset(open)
  \/ \E n \in 0..MaxReports : Turn(n)
  \/ \E i \in 1..PAGE_SIZE : select(i)
  \/ setFalseAlarm \/ setNotes \/ acknowledge \/ enter \/ Acknowledged \/ RequestFails
  \/ AskDelete \/ KeepAlert \/ ConfirmDelete \/ Deleted
  \/ \E a \in Reports : OtherActs(a)

(***************************************************************************)
(* Properties                                                              *)
(***************************************************************************)
\* An acknowledgement carries no note that was written for another alert, though
\* the list, the selection and the answers change under the form; and none is
\* recorded as a false alarm without the note about it.
NotesBelong ==
  /\ form.note \in {NoReport, shownId}
  /\ request.kind = "acknowledge" =>
       request.note \in {NoReport, request.id} /\ (request.alarm => request.note # NoReport)

\* As long as alerts are listed one of them, or another one, is in review: also
\* after a deletion, and after answers that took the list away and back.
ReviewGoesOn == items # <<>> => selectedId # NoReport
=============================================================================
