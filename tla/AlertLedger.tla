---------------------------- MODULE AlertLedger ----------------------------
(***************************************************************************)
(* What the alert path of the surveillance system promises, whatever the   *)
(* network does between the analysis pipeline and the backend: an alert    *)
(* row is created only for an alert the pipeline raised, it is created at  *)
(* most once however often the pipeline re-sends it, and operators are     *)
(* told of it at most once, after the row is committed.  AlertDelivery     *)
(* implements this specification.                                          *)
(***************************************************************************)
EXTENDS Naturals

CONSTANT Alerts          \* the identifiers of the alerts the pipeline can raise

VARIABLES
  raised,      \* the alerts the pipeline has raised so far
  stored,      \* the alerts with a committed row in the backend's database
  announced    \* announced[a]: how often operators were told of alert a

ledgerVars == <<raised, stored, announced>>

LedgerTypeOK ==
  /\ raised \subseteq Alerts
  /\ stored \subseteq Alerts
  /\ announced \in [Alerts -> Nat]

LedgerInit ==
  /\ raised = {}
  /\ stored = {}
  /\ announced = [a \in Alerts |-> 0]

RaiseOne(a) ==
  /\ a \notin raised
  /\ raised' = raised \cup {a}
  /\ UNCHANGED <<stored, announced>>

StoreOne(a) ==
  /\ a \in raised \ stored
  /\ stored' = stored \cup {a}
  /\ UNCHANGED <<raised, announced>>

AnnounceOne(a) ==
  /\ a \in stored
  /\ announced[a] = 0
  /\ announced' = [announced EXCEPT ![a] = 1]
  /\ UNCHANGED <<raised, stored>>

LedgerNext == \E a \in Alerts : RaiseOne(a) \/ StoreOne(a) \/ AnnounceOne(a)

LedgerSpec == LedgerInit /\ [][LedgerNext]_ledgerVars
=============================================================================
