------------------------------ MODULE LiveAlerts ------------------------------
(***************************************************************************)
(* The alert board of the console: what the camera sockets report goes to  *)
(* the live feed (frontend/src/lib/cameraSocket.ts, stores/liveStore.ts),  *)
(* the REST list is refetched when they report a change, and from time to  *)
(* time anyway (hooks/useAlerts.ts), and the two are merged (lib/alerts.ts).*)
(*                                                                         *)
(* Messages come over several sockets: one may overtake another, get lost  *)
(* with its socket, or, if it is for all operators, come several times.    *)
(* The board is the dashboard's, which asks for all alerts, or one of the  *)
(* right panel, the panic view and the map, which ask for the open ones;   *)
(* there are fewer alerts than it has room for.                            *)
(***************************************************************************)
EXTENDS FiniteSets

CONSTANTS Alerts

VARIABLES
  board,      \* "all" or "open": what its query asks for
  server,     \* the backend's record of each alert
  mail,       \* messages on their way to this console
  liveAlerts, \* the feed of the live store
  list,       \* the items in the query cache
  fetch,      \* the backend when the fetch under way began, or NoFetch
  throttle,   \* cooling: less than INVALIDATE_THROTTLE_MS since lastRun;
              \* pending: the timer is armed
  acking      \* this operator's acknowledgement of each alert

alertVars == <<board, server, mail, liveAlerts, list, fetch, throttle, acking>>

States == {"none", "open", "acked"}
NoFetch == [a \in {} |-> "none"]
Mail == [kind : {"frame_update", "alert_acknowledged"}, alert : Alerts]

AlertsTypeOK ==
  /\ board \in {"all", "open"}
  /\ server \in [Alerts -> States] /\ liveAlerts \in [Alerts -> States]
  /\ list \in [Alerts -> States]
  /\ mail \subseteq Mail
  /\ fetch \in [Alerts -> States] \cup {NoFetch}
  /\ throttle \in [cooling : BOOLEAN, pending : BOOLEAN]
  /\ acking \in [Alerts -> {"idle", "sent", "stored"}]

AlertsInit ==
  /\ board \in {"all", "open"}
  /\ server = [a \in Alerts |-> "none"] /\ liveAlerts = server /\ list = server
  /\ mail = {} /\ fetch = NoFetch
  /\ throttle = [cooling |-> FALSE, pending |-> FALSE]
  /\ acking = [a \in Alerts |-> "idle"]

\* Mutant of mergeAlerts: the live copy wins
LiveWins(a) == IF liveAlerts[a] # "none" THEN liveAlerts[a] ELSE list[a]

mergeAlerts(a) == IF list[a] # "none" THEN list[a] ELSE liveAlerts[a]

acknowledged(feed, a) == IF feed[a] = "none" THEN feed ELSE [feed EXCEPT ![a] = "acked"]

(***************************************************************************)
(* Refetching.  A fetch that is under way is cancelled for a new one.      *)
(***************************************************************************)
invalidate ==
  IF throttle.cooling
  THEN throttle' = [throttle EXCEPT !.pending = TRUE] /\ UNCHANGED fetch
  ELSE throttle' = [throttle EXCEPT !.cooling = TRUE] /\ fetch' = server

ThrottleOver ==
  /\ throttle.cooling
  /\ throttle' = [cooling |-> throttle.pending, pending |-> FALSE]
  /\ fetch' = IF throttle.pending THEN server ELSE fetch
  /\ UNCHANGED <<board, server, mail, liveAlerts, list, acking>>

\* The interval of the query, and its first fetch.
Refetch ==
  /\ fetch = NoFetch
  /\ fetch' = server
  /\ UNCHANGED <<board, server, mail, liveAlerts, list, throttle, acking>>

\* The answer has of each alert a state it had since the request.
Between(from, to) ==
  IF from = "none" /\ to = "acked" THEN States ELSE {from, to}

\* acknowledged: false leaves the others out.
Asked(state) == IF board = "open" /\ state = "acked" THEN "none" ELSE state

Fetched ==
  /\ fetch # NoFetch
  /\ \E answer \in [Alerts -> States] :
       /\ \A a \in Alerts : answer[a] \in Between(fetch[a], server[a])
       /\ list' = [a \in Alerts |-> Asked(answer[a])]
  /\ fetch' = NoFetch
  /\ UNCHANGED <<board, server, mail, liveAlerts, throttle, acking>>

FetchFails ==
  /\ fetch # NoFetch
  /\ fetch' = NoFetch
  /\ UNCHANGED <<board, server, mail, liveAlerts, list, throttle, acking>>

(***************************************************************************)
(* Messages                                                                *)
(***************************************************************************)
\* ingestFrame: only an alert the feed does not have is news.
HearsAlert(a) ==
  LET m == [kind |-> "frame_update", alert |-> a] IN
  /\ m \in mail
  /\ mail' = mail \ {m}
  /\ IF liveAlerts[a] = "none"
     THEN liveAlerts' = [liveAlerts EXCEPT ![a] = "open"] /\ invalidate
     ELSE UNCHANGED <<liveAlerts, throttle, fetch>>
  /\ UNCHANGED <<board, server, list, acking>>

\* Every copy marks the alert and asks for a refetch, the notice is given once.
HearsAcknowledged(a) ==
  LET m == [kind |-> "alert_acknowledged", alert |-> a] IN
  /\ m \in mail
  /\ mail' \in {mail, mail \ {m}}
  /\ liveAlerts' = acknowledged(liveAlerts, a)
  /\ invalidate
  /\ UNCHANGED <<board, server, list, acking>>

\* critical_alert changes nothing on the board: it is notified of.
HearsCritical ==
  /\ \E a \in Alerts : server[a] # "none"
  /\ invalidate
  /\ UNCHANGED <<board, server, mail, liveAlerts, list, acking>>

MessageLost ==
  /\ \E m \in mail : mail' = mail \ {m}
  /\ UNCHANGED <<board, server, liveAlerts, list, fetch, throttle, acking>>

(***************************************************************************)
(* The backend and the operators                                           *)
(***************************************************************************)
\* An alert is stored before it is broadcast.
Raised ==
  /\ \E b \in Alerts : server[b] = "none"
  /\ LET a == CHOOSE b \in Alerts : server[b] = "none" IN
       /\ server' = [server EXCEPT ![a] = "open"]
       /\ mail' = mail \cup {[kind |-> "frame_update", alert |-> a]}
  /\ UNCHANGED <<board, liveAlerts, list, fetch, throttle, acking>>

Store(a) ==
  /\ server' = [server EXCEPT ![a] = "acked"]
  /\ mail' = mail \cup {[kind |-> "alert_acknowledged", alert |-> a]}

OtherAcknowledges(a) ==
  /\ server[a] = "open" /\ Store(a)
  /\ UNCHANGED <<board, liveAlerts, list, fetch, throttle, acking>>

\* Mutant of Acknowledge: the store is told at once
Optimistic(a) ==
  /\ mergeAlerts(a) = "open" /\ acking[a] = "idle"
  /\ acking' = [acking EXCEPT ![a] = "sent"]
  /\ liveAlerts' = acknowledged(liveAlerts, a)
  /\ list' = acknowledged(list, a)
  /\ UNCHANGED <<board, server, mail, fetch, throttle>>

\* The buttons of the detail, of the panic view, and Enter; bound: one request
\* per alert at a time.
Acknowledge(a) ==
  /\ mergeAlerts(a) = "open" /\ acking[a] = "idle"
  /\ acking' = [acking EXCEPT ![a] = "sent"]
  /\ UNCHANGED <<board, server, mail, liveAlerts, list, fetch, throttle>>

AcknowledgeStored(a) ==
  /\ acking[a] = "sent" /\ server[a] = "open" /\ Store(a)
  /\ acking' = [acking EXCEPT ![a] = "stored"]
  /\ UNCHANGED <<board, liveAlerts, list, fetch, throttle>>

\* onSuccess: the fetch under way is neither cancelled nor repeated.
Acknowledged(a) ==
  /\ acking[a] = "stored"
  /\ acking' = [acking EXCEPT ![a] = "idle"]
  /\ liveAlerts' = acknowledged(liveAlerts, a)
  /\ list' = acknowledged(list, a)
  /\ UNCHANGED <<board, server, mail, fetch, throttle>>

\* Refused, since another operator was first, or lost on either way.
AcknowledgeFails(a) ==
  /\ acking[a] # "idle"
  /\ acking' = [acking EXCEPT ![a] = "idle"]
  /\ UNCHANGED <<board, server, mail, liveAlerts, list, fetch, throttle>>

AlertsNext ==
  \/ ThrottleOver \/ Refetch \/ Fetched \/ FetchFails \/ HearsCritical \/ MessageLost \/ Raised
  \/ \E a \in Alerts :
       \/ HearsAlert(a) \/ HearsAcknowledged(a) \/ OtherAcknowledges(a)
       \/ Acknowledge(a) \/ AcknowledgeStored(a) \/ Acknowledged(a) \/ AcknowledgeFails(a)

\* The query goes on polling, and not every fetch is cancelled or fails.
AlertsFairness == WF_alertVars(Refetch) /\ SF_alertVars(Fetched)

(***************************************************************************)
(* Properties                                                              *)
(***************************************************************************)
\* An alert on the board stays on it, unless the board is one of open alerts and the
\* backend has it as acknowledged.  It is shown as acknowledged only once that is on
\* record, and open again only by the answer to a fetch that began before that, which
\* the next fetch puts right.
NoneHidden ==
  [][\A a \in Alerts :
       LET gone == board = "open" /\ server'[a] = "acked" IN
       /\ mergeAlerts(a) # "none" => mergeAlerts(a)' # "none" \/ gone
       /\ mergeAlerts(a)' = "acked" => server'[a] = "acked"
       /\ mergeAlerts(a) = "acked" =>
            \/ mergeAlerts(a)' = "acked" \/ gone
            \/ fetch # NoFetch /\ fetch' = NoFetch /\ fetch[a] # "acked"]_alertVars

\* An acknowledged alert is in the end no longer shown as open, even if the message
\* was lost or came before the alert itself.  On a board of open alerts this takes
\* the message: the alert is left out of the answers, and a copy in the live feed
\* that was never told stays open (lib/alerts.ts:7 has no REST copy to trust).
AckShown ==
  \A a \in Alerts :
    <>[](server[a] = "acked" /\ (board = "open" => liveAlerts[a] # "open"))
    => <>[](mergeAlerts(a) # "open")
=============================================================================
