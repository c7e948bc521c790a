--------------------------- MODULE CameraSockets ----------------------------
(***************************************************************************)
(* The live connections of the console: one reference-counted CameraSocket *)
(* per camera (frontend/src/lib/cameraSocket.ts), which the components     *)
(* share through useWebSocket and useCameraSubscriptions, with its access  *)
(* token, its reconnect timer and its closing handshakes, composed with    *)
(* the session of BrowserSession.                                          *)
(*                                                                         *)
(* A CameraSocket that has left the map can still await a refresh or the   *)
(* end of a closing handshake, and writes its camera's displayed state     *)
(* when that comes.  It is Gone once nothing can call it any more.         *)
(* restart() and restartAll() have no caller and are not modelled.         *)
(***************************************************************************)
EXTENDS BrowserSession

CONSTANTS Cameras, Sockets, NoSocket,
  MaxSubs        \* bound: components that show one camera at one time

ASSUME SocketAssumption ==
  /\ Cameras # {} /\ NoSocket \notin Sockets
  /\ MaxSubs \in Nat \ {0}

VARIABLES
  sockets,      \* the map: camera -> CameraSocket, NoSocket when it has none
  obj,          \* obj[s]: the fields of CameraSocket s
  connection    \* what the live store shows of each camera

linkVars == <<sockets, obj, connection>>
vars == <<sessionVars, linkVars>>

\* said is the detail of the last state the object reported itself.
Fields == [camera : Cameras, subs : 0..MaxSubs, ws : {"none", "connecting", "open"},
           leaving : BOOLEAN, timer : BOOLEAN, wait : {"no", "connect", "policy"},
           tried : BOOLEAN, closed : BOOLEAN,
           said : {"none", "locked", "signed out", "unreachable", "expired"}]

Blank(c) == [camera |-> c, subs |-> 0, ws |-> "none", leaving |-> FALSE,
             timer |-> FALSE, wait |-> "no", tried |-> FALSE, closed |-> FALSE,
             said |-> "none"]

Gone == [Blank(CHOOSE c \in Cameras : TRUE) EXCEPT !.closed = TRUE]

Shown == {"idle", "connecting", "open", "reconnecting", "closed", "denied"}

TypeOK ==
  /\ SessionTypeOK
  /\ sockets \in [Cameras -> Sockets \cup {NoSocket}]
  /\ obj \in [Sockets -> Fields]
  /\ connection \in [Cameras -> Shown]

InMap(s) == \E c \in Cameras : sockets[c] = s

\* Nothing refers to an object that left the map and awaits nothing.
Collected(f) ==
  IF f.closed /\ f.ws = "none" /\ ~f.leaving /\ ~f.timer /\ f.wait = "no"
  THEN Gone ELSE f

Put(s, f) == obj' = [obj EXCEPT ![s] = f]
Show(c, state) == connection' = [connection EXCEPT ![c] = state]

(***************************************************************************)
(* connect() of an object with fields f, which is never closed and has no  *)
(* WebSocket when a caller gets here (OneActivity); that is not so when    *)
(* the awaited refresh of an expiring token is over, in dial.              *)
(***************************************************************************)
CanConnect(f) == ~f.closed /\ f.ws = "none"
Admitted == auth.access # NoUser /\ ~auth.locked
\* Mutant of Trying: a state the live store does not know
TryingAgain(f) == IF f.tried THEN "retrying" ELSE "connecting"

Trying(f) == IF f.tried THEN "reconnecting" ELSE "connecting"
\* Mutant of dial: not looked at again after the await
DialAnyway(f) == [f EXCEPT !.ws = "connecting"]

dial(f) == IF CanConnect(f) THEN [f EXCEPT !.ws = "connecting"] ELSE f

connect(s, f) ==
  \/ /\ ~Admitted
     /\ Put(s, [f EXCEPT !.said = IF auth.locked THEN "locked" ELSE "signed out"])
     /\ Show(f.camera, "closed")
     /\ UNCHANGED refresh
  \/ /\ Admitted /\ auth.expiring
     /\ Put(s, [f EXCEPT !.wait = "connect", !.said = "none"])
     /\ Show(f.camera, Trying(f))
     /\ refresh' = RefreshCalled
  \/ /\ Admitted /\ ~auth.expiring
     /\ Put(s, [dial(f) EXCEPT !.said = "none"])
     /\ Show(f.camera, Trying(f))
     /\ UNCHANGED refresh

\* Mutant of scheduleReconnect: one retry only
ScheduleOnce(f) ==
  IF f.closed \/ f.timer \/ f.tried THEN f
  ELSE [f EXCEPT !.timer = TRUE, !.tried = TRUE]

scheduleReconnect(f) ==
  IF f.closed \/ f.timer THEN f ELSE [f EXCEPT !.timer = TRUE, !.tried = TRUE]

\* Mutant of shutdown: the reconnect timer is not cleared
ShutdownTimed(f) ==
  [f EXCEPT !.closed = TRUE, !.ws = "none",
            !.leaving = f.leaving \/ f.ws # "none", !.subs = 0]

shutdown(f) ==
  [f EXCEPT !.closed = TRUE, !.timer = FALSE, !.ws = "none",
            !.leaving = f.leaving \/ f.ws # "none", !.subs = 0]

(***************************************************************************)
(* subscribe and the function it returns                                   *)
(***************************************************************************)
SubscribeFirst(c) ==
  /\ Quiet /\ console.mounted /\ sockets[c] = NoSocket
  /\ \E s \in Sockets :
       /\ s \in cast.sockets /\ obj[s] = Gone /\ ~InMap(s)
       /\ sockets' = [sockets EXCEPT ![c] = s]
       /\ connect(s, [Blank(c) EXCEPT !.subs = 1])
  /\ UNCHANGED <<auth, console, keep, stale, calls, backend, cast>>

SubscribeAgain(c) ==
  /\ Quiet /\ console.mounted
  /\ \E s \in Sockets :
       /\ sockets[c] = s /\ obj[s].subs < MaxSubs
       /\ Put(s, [obj[s] EXCEPT !.subs = @ + 1])
  /\ UNCHANGED <<sessionVars, sockets, connection>>

ReleaseOne(c) ==
  /\ Quiet
  /\ \E s \in Sockets :
       /\ sockets[c] = s /\ obj[s].subs > 1
       /\ Put(s, [obj[s] EXCEPT !.subs = @ - 1])
  /\ UNCHANGED <<sessionVars, sockets, connection>>

\* Mutant of ReleaseLast: shutdown does not report the end of the connection
ReleaseQuietly(c) ==
  /\ Quiet
  /\ \E s \in Sockets :
       /\ sockets[c] = s /\ obj[s].subs = 1
       /\ Put(s, Collected(shutdown(obj[s])))
  /\ sockets' = [sockets EXCEPT ![c] = NoSocket]
  /\ UNCHANGED <<sessionVars, connection>>

ReleaseLast(c) ==
  /\ Quiet
  /\ \E s \in Sockets :
       /\ sockets[c] = s /\ obj[s].subs = 1
       /\ Put(s, Collected(shutdown(obj[s])))
  /\ sockets' = [sockets EXCEPT ![c] = NoSocket]
  /\ Show(c, "closed")
  /\ UNCHANGED sessionVars

\* Every object of the map shut down, and the map empty.
CloseAll ==
  /\ obj' = [s \in Sockets |-> IF InMap(s) THEN Collected(shutdown(obj[s])) ELSE obj[s]]
  /\ sockets' = [c \in Cameras |-> NoSocket]

(***************************************************************************)
(* The WebSocket's events                                                  *)
(***************************************************************************)
Opens(s) ==
  /\ Quiet /\ obj[s].ws = "connecting" /\ backend = "up"
  /\ Put(s, [obj[s] EXCEPT !.ws = "open", !.tried = FALSE])
  /\ Show(obj[s].camera, "open")
  /\ UNCHANGED <<sessionVars, sockets>>

\* A lost connection or a handshake that failed, the one kind of bad answer the
\* handshake can get included.
Drops(s) ==
  /\ Quiet /\ obj[s].ws # "none" /\ backend = "down"
  /\ Put(s, scheduleReconnect([obj[s] EXCEPT !.ws = "none"]))
  /\ Show(obj[s].camera, "reconnecting")
  /\ UNCHANGED <<sessionVars, sockets>>

\* Close code 1008: the token was revoked, has expired or lost its access.
PolicyClosed(s) ==
  /\ Quiet /\ obj[s].ws = "open" /\ backend = "up"
  /\ Put(s, [obj[s] EXCEPT !.ws = "none", !.wait = "policy"])
  /\ Show(obj[s].camera, "reconnecting")
  /\ refresh' = RefreshCalled
  /\ UNCHANGED <<auth, console, keep, stale, calls, backend, cast, sockets>>

\* onclose of a WebSocket the client closed, whoever has the camera by now.
LeavingEnds(s) ==
  /\ Quiet /\ obj[s].leaving
  /\ Put(s, Collected([obj[s] EXCEPT !.leaving = FALSE]))
  /\ Show(obj[s].camera, "closed")
  /\ UNCHANGED <<sessionVars, sockets>>

TimerFires(s) ==
  /\ Quiet /\ obj[s].timer
  /\ connect(s, [obj[s] EXCEPT !.timer = FALSE])
  /\ UNCHANGED <<auth, console, keep, stale, calls, backend, cast, sockets>>

(***************************************************************************)
(* What follows an awaited refresh                                         *)
(***************************************************************************)
ConnectResumes(s) ==
  /\ refresh.phase = "settled" /\ obj[s].wait = "connect"
  /\ LET f == [obj[s] EXCEPT !.wait = "no"] IN
       \/ /\ refresh.token # NoUser
          /\ Put(s, Collected(dial(f)))
          /\ UNCHANGED connection
       \/ /\ refresh.token = NoUser /\ auth.refresh # NoUser
          /\ Put(s, Collected(scheduleReconnect([f EXCEPT !.said = "unreachable"])))
          /\ Show(f.camera, "reconnecting")
       \/ /\ refresh.token = NoUser /\ auth.refresh = NoUser
          /\ Put(s, Collected([f EXCEPT !.said = "expired"]))
          /\ Show(f.camera, "denied")
  /\ UNCHANGED <<sessionVars, sockets>>

\* Mutant of PolicyResumes: an unreachable server is taken for the session's end
PolicyGivesUp(s) ==
  /\ refresh.phase = "settled" /\ obj[s].wait = "policy"
  /\ LET f == [obj[s] EXCEPT !.wait = "no"] IN
       \/ /\ refresh.token # NoUser
          /\ Put(s, Collected(scheduleReconnect(f)))
          /\ UNCHANGED connection
       \/ /\ refresh.token = NoUser
          /\ Put(s, Collected(f))
          /\ Show(f.camera, "denied")
  /\ UNCHANGED <<sessionVars, sockets>>

PolicyResumes(s) ==
  /\ refresh.phase = "settled" /\ obj[s].wait = "policy"
  /\ LET f == [obj[s] EXCEPT !.wait = "no"] IN
       \/ /\ refresh.token # NoUser \/ auth.refresh # NoUser
          /\ Put(s, Collected(scheduleReconnect(f)))
          /\ UNCHANGED connection
       \/ /\ refresh.token = NoUser /\ auth.refresh = NoUser
          /\ Put(s, Collected([f EXCEPT !.said = "expired"]))
          /\ Show(f.camera, "denied")
  /\ UNCHANGED <<sessionVars, sockets>>

RefreshOver ==
  /\ refresh.phase = "settled"
  /\ keep # "waiting" /\ "waiting" \notin stale /\ calls.query # "refused"
  /\ \A s \in Sockets : obj[s].wait = "no"
  /\ refresh' = NoRefresh
  /\ UNCHANGED <<auth, console, keep, stale, calls, backend, cast, linkVars>>

(***************************************************************************)
(* Steps of both                                                           *)
(***************************************************************************)
\* The answer to the logout call, good or bad: sockets closed, live store reset.
SignOut ==
  /\ Quiet /\ calls.ending = "signout"
  /\ CloseAll
  /\ connection' = [c \in Cameras |-> "idle"]
  /\ auth' = clearSession
  /\ calls' = [calls EXCEPT !.ending = "no"]
  /\ UNCHANGED <<refresh, console, keep, stale, backend, cast>>

\* Unmounting the console releases every subscription of its components.
Render ==
  /\ RenderSession
  /\ \/ /\ console.mounted /\ ~signedIn
        /\ CloseAll
        /\ connection' = [c \in Cameras |->
             IF sockets[c] = NoSocket THEN connection[c] ELSE "closed"]
     \/ ~(console.mounted /\ ~signedIn) /\ UNCHANGED linkVars

\* The page is loaded anew: only what the session storage holds is left.
Reload ==
  /\ Quiet
  /\ auth' = Persisted
  /\ refresh' = NoRefresh /\ calls' = Idle
  /\ console' = [mounted |-> FALSE, armed |-> FALSE]
  /\ keep' = "off" /\ stale' = {}
  /\ sockets' = [c \in Cameras |-> NoSocket]
  /\ obj' = [s \in Sockets |-> Gone]
  /\ connection' = [c \in Cameras |-> "idle"]
  /\ UNCHANGED <<backend, cast>>

Init ==
  /\ SessionInit
  /\ sockets = [c \in Cameras |-> NoSocket]
  /\ obj = [s \in Sockets |-> Gone]
  /\ connection = [c \in Cameras |-> "idle"]

Continue(s) == ConnectResumes(s) \/ PolicyResumes(s)

Next ==
  \/ SessionStep /\ UNCHANGED linkVars
  \/ \E c \in Cameras :
       SubscribeFirst(c) \/ SubscribeAgain(c) \/ ReleaseOne(c) \/ ReleaseLast(c)
  \/ \E s \in Sockets :
       \/ Opens(s) \/ Drops(s) \/ PolicyClosed(s) \/ LeavingEnds(s)
       \/ TimerFires(s) \/ Continue(s)
  \/ RefreshOver \/ SignOut \/ Render \/ Reload

Spec == Init /\ [][Next]_vars

\* The event loop runs continuations and renders, fires timers, and every
\* request is answered or times out (15 s for the refresh).
Fairness ==
  /\ WF_vars(Render) /\ WF_vars(RefreshOver)
  /\ SF_vars(RefreshSettles /\ UNCHANGED linkVars)
  /\ WF_vars(KeepAliveResumes /\ UNCHANGED linkVars)
  /\ WF_vars(StaleResumes /\ UNCHANGED linkVars)
  /\ WF_vars(QueryResumes /\ UNCHANGED linkVars)
  /\ \A s \in Sockets : /\ SF_vars(Opens(s)) /\ SF_vars(TimerFires(s))
                        /\ WF_vars(Continue(s))

FairSpec == Spec /\ Fairness

(***************************************************************************)
(* Properties                                                              *)
(***************************************************************************)
\* A CameraSocket does one thing at a time: it holds a WebSocket, awaits one
\* refresh or has one timer.  A closed one neither dials nor waits to, so the
\* guards at the top of connect and scheduleReconnect are a second line only.
Activities(f) ==
  {a \in {"ws", "timer", "wait"} :
     \/ a = "ws" /\ f.ws # "none"
     \/ a = "timer" /\ f.timer
     \/ a = "wait" /\ f.wait # "no"}

OneActivity ==
  \A s \in Sockets :
    /\ \A a, b \in Activities(obj[s]) : a = b
    /\ obj[s].closed => Activities(obj[s]) \subseteq {"wait"}

\* Network trouble never silences a camera in use: its CameraSocket is at work
\* unless its own last report was that the screen is locked, that nobody is
\* signed in or that the session has expired.
NeverGivesUp ==
  \A c \in Cameras : \A s \in Sockets :
    sockets[c] = s =>
      \/ Activities(obj[s]) # {}
      \/ obj[s].said \in {"locked", "signed out", "expired"}

Connected(c) == \E s \in Sockets : sockets[c] = s /\ obj[s].ws = "open"

\* The console never shows a camera as open that is not: late answers and late
\* closing handshakes of other CameraSockets can only show less than there is.
OpenIsTrue == \A c \in Cameras : connection[c] = "open" => Connected(c)

\* The sockets keep the contract of CameraLink: no camera ever has two
\* connections, and none outlives its last viewer, a sign-out or the session.
Link == INSTANCE CameraLink
          WITH Handles <- Sockets, NoHandle <- NoSocket, handle <- sockets,
               linked <- {s \in Sockets : obj[s].ws # "none"}
KeepsContract == Link!Spec

\* As long as the screen is not locked, a camera that stays in use while the
\* operator is signed in and the server answers is connected again and again.
Healthy(c) == sockets[c] # NoSocket /\ backend = "up" /\ signedIn
Reconnects ==
  \A c \in Cameras :
    []~auth.locked /\ <>[]Healthy(c) => []<>Connected(c)

\* No session lives on in the next one.  Once nobody is signed in the console is
\* gone, its timers are off, and no late answer opens or plans a connection: an
\* access token that a late refresh still stores gives access to nothing.  And an
\* operator who has signed in holds another's access token only by such an answer.
SessionOver ==
  Quiet /\ auth.user = NoUser =>
    /\ ~console.mounted /\ keep = "off"
    /\ \A c \in Cameras : sockets[c] = NoSocket
    /\ \A s \in Sockets : obj[s].ws = "none" /\ ~obj[s].timer

SessionsApart ==
  /\ [](SessionWhole /\ SessionOver)
  /\ [][ Mixed' => LateRefresh \/ (Mixed /\ UNCHANGED <<auth.user, auth.access>>) ]_sessionVars

\* cameraSocket.ts:196 says a fresh connection is forced after an unlock: no
\* camera in use is without any activity on an open, unlocked console.
ResumesAfterUnlock ==
  Quiet /\ signedIn /\ ~auth.locked =>
    \A c \in Cameras : \A s \in Sockets :
      sockets[c] = s => Activities(obj[s]) # {}
=============================================================================
