------------------------- MODULE CameraSocketsProofs -------------------------
(***************************************************************************)
(* Proofs about CameraSockets, for any users, cameras and sockets and any  *)
(* bound on what is under way together.                                    *)
(***************************************************************************)
EXTENDS CameraSockets, TLAPS

(***************************************************************************)
(* The session                                                             *)
(***************************************************************************)
\* A refresh under way asks with a token, and one that has brought a token has
\* made the store's expiry new until React has rendered it.
RefreshInv ==
  /\ refresh.phase = "flying" => refresh.token # NoUser
  /\ refresh.phase = "settled" /\ refresh.token # NoUser /\ keep = "waiting"
       => auth.expiry = "new"

\* The mounted effect's timer stops only for a new token or the end of the session.
KeepInv ==
  /\ auth.access # NoUser => auth.expiry # "null"
  /\ console.armed /\ keep = "off" => auth.expiry = "new" \/ auth.refresh = NoUser

SessionInv == SessionTypeOK /\ SessionWhole /\ RefreshInv /\ KeepInv

\* What a call or an answer does to the store, and what every step does.
AnswerStep ==
  \/ auth' = auth
  \/ \E u \in Users : u \in {calls.login, calls.unlock} /\ auth' = setSession(u)
  \/ auth' = clearSession
  \/ refresh.phase = "flying" /\ auth' = setAccessToken(refresh.token)
  \/ auth' = [auth EXCEPT !.expiring = TRUE]
  \/ CanLock /\ auth' = lock

StoreStep == AnswerStep \/ (signedIn /\ auth' = [auth EXCEPT !.expiry = "seen"])

LEMMA RefreshCalledSound ==
  ASSUME SessionTypeOK, SessionWhole, RefreshInv
  PROVE  /\ RefreshCalled \in [phase : {"none", "flying", "settled"}, token : SomeUser]
         /\ RefreshCalled.phase = "flying" => RefreshCalled.token # NoUser
         /\ refresh.phase # "settled" /\ RefreshCalled.phase = "settled"
              => RefreshCalled.token = NoUser
BY DEF RefreshCalled, SessionTypeOK, RefreshInv

LEMMA SessionInitial == SessionInit => SessionInv
<1> SUFFICES ASSUME SessionInit PROVE SessionInv
  OBVIOUS
<1>1. SessionTypeOK
  BY DEF SessionInit, SessionTypeOK, SignedOut, NoRefresh, Idle, SomeUser
<1>2. SessionWhole /\ RefreshInv /\ KeepInv
  BY DEF SessionInit, SessionWhole, RefreshInv, KeepInv, SignedOut, NoRefresh
<1> QED
  BY <1>1, <1>2 DEF SessionInv

\* Calls and answers: the store changes as StoreStep says, nothing is rendered.
LEMMA AnswersKeepSession ==
  ASSUME SessionInv, AnswerStep,
         \/ UNCHANGED refresh
         \/ refresh' = RefreshCalled
         \/ RefreshSettles,
         auth' # auth => refresh.phase # "settled",
         refresh' # refresh => refresh.phase # "settled",
         UNCHANGED <<console, keep>>,
         calls' \in [login : SomeUser, unlock : SomeUser,
                     ending : {"no", "signout", "password"}, query : {"no", "refused"}],
         stale' \subseteq {"armed", "waiting"}, backend' \in {"up", "down"},
         cast' = cast
  PROVE  SessionInv'
<1> USE UserAssumption DEF SomeUser
<1> DEFINE Stored ==
      /\ auth' \in [access : SomeUser, refresh : SomeUser, user : SomeUser,
                    expiry : {"null", "new", "seen"}, expiring : BOOLEAN, locked : BOOLEAN]
      /\ SessionWhole' /\ (auth'.access # NoUser => auth'.expiry # "null")
      /\ auth' # auth => \/ auth'.expiry = "new" \/ auth'.refresh = NoUser
                         \/ auth'.expiry = auth.expiry /\ auth'.refresh = auth.refresh
<1>1. Stored
  <2> USE DEF SessionInv, SessionTypeOK, SessionWhole, KeepInv
  <2>1. CASE auth' = auth
    BY <2>1
  <2>2. ASSUME NEW u \in Users, auth' = setSession(u) PROVE Stored
    BY <2>2 DEF setSession
  <2>3. CASE auth' = clearSession
    BY <2>3 DEF clearSession, SignedOut
  <2>4. CASE refresh.phase = "flying" /\ auth' = setAccessToken(refresh.token)
    BY <2>4 DEF RefreshInv, setAccessToken
  <2>5. CASE auth' = [auth EXCEPT !.expiring = TRUE]
    BY <2>5
  <2>6. CASE CanLock /\ auth' = lock
    BY <2>6 DEF CanLock, lock
  <2> QED
    BY <2>1, <2>2, <2>3, <2>4, <2>5, <2>6 DEF AnswerStep
<1>2. SessionTypeOK'
  BY <1>1, RefreshCalledSound DEF SessionInv, SessionTypeOK, RefreshSettles
<1>3. RefreshInv'
  <2>1. CASE refresh' = refresh
    BY <2>1, <1>1 DEF SessionInv, RefreshInv
  <2>2. CASE refresh' = RefreshCalled /\ refresh' # refresh
    BY <2>2, RefreshCalledSound DEF SessionInv, RefreshInv
  <2>3. CASE RefreshSettles
    <3>1. \/ auth' = setAccessToken(refresh.token) /\ refresh' = [phase |-> "settled", token |-> refresh.token]
          \/ refresh' = [phase |-> "settled", token |-> NoUser]
      BY <2>3 DEF RefreshSettles
    <3>2. auth' = setAccessToken(refresh.token) => auth'.expiry = "new"
      BY DEF SessionInv, SessionTypeOK, setAccessToken
    <3>3. refresh'.phase = "settled" /\ (refresh'.token # NoUser => auth'.expiry = "new")
      BY <3>1, <3>2
    <3> QED
      BY <3>3 DEF RefreshInv
  <2> QED
    BY <2>1, <2>2, <2>3
<1>4. KeepInv'
  BY <1>1 DEF SessionInv, KeepInv
<1> QED
  BY <1>1, <1>2, <1>3, <1>4 DEF SessionInv

\* The steps that the session takes alone.
LEMMA SessionStepSound ==
  ASSUME SessionInv, SessionStep
  PROVE  SessionInv' /\ StoreStep
<1> USE UserAssumption DEF SomeUser
<1> DEFINE Calls == [login : SomeUser, unlock : SomeUser,
                     ending : {"no", "signout", "password"}, query : {"no", "refused"}]
<1>a. /\ calls \in Calls /\ stale \subseteq {"armed", "waiting"} /\ backend \in {"up", "down"}
      /\ auth.user \in SomeUser
  BY DEF SessionInv, SessionTypeOK
<1>b. Quiet => refresh.phase # "settled"
  BY DEF Quiet
<1>c. ASSUME AnswerStep, \/ UNCHANGED refresh
                         \/ refresh' = RefreshCalled
                         \/ RefreshSettles,
             auth' # auth => Quiet, refresh' # refresh => Quiet,
             UNCHANGED <<console, keep>>,
             calls' \in Calls, stale' \subseteq {"armed", "waiting"}, backend' \in {"up", "down"},
             cast' = cast
      PROVE  SessionInv' /\ StoreStep
  BY <1>b, <1>c, AnswersKeepSession DEF StoreStep
<1>1. ASSUME NEW u \in Users, SubmitLogin(u) PROVE SessionInv' /\ StoreStep
  <2>1. calls' \in Calls
    BY <1>1, <1>a DEF SubmitLogin
  <2> QED
    BY <1>1, <1>a, <1>c, <2>1 DEF SubmitLogin, AnswerStep
<1>2. CASE LoginAnswered
  <2>1. calls' \in Calls /\ AnswerStep
    BY <1>2, <1>a DEF LoginAnswered, AnswerStep
  <2> QED
    BY <1>2, <1>a, <1>c, <2>1 DEF LoginAnswered
<1>3. CASE LockScreen
  BY <1>3, <1>a, <1>c DEF LockScreen, AnswerStep
<1>4. CASE SubmitUnlock
  <2>1. calls' \in Calls
    BY <1>4, <1>a DEF SubmitUnlock
  <2> QED
    BY <1>4, <1>a, <1>c, <2>1 DEF SubmitUnlock, AnswerStep
<1>5. CASE UnlockAnswered
  <2>1. calls' \in Calls /\ AnswerStep
    BY <1>5, <1>a DEF UnlockAnswered, AnswerStep, unlock
  <2> QED
    BY <1>5, <1>a, <1>c, <2>1 DEF UnlockAnswered
<1>6. CASE StartSignOut \/ SubmitPassword
  <2>1. calls' \in Calls
    BY <1>6, <1>a DEF StartSignOut, SubmitPassword
  <2> QED
    BY <1>6, <1>a, <1>c, <2>1 DEF StartSignOut, SubmitPassword, AnswerStep
<1>7. CASE PasswordAnswered
  <2>1. calls' \in Calls /\ AnswerStep
    BY <1>7, <1>a DEF PasswordAnswered, AnswerStep
  <2> QED
    BY <1>7, <1>a, <1>c, <2>1 DEF PasswordAnswered
<1>8. CASE RefreshSettles
  <2>1. AnswerStep
    BY <1>8 DEF RefreshSettles, AnswerStep
  <2> QED
    BY <1>8, <1>a, <1>c, <2>1 DEF RefreshSettles
<1>9. CASE TokenAges
  BY <1>9, <1>a, <1>c DEF TokenAges, AnswerStep
<1>10. CASE KeepAliveFires
  <2>1. SessionTypeOK' /\ RefreshInv'
    BY <1>10, <1>b, RefreshCalledSound DEF KeepAliveFires, SessionInv, SessionTypeOK, RefreshInv
  <2> QED
    BY <1>10, <2>1 DEF KeepAliveFires, SessionInv, SessionWhole, KeepInv, StoreStep, AnswerStep
<1>11. CASE KeepAliveResumes
  <2>1. SessionTypeOK' /\ RefreshInv'
    BY <1>11 DEF KeepAliveResumes, SessionInv, SessionTypeOK, RefreshInv
  <2> QED
    BY <1>11, <2>1 DEF KeepAliveResumes, RetryWanted, SessionInv, SessionWhole, RefreshInv, KeepInv,
                       StoreStep, AnswerStep
<1>12. CASE StaleFires
  BY <1>12, <1>a, <1>c DEF StaleFires, AnswerStep
<1>13. CASE StaleResumes
  BY <1>13, <1>a, <1>c DEF StaleResumes, AnswerStep
<1>14. CASE QueryRefused
  <2>1. calls' \in Calls
    BY <1>14, <1>a DEF QueryRefused
  <2> QED
    BY <1>14, <1>a, <1>c, <2>1 DEF QueryRefused, AnswerStep
<1>15. CASE QueryResumes
  <2>1. calls' \in Calls
    BY <1>15, <1>a DEF QueryResumes
  <2> QED
    BY <1>15, <1>a, <1>c, <2>1 DEF QueryResumes, AnswerStep
<1>16. CASE BackendTurns
  BY <1>16, <1>a, <1>c DEF BackendTurns, AnswerStep
<1> QED
  BY <1>1, <1>2, <1>3, <1>4, <1>5, <1>6, <1>7, <1>8, <1>9, <1>10, <1>11, <1>12, <1>13, <1>14,
     <1>15, <1>16 DEF SessionStep

\* React's render of the session.
LEMMA RenderSound ==
  ASSUME SessionInv, RenderSession
  PROVE  SessionInv' /\ StoreStep
<1> USE UserAssumption DEF SomeUser
<1>1. /\ signedIn \in BOOLEAN /\ KeepAliveWanted \in BOOLEAN
      /\ CleanedUp \subseteq {"armed", "waiting"}
  BY DEF signedIn, KeepAliveWanted, CleanedUp, SessionInv, SessionTypeOK
<1>2. SessionTypeOK' /\ SessionWhole' /\ StoreStep /\ KeepInv' /\ RefreshInv'
  <2>1. CASE signedIn
    <3>1. SessionTypeOK'
      BY <2>1, <1>1 DEF RenderSession, SessionInv, SessionTypeOK
    <3>2. /\ auth'.expiry = "seen" /\ auth'.user = auth.user /\ auth'.refresh = auth.refresh
          /\ auth'.access = auth.access /\ auth'.locked = auth.locked
      BY <2>1 DEF RenderSession, SessionInv, SessionTypeOK
    <3>3. /\ keep' # "waiting" /\ (console'.armed => keep' = "armed")
          /\ refresh' = refresh
      BY <2>1, <1>1 DEF RenderSession
    <3> QED
      BY <2>1, <3>1, <3>2, <3>3
         DEF RenderSession, SessionInv, SessionWhole, KeepInv, RefreshInv, StoreStep
  <2>2. CASE ~signedIn
    <3>1. SessionTypeOK'
      BY <2>2, <1>1 DEF RenderSession, SessionInv, SessionTypeOK
    <3>2. auth' = auth /\ keep' = "off" /\ ~console'.armed /\ refresh' = refresh
      BY <2>2 DEF RenderSession
    <3> QED
      BY <3>1, <3>2 DEF SessionInv, SessionWhole, KeepInv, RefreshInv, StoreStep, AnswerStep
  <2> QED
    BY <2>1, <2>2
<1> QED
  BY <1>2 DEF SessionInv

(***************************************************************************)
(* The sockets                                                             *)
(***************************************************************************)
LinkTypes ==
  /\ sockets \in [Cameras -> Sockets \cup {NoSocket}]
  /\ obj \in [Sockets -> Fields]
  /\ connection \in [Cameras -> Shown]

\* One object alone: one activity at a time, and none but a wait once closed.
SoundFields(f) ==
  /\ f.ws # "none" => ~f.timer /\ f.wait = "no" /\ ~f.closed
  /\ f.timer => f.wait = "no" /\ ~f.closed

\* What NeverGivesUp says of one object.
AtWork(f) == \/ f.ws # "none" \/ f.timer \/ f.wait # "no"
             \/ f.said \in {"locked", "signed out", "expired"}

\* The map and the objects that are not closed are the same, camera by camera.
MapInv ==
  /\ \A s \in Sockets : ~obj[s].closed => sockets[obj[s].camera] = s
  /\ \A c \in Cameras : sockets[c] # NoSocket =>
       ~obj[sockets[c]].closed /\ obj[sockets[c]].camera = c

LinkInv ==
  /\ LinkTypes /\ MapInv
  /\ \A s \in Sockets : SoundFields(obj[s])
  /\ \A c \in Cameras : sockets[c] # NoSocket => AtWork(obj[sockets[c]])
  /\ \A c \in Cameras : connection[c] = "open" =>
       sockets[c] # NoSocket /\ obj[sockets[c]].ws = "open"

ContractStep == Link!Next \/ UNCHANGED <<sockets, {s \in Sockets : obj[s].ws # "none"}>>

\* A new state g of an object f that agrees with the map as f does.
Continues(f, g) ==
  /\ g \in Fields /\ SoundFields(g)
  /\ g.closed = f.closed
  /\ ~g.closed => g.camera = f.camera /\ AtWork(g)

\* One object moves.
LEMMA OneObjectSound ==
  ASSUME LinkInv, NEW s \in Sockets, NEW g, Continues(obj[s], g),
         Put(s, g), UNCHANGED sockets,
         connection' \in [Cameras -> Shown],
         \A c \in Cameras : connection'[c] = "open" =>
           \/ ~g.closed /\ c = g.camera /\ g.ws = "open"
           \/ connection[c] = "open" /\ (c = obj[s].camera => obj[s].ws # "open" \/ g.ws = "open" \/ g.closed)
  PROVE  LinkInv' /\ ContractStep
<1> USE SocketAssumption
<1>1. /\ obj' \in [Sockets -> Fields] /\ obj'[s] = g
      /\ \A t \in Sockets \ {s} : obj'[t] = obj[t]
      /\ sockets' = sockets /\ sockets \in [Cameras -> Sockets \cup {NoSocket}]
      /\ obj[s] \in Fields /\ g \in Fields
      /\ obj[s].camera \in Cameras /\ g.camera \in Cameras
  BY DEF Put, LinkInv, LinkTypes, Continues, Fields
<1>2. LinkTypes'
  BY <1>1 DEF LinkTypes
<1>3. MapInv'
  BY <1>1 DEF MapInv, LinkInv, Continues
<1>4. \A t \in Sockets : SoundFields(obj'[t])
  BY <1>1 DEF LinkInv, Continues
<1>5. \A c \in Cameras : sockets'[c] # NoSocket => AtWork(obj'[sockets'[c]])
  BY <1>1, <1>3 DEF LinkInv, Continues, MapInv
<1>6. ASSUME NEW c \in Cameras, connection'[c] = "open"
      PROVE  sockets'[c] # NoSocket /\ obj'[sockets'[c]].ws = "open"
  <2>1. CASE ~g.closed /\ c = g.camera /\ g.ws = "open"
    BY <1>1, <1>3, <2>1 DEF MapInv
  <2>2. CASE connection[c] = "open" /\ (c = obj[s].camera => obj[s].ws # "open" \/ g.ws = "open" \/ g.closed)
    <3>1. sockets[c] # NoSocket /\ sockets[c] \in Sockets /\ obj[sockets[c]].ws = "open"
      BY <1>1, <2>2 DEF LinkInv
    <3>2. sockets[c] = s => c = obj[s].camera /\ ~g.closed
      BY <3>1 DEF LinkInv, MapInv, Continues
    <3> QED
      BY <1>1, <2>2, <3>1, <3>2
  <2> QED
    BY <1>6, <2>1, <2>2
<1>7. ContractStep
  <2> DEFINE linked == {t \in Sockets : obj[t].ws # "none"}
  <2>1. CASE (g.ws = "none") = (obj[s].ws = "none")
    BY <1>1, <2>1 DEF ContractStep
  <2>2. CASE g.ws # "none" /\ obj[s].ws = "none"
    <3>1. sockets[obj[s].camera] = s
      BY <1>1, <2>2 DEF Continues, SoundFields, LinkInv, MapInv
    <3>2. s \in Link!InUse /\ s \notin linked
      BY <1>1, <2>2, <3>1 DEF Link!InUse
    <3>3. linked' = linked \cup {s}
      BY <1>1, <2>2
    <3>4. Link!Connect(s)
      BY <1>1, <3>2, <3>3 DEF Link!Connect
    <3> QED
      BY <3>4 DEF ContractStep, Link!Next
  <2>3. CASE g.ws = "none" /\ obj[s].ws # "none"
    <3>1. s \in linked /\ linked' = linked \ {s}
      BY <1>1, <2>3
    <3>2. Link!Lose(s)
      BY <1>1, <3>1 DEF Link!Lose
    <3> QED
      BY <3>2 DEF ContractStep, Link!Next
  <2> QED
    BY <2>1, <2>2, <2>3
<1> QED
  BY <1>2, <1>3, <1>4, <1>5, <1>6, <1>7 DEF LinkInv

\* A state shown of a camera that is not "open" can be shown at any time, and
\* "open" when its object is.
LEMMA ShowSound ==
  ASSUME LinkInv, NEW s \in Sockets, NEW g, Continues(obj[s], g), Put(s, g),
         UNCHANGED sockets, NEW state \in Shown, Show(obj[s].camera, state),
         state = "open" => g.ws = "open"
  PROVE  LinkInv' /\ ContractStep
<1>1. obj[s].camera \in Cameras /\ connection \in [Cameras -> Shown]
  BY DEF LinkInv, LinkTypes, Fields
<1>2. connection' \in [Cameras -> Shown]
  BY <1>1 DEF Show
<1>3. ASSUME NEW c \in Cameras, connection'[c] = "open"
      PROVE  \/ ~g.closed /\ c = g.camera /\ g.ws = "open"
             \/ connection[c] = "open" /\ (c = obj[s].camera => obj[s].ws # "open" \/ g.ws = "open" \/ g.closed)
  <2>1. CASE c = obj[s].camera
    <3>1. state = "open"
      BY <1>1, <1>3, <2>1 DEF Show
    <3>2. g.ws = "open" /\ ~g.closed
      BY <3>1 DEF Continues, SoundFields
    <3> QED
      BY <2>1, <3>2 DEF Continues
  <2>2. CASE c # obj[s].camera
    BY <1>1, <1>3, <2>2 DEF Show
  <2> QED
    BY <2>1, <2>2
<1> QED
  BY <1>2, <1>3, OneObjectSound

\* connect(), called by an idle object that is not closed.
LEMMA ConnectSound ==
  ASSUME NEW s \in Sockets, NEW f \in Fields,
         ~f.closed, f.ws = "none", ~f.timer, f.wait = "no", connect(s, f)
  PROVE  \E g \in Fields, state \in Shown \ {"open"} :
           /\ Continues(f, g) /\ g.ws # "open" /\ g.subs = f.subs
           /\ Put(s, g) /\ Show(f.camera, state)
           /\ refresh' \in {refresh, RefreshCalled}
<1>1. Trying(f) \in Shown \ {"open"}
  BY DEF Trying, Shown
<1>2. CASE ~Admitted
  <2> DEFINE g == [f EXCEPT !.said = IF auth.locked THEN "locked" ELSE "signed out"]
  <2>1. Put(s, g) /\ Show(f.camera, "closed") /\ refresh' = refresh
    BY <1>2 DEF connect
  <2>2. Continues(f, g) /\ g \in Fields /\ g.ws # "open" /\ g.subs = f.subs
    BY DEF Continues, SoundFields, AtWork, Fields
  <2>3. "closed" \in Shown \ {"open"}
    BY DEF Shown
  <2> QED
    BY <2>1, <2>2, <2>3
<1>3. CASE Admitted /\ auth.expiring
  <2> DEFINE g == [f EXCEPT !.wait = "connect", !.said = "none"]
  <2>1. Put(s, g) /\ Show(f.camera, Trying(f)) /\ refresh' = RefreshCalled
    BY <1>3 DEF connect
  <2>2. Continues(f, g) /\ g \in Fields /\ g.ws # "open" /\ g.subs = f.subs
    BY DEF Continues, SoundFields, AtWork, Fields
  <2> QED
    BY <1>1, <2>1, <2>2
<1>4. CASE Admitted /\ ~auth.expiring
  <2> DEFINE g == [dial(f) EXCEPT !.said = "none"]
  <2>1. Put(s, g) /\ Show(f.camera, Trying(f)) /\ refresh' = refresh
    BY <1>4 DEF connect
  <2>2. Continues(f, g) /\ g \in Fields /\ g.ws # "open" /\ g.subs = f.subs
    BY DEF Continues, SoundFields, AtWork, Fields, dial, CanConnect
  <2> QED
    BY <1>1, <2>1, <2>2
<1> QED
  BY <1>2, <1>3, <1>4

\* scheduleReconnect() of an object with no other activity.
LEMMA ScheduleSound ==
  ASSUME NEW f \in Fields, SoundFields(f), f.ws = "none", f.wait = "no"
  PROVE  Continues(f, scheduleReconnect(f)) /\ scheduleReconnect(f).ws = "none"
BY DEF Continues, scheduleReconnect, SoundFields, AtWork, Fields

LEMMA GoneSound ==
  /\ Gone \in Fields /\ Gone.closed /\ Gone.ws = "none" /\ ~Gone.timer /\ Gone.wait = "no"
  /\ \A c \in Cameras : Blank(c) \in Fields
<1>1. PICK c \in Cameras : (CHOOSE d \in Cameras : TRUE) = c
  BY SocketAssumption
<1>2. \A d \in Cameras : Blank(d) \in Fields
  BY SocketAssumption DEF Blank, Fields
<1> QED
  BY <1>1, <1>2 DEF Gone, Blank, Fields

\* An object that nothing refers to is forgotten.
LEMMA CollectedSound ==
  ASSUME NEW f, NEW g, Continues(f, g)
  PROVE  Continues(f, Collected(g)) /\ (Collected(g).ws = "open" => g.ws = "open")
<1>1. CASE Collected(g) = g
  BY <1>1
<1>2. CASE Collected(g) = Gone /\ g.closed
  <2>1. Gone \in Fields /\ Gone.closed /\ Gone.ws = "none" /\ ~Gone.timer
    BY GoneSound
  <2> QED
    BY <1>2, <2>1 DEF Continues, SoundFields
<1> QED
  BY <1>1, <1>2 DEF Collected

(***************************************************************************)
(* The steps of the sockets                                                *)
(***************************************************************************)
IInv == SessionInv /\ LinkInv

LEMMA SessionUntouched ==
  ASSUME SessionInv, UNCHANGED sessionVars
  PROVE  SessionInv' /\ StoreStep
BY DEF sessionVars, SessionInv, SessionTypeOK, SessionWhole, RefreshInv, KeepInv, StoreStep,
       AnswerStep

\* A caller may have asked for a refresh.
LEMMA RefreshAskedFor ==
  ASSUME SessionInv, Quiet, refresh' \in {refresh, RefreshCalled},
         UNCHANGED <<auth, console, keep, stale, calls, backend, cast>>
  PROVE  SessionInv' /\ StoreStep
<1>1. AnswerStep /\ refresh.phase # "settled"
  BY DEF AnswerStep, Quiet
<1> QED
  BY <1>1, AnswersKeepSession DEF SessionInv, SessionTypeOK, StoreStep

\* An object is made for a camera that had none.
LEMMA SubscribeFirstSound ==
  ASSUME IInv, NEW c \in Cameras, SubscribeFirst(c)
  PROVE  IInv' /\ StoreStep /\ ContractStep
<1> USE SocketAssumption
<1>1. PICK s \in Sockets :
        /\ obj[s] = Gone /\ ~InMap(s)
        /\ sockets' = [sockets EXCEPT ![c] = s]
        /\ connect(s, [Blank(c) EXCEPT !.subs = 1])
  BY DEF SubscribeFirst
<1> DEFINE f == [Blank(c) EXCEPT !.subs = 1]
<1>2. f \in Fields /\ ~f.closed /\ f.ws = "none" /\ ~f.timer /\ f.wait = "no" /\ f.camera = c
  <2>1. 1 \in 0..MaxSubs
    BY SocketAssumption
  <2>2. Blank(c) \in Fields
    BY GoneSound
  <2>3. f \in Fields
    BY <2>1, <2>2 DEF Fields
  <2> QED
    BY <2>3 DEF Blank
<1>3. PICK g \in Fields, state \in Shown \ {"open"} :
        /\ Continues(f, g) /\ g.ws # "open"
        /\ Put(s, g) /\ Show(c, state)
        /\ refresh' \in {refresh, RefreshCalled}
  <2>1. connect(s, f)
    BY <1>1
  <2> HIDE DEF f
  <2>2. \E g \in Fields, state \in Shown \ {"open"} :
           /\ Continues(f, g) /\ g.ws # "open" /\ g.subs = f.subs
           /\ Put(s, g) /\ Show(f.camera, state)
           /\ refresh' \in {refresh, RefreshCalled}
    BY <1>2, <2>1, ConnectSound
  <2> QED
    BY <1>2, <2>2
<1>4. SessionInv' /\ StoreStep
  BY <1>3, RefreshAskedFor DEF SubscribeFirst, IInv
<1>5. /\ sockets \in [Cameras -> Sockets \cup {NoSocket}] /\ obj \in [Sockets -> Fields]
      /\ connection \in [Cameras -> Shown] /\ sockets[c] = NoSocket
      /\ \A d \in Cameras : sockets[d] # s
  BY <1>1 DEF IInv, LinkInv, LinkTypes, SubscribeFirst, InMap
<1>6. /\ sockets' \in [Cameras -> Sockets \cup {NoSocket}] /\ sockets'[c] = s
      /\ \A d \in Cameras \ {c} : sockets'[d] = sockets[d]
      /\ obj' \in [Sockets -> Fields] /\ obj'[s] = g
      /\ \A t \in Sockets \ {s} : obj'[t] = obj[t]
      /\ connection' \in [Cameras -> Shown] /\ connection'[c] # "open"
      /\ \A d \in Cameras \ {c} : connection'[d] = connection[d]
      /\ g.camera = c /\ ~g.closed /\ AtWork(g) /\ SoundFields(g)
  BY <1>1, <1>2, <1>3, <1>5 DEF Put, Show, Continues
<1>7. \A d \in Cameras \ {c} : sockets'[d] # NoSocket =>
        sockets'[d] \in Sockets \ {s} /\ obj'[sockets'[d]] = obj[sockets[d]]
  BY <1>5, <1>6
<1>8. MapInv'
  <2>1. ASSUME NEW t \in Sockets, ~obj'[t].closed PROVE sockets'[obj'[t].camera] = t
    <3>1. CASE t = s
      BY <1>6, <3>1
    <3>2. CASE t # s
      <4>1. sockets[obj[t].camera] = t /\ obj[t].camera \in Cameras
        <5>1. ~obj[t].closed /\ obj[t] \in Fields
          BY <1>5, <1>6, <2>1, <3>2
        <5>2. obj[t].camera \in Cameras
          BY <5>1 DEF Fields
        <5> QED
          BY <5>1, <5>2 DEF IInv, LinkInv, MapInv
      <4>2. obj[t].camera # c
        BY <1>5, <4>1
      <4> QED
        BY <1>6, <3>2, <4>1, <4>2
    <3> QED
      BY <3>1, <3>2
  <2>2. ASSUME NEW d \in Cameras, sockets'[d] # NoSocket
        PROVE  ~obj'[sockets'[d]].closed /\ obj'[sockets'[d]].camera = d
    BY <1>6, <1>7, <2>2 DEF IInv, LinkInv, MapInv
  <2> QED
    BY <2>1, <2>2 DEF MapInv
<1>9. LinkInv'
  <2>1. \A t \in Sockets : SoundFields(obj'[t])
    BY <1>6 DEF IInv, LinkInv
  <2>2. \A d \in Cameras : sockets'[d] # NoSocket => AtWork(obj'[sockets'[d]])
    BY <1>6, <1>7 DEF IInv, LinkInv
  <2>3. \A d \in Cameras : connection'[d] = "open" =>
          sockets'[d] # NoSocket /\ obj'[sockets'[d]].ws = "open"
    BY <1>6, <1>7 DEF IInv, LinkInv
  <2> QED
    BY <1>6, <1>8, <2>1, <2>2, <2>3 DEF LinkInv, LinkTypes
<1>10. ContractStep
  <2> DEFINE linked == {t \in Sockets : obj[t].ws # "none"}
  <2>1. s \notin linked /\ s \notin Link!InUse
    BY <1>1, <1>5, GoneSound DEF Link!InUse
  <2>2. linked' \in {linked, linked \cup {s}}
    BY <1>6, <2>1
  <2>3. Link!Adopt(c, s)
    BY <1>1, <1>5, <2>1, <2>2 DEF Link!Adopt
  <2> QED
    BY <2>3 DEF ContractStep, Link!Next
<1> QED
  BY <1>4, <1>9, <1>10 DEF IInv

\* An object that is not closed is its camera's.
LEMMA OpenInMap ==
  ASSUME LinkInv, NEW s \in Sockets, ~obj[s].closed
  PROVE  /\ obj[s].camera \in Cameras /\ sockets[obj[s].camera] = s
         /\ AtWork(obj[s])
<1>1. obj[s] \in Fields
  BY DEF LinkInv, LinkTypes
<1>2. obj[s].camera \in Cameras
  BY <1>1 DEF Fields
<1>3. sockets[obj[s].camera] = s
  BY <1>2 DEF LinkInv, MapInv
<1> QED
  BY <1>2, <1>3, SocketAssumption DEF LinkInv

\* One more subscription, or one fewer.
LEMMA CountSound ==
  ASSUME IInv, NEW c \in Cameras, SubscribeAgain(c) \/ ReleaseOne(c)
  PROVE  IInv' /\ StoreStep /\ ContractStep
<1>1. PICK s \in Sockets : \E n \in 0..MaxSubs :
        Put(s, [obj[s] EXCEPT !.subs = n]) /\ UNCHANGED <<sessionVars, sockets, connection>>
  <2>1. CASE SubscribeAgain(c)
    <3>1. PICK s \in Sockets : obj[s].subs < MaxSubs /\ Put(s, [obj[s] EXCEPT !.subs = @ + 1])
      BY <2>1 DEF SubscribeAgain
    <3>2. obj[s] \in Fields
      BY DEF IInv, LinkInv, LinkTypes
    <3>3. obj[s].subs \in 0..MaxSubs
      BY <3>2 DEF Fields
    <3>4. obj[s].subs + 1 \in 0..MaxSubs
      BY <3>1, <3>3, SocketAssumption
    <3> QED
      BY <2>1, <3>1, <3>4 DEF SubscribeAgain
  <2>2. CASE ReleaseOne(c)
    <3>1. PICK s \in Sockets : obj[s].subs > 1 /\ Put(s, [obj[s] EXCEPT !.subs = @ - 1])
      BY <2>2 DEF ReleaseOne
    <3>2. obj[s] \in Fields
      BY DEF IInv, LinkInv, LinkTypes
    <3>3. obj[s].subs \in 0..MaxSubs
      BY <3>2 DEF Fields
    <3>4. obj[s].subs - 1 \in 0..MaxSubs
      BY <3>1, <3>3, SocketAssumption
    <3> QED
      BY <2>2, <3>1, <3>4 DEF ReleaseOne
  <2> QED
    BY <2>1, <2>2
<1>2. PICK n \in 0..MaxSubs :
        Put(s, [obj[s] EXCEPT !.subs = n]) /\ UNCHANGED <<sessionVars, sockets, connection>>
  BY <1>1
<1> DEFINE g == [obj[s] EXCEPT !.subs = n]
<1>3. obj[s] \in Fields /\ SoundFields(obj[s]) /\ (~obj[s].closed => AtWork(obj[s]))
  BY OpenInMap DEF IInv, LinkInv, LinkTypes
<1>4. Continues(obj[s], g) /\ g.ws = obj[s].ws
  BY <1>3 DEF Continues, SoundFields, AtWork, Fields
<1>5. Put(s, g) /\ UNCHANGED <<sockets, connection>> /\ UNCHANGED sessionVars
  BY <1>2
<1> HIDE DEF g
<1>6. LinkInv' /\ ContractStep
  BY <1>4, <1>5, OneObjectSound DEF IInv, LinkInv, LinkTypes
<1> QED
  BY <1>5, <1>6, SessionUntouched DEF IInv

\* Objects are shut down, and with them their cameras leave the map.
LEMMA ShutdownSound ==
  ASSUME NEW f \in Fields, SoundFields(f)
  PROVE  LET g == Collected(shutdown(f)) IN
           g \in Fields /\ SoundFields(g) /\ g.closed /\ g.ws = "none"
<1> DEFINE h == shutdown(f)
<1>1. h \in Fields /\ h.closed /\ h.ws = "none" /\ ~h.timer
  <2>1. 0 \in 0..MaxSubs
    BY SocketAssumption
  <2>2. (f.leaving \/ f.ws # "none") \in BOOLEAN
    OBVIOUS
  <2> QED
    BY <2>1, <2>2 DEF shutdown, Fields
<1>2. SoundFields(h)
  BY <1>1 DEF SoundFields
<1> HIDE DEF h
<1>3. Collected(h) = h \/ Collected(h) = Gone
  BY DEF Collected
<1> QED
  BY <1>1, <1>2, <1>3, GoneSound DEF SoundFields, h

LEMMA LeavingSound ==
  ASSUME LinkInv, NEW gone \in SUBSET Cameras,
         sockets' = [c \in Cameras |-> IF c \in gone THEN NoSocket ELSE sockets[c]],
         obj' \in [Sockets -> Fields],
         \A s \in Sockets : IF \E c \in gone : sockets[c] = s
                            THEN obj'[s].closed /\ obj'[s].ws = "none" /\ SoundFields(obj'[s])
                            ELSE obj'[s] = obj[s],
         connection' \in [Cameras -> Shown],
         \A c \in Cameras : connection'[c] = "open" => connection[c] = "open" /\ c \notin gone
  PROVE  LinkInv' /\ ContractStep
<1> USE SocketAssumption
<1>1. /\ sockets \in [Cameras -> Sockets \cup {NoSocket}]
      /\ obj \in [Sockets -> Fields]
      /\ sockets' \in [Cameras -> Sockets \cup {NoSocket}]
  BY DEF LinkInv, LinkTypes
<1>2. \A c, d \in Cameras : sockets[c] # NoSocket /\ sockets[c] = sockets[d] => c = d
  BY DEF LinkInv, MapInv
<1>3. ASSUME NEW c \in Cameras, sockets'[c] # NoSocket
      PROVE  c \notin gone /\ sockets'[c] = sockets[c] /\ obj'[sockets[c]] = obj[sockets[c]]
  <2>1. c \notin gone /\ sockets'[c] = sockets[c] /\ sockets[c] \in Sockets
    BY <1>1, <1>3
  <2>2. ~\E d \in gone : sockets[d] = sockets[c]
    BY <1>2, <1>3, <2>1
  <2> QED
    BY <2>1, <2>2
<1>4. MapInv'
  <2>1. ASSUME NEW s \in Sockets, ~obj'[s].closed PROVE sockets'[obj'[s].camera] = s
    <3>1. obj'[s] = obj[s] /\ ~\E c \in gone : sockets[c] = s
      BY <2>1
    <3>2. sockets[obj[s].camera] = s /\ obj[s].camera \in Cameras
      <4>1. obj[s] \in Fields
        BY <1>1
      <4>2. obj[s].camera \in Cameras
        BY <4>1 DEF Fields
      <4> QED
        BY <2>1, <3>1, <4>2 DEF LinkInv, MapInv
    <3> QED
      BY <3>1, <3>2
  <2>2. \A c \in Cameras : sockets'[c] # NoSocket =>
          ~obj'[sockets'[c]].closed /\ obj'[sockets'[c]].camera = c
    BY <1>3 DEF LinkInv, MapInv
  <2> QED
    BY <2>1, <2>2 DEF MapInv
<1>5. LinkInv'
  <2>1. \A s \in Sockets : SoundFields(obj'[s])
    BY DEF LinkInv
  <2>2. \A c \in Cameras : sockets'[c] # NoSocket => AtWork(obj'[sockets'[c]])
    BY <1>3 DEF LinkInv
  <2>3. ASSUME NEW c \in Cameras, connection'[c] = "open"
        PROVE  sockets'[c] # NoSocket /\ obj'[sockets'[c]].ws = "open"
    <3>1. c \notin gone /\ sockets[c] # NoSocket /\ obj[sockets[c]].ws = "open"
      BY <2>3 DEF LinkInv
    <3>2. sockets'[c] = sockets[c]
      BY <3>1
    <3> QED
      BY <1>3, <3>1, <3>2
  <2> QED
    BY <1>1, <1>4, <2>1, <2>2, <2>3 DEF LinkInv, LinkTypes
<1>6. ContractStep
  <2> DEFINE linked == {s \in Sockets : obj[s].ws # "none"}
  <2>1. linked' = linked \ {sockets[c] : c \in gone}
    OBVIOUS
  <2>2. Link!Abandon(gone)
    BY <2>1 DEF Link!Abandon
  <2> QED
    BY <2>2 DEF ContractStep, Link!Next
<1> QED
  BY <1>5, <1>6

LEMMA ReleaseLastSound ==
  ASSUME IInv, NEW c \in Cameras, ReleaseLast(c)
  PROVE  IInv' /\ StoreStep /\ ContractStep
<1>1. PICK s \in Sockets : sockets[c] = s /\ Put(s, Collected(shutdown(obj[s])))
  BY DEF ReleaseLast
<1> DEFINE g == Collected(shutdown(obj[s]))
<1>2. LinkTypes /\ MapInv /\ obj[s] \in Fields /\ SoundFields(obj[s])
  BY DEF IInv, LinkInv, LinkTypes
<1>3. g \in Fields /\ SoundFields(g) /\ g.closed /\ g.ws = "none"
  BY <1>2, ShutdownSound
<1> HIDE DEF g
<1>4. obj' = [obj EXCEPT ![s] = g]
  BY <1>1 DEF Put, g
<1>5. obj' \in [Sockets -> Fields] /\ obj'[s] = g /\ \A t \in Sockets \ {s} : obj'[t] = obj[t]
  BY <1>2, <1>3, <1>4 DEF LinkTypes
<1>6. sockets' = [d \in Cameras |-> IF d \in {c} THEN NoSocket ELSE sockets[d]]
  BY <1>2 DEF ReleaseLast, LinkTypes
<1>7. /\ connection' \in [Cameras -> Shown]
      /\ \A d \in Cameras : connection'[d] = "open" => connection[d] = "open" /\ d \notin {c}
  BY <1>2 DEF ReleaseLast, Show, Shown, LinkTypes
<1>8. \A t \in Sockets : IF \E d \in {c} : sockets[d] = t
                         THEN obj'[t].closed /\ obj'[t].ws = "none" /\ SoundFields(obj'[t])
                         ELSE obj'[t] = obj[t]
  BY <1>1, <1>3, <1>5
<1>9. LinkInv' /\ ContractStep
  BY <1>5, <1>6, <1>7, <1>8, LeavingSound DEF IInv
<1> QED
  BY <1>9, SessionUntouched DEF ReleaseLast, IInv

\* All are shut down, or gone with the page.
LEMMA CloseAllSound ==
  ASSUME LinkInv, CloseAll, connection' \in [Cameras -> Shown \ {"open"}]
  PROVE  LinkInv' /\ ContractStep
<1>1. LinkTypes /\ \A s \in Sockets : obj[s] \in Fields /\ SoundFields(obj[s])
  BY DEF LinkInv, LinkTypes
<1>2. ASSUME NEW s \in Sockets
      PROVE  /\ obj'[s] \in Fields
             /\ IF \E c \in Cameras : sockets[c] = s
                THEN obj'[s].closed /\ obj'[s].ws = "none" /\ SoundFields(obj'[s])
                ELSE obj'[s] = obj[s]
  <2>1. obj'[s] = IF InMap(s) THEN Collected(shutdown(obj[s])) ELSE obj[s]
    BY DEF CloseAll
  <2> QED
    BY <1>1, <2>1, ShutdownSound DEF InMap
<1>3. obj' \in [Sockets -> Fields]
  BY <1>2 DEF CloseAll
<1>4. sockets' = [c \in Cameras |-> IF c \in Cameras THEN NoSocket ELSE sockets[c]]
  BY DEF CloseAll
<1>5. /\ connection' \in [Cameras -> Shown]
      /\ \A c \in Cameras : connection'[c] # "open"
  OBVIOUS
<1> QED
  BY <1>2, <1>3, <1>4, <1>5, LeavingSound

LEMMA ReloadSound ==
  ASSUME IInv, Reload
  PROVE  IInv' /\ StoreStep /\ ContractStep
<1>1. SessionInv' /\ StoreStep
  <2>1. SessionTypeOK'
    BY DEF Reload, Persisted, Idle, NoRefresh, SomeUser, IInv, SessionInv, SessionTypeOK
  <2> QED
    BY <2>1 DEF Reload, Persisted, NoRefresh, IInv, SessionInv, SessionWhole, RefreshInv, KeepInv,
                StoreStep, AnswerStep
<1>2. sockets' = [c \in Cameras |-> NoSocket] /\ obj' = [s \in Sockets |-> Gone]
      /\ connection' = [c \in Cameras |-> "idle"]
  BY DEF Reload
<1>3. LinkInv'
  <2>1. LinkTypes'
    BY <1>2, GoneSound DEF LinkTypes, Shown
  <2>2. MapInv' /\ \A s \in Sockets : SoundFields(obj'[s])
    BY <1>2, GoneSound DEF MapInv, SoundFields
  <2> QED
    BY <1>2, <2>1, <2>2 DEF LinkInv
<1>4. ContractStep
  <2> DEFINE linked == {s \in Sockets : obj[s].ws # "none"}
  <2>1. \A s \in linked : \E c \in Cameras : sockets[c] = s
    <3> SUFFICES ASSUME NEW s \in Sockets, obj[s].ws # "none"
                 PROVE  \E c \in Cameras : sockets[c] = s
      OBVIOUS
    <3>1. ~obj[s].closed
      BY DEF IInv, LinkInv, SoundFields
    <3> QED
      BY <3>1, OpenInMap DEF IInv
  <2>2. linked' = {} /\ linked \ {sockets[c] : c \in Cameras} = {}
    BY <1>2, <2>1, GoneSound
  <2>3. sockets' = [c \in Cameras |-> IF c \in Cameras THEN NoSocket ELSE sockets[c]]
    BY <1>2
  <2>4. Link!Abandon(Cameras)
    BY <2>2, <2>3 DEF Link!Abandon
  <2> QED
    BY <2>4 DEF ContractStep, Link!Next
<1> QED
  BY <1>1, <1>3, <1>4 DEF IInv

\* The WebSocket's events.
LEMMA EventsSound ==
  ASSUME IInv, NEW s \in Sockets,
         Opens(s) \/ Drops(s) \/ PolicyClosed(s) \/ LeavingEnds(s)
  PROVE  IInv' /\ StoreStep /\ ContractStep
<1>1. LinkInv /\ obj[s] \in Fields /\ SoundFields(obj[s])
  BY DEF IInv, LinkInv, LinkTypes
<1>2. {"open", "reconnecting", "closed"} \subseteq Shown
  BY DEF Shown
<1>3. CASE Opens(s)
  <2> DEFINE g == [obj[s] EXCEPT !.ws = "open", !.tried = FALSE]
  <2>1. Continues(obj[s], g) /\ g.ws = "open"
    BY <1>1, <1>3 DEF Opens, Continues, SoundFields, AtWork, Fields
  <2>2. Put(s, g) /\ Show(obj[s].camera, "open") /\ UNCHANGED sockets /\ UNCHANGED sessionVars
    BY <1>3 DEF Opens
  <2> HIDE DEF g
  <2>3. LinkInv' /\ ContractStep
    BY <1>1, <1>2, <2>1, <2>2, ShowSound
  <2> QED
    BY <2>2, <2>3, SessionUntouched DEF IInv
<1>4. CASE Drops(s)
  <2> DEFINE f == [obj[s] EXCEPT !.ws = "none"]
             g == scheduleReconnect(f)
  <2>1. f \in Fields /\ SoundFields(f) /\ f.ws = "none" /\ f.wait = "no"
        /\ f.closed = obj[s].closed /\ f.camera = obj[s].camera
    BY <1>1, <1>4 DEF Drops, SoundFields, Fields
  <2>2. Put(s, g) /\ Show(obj[s].camera, "reconnecting") /\ UNCHANGED sockets /\ UNCHANGED sessionVars
    BY <1>4 DEF Drops
  <2> HIDE DEF f
  <2>3. Continues(f, g)
    BY <2>1, ScheduleSound
  <2> HIDE DEF g
  <2>4. Continues(obj[s], g)
    BY <2>1, <2>3 DEF Continues
  <2>5. LinkInv' /\ ContractStep
    BY <1>1, <1>2, <2>2, <2>4, ShowSound
  <2> QED
    BY <2>2, <2>5, SessionUntouched DEF IInv
<1>5. CASE PolicyClosed(s)
  <2> DEFINE g == [obj[s] EXCEPT !.ws = "none", !.wait = "policy"]
  <2>1. Continues(obj[s], g)
    BY <1>1, <1>5 DEF PolicyClosed, Continues, SoundFields, AtWork, Fields
  <2>2. Put(s, g) /\ Show(obj[s].camera, "reconnecting") /\ UNCHANGED sockets
    BY <1>5 DEF PolicyClosed
  <2>3. SessionInv' /\ StoreStep
    BY <1>5, RefreshAskedFor DEF PolicyClosed, IInv
  <2> HIDE DEF g
  <2>4. LinkInv' /\ ContractStep
    BY <1>1, <1>2, <2>1, <2>2, ShowSound
  <2> QED
    BY <2>3, <2>4 DEF IInv
<1>6. CASE LeavingEnds(s)
  <2> DEFINE f == [obj[s] EXCEPT !.leaving = FALSE]
             g == Collected(f)
  <2>1. Continues(obj[s], f)
    BY <1>1, OpenInMap DEF Continues, SoundFields, AtWork, Fields
  <2>2. Put(s, g) /\ Show(obj[s].camera, "closed") /\ UNCHANGED sockets /\ UNCHANGED sessionVars
    BY <1>6 DEF LeavingEnds
  <2> HIDE DEF f
  <2>3. Continues(obj[s], g)
    BY <2>1, CollectedSound
  <2> HIDE DEF g
  <2>4. LinkInv' /\ ContractStep
    BY <1>1, <1>2, <2>2, <2>3, ShowSound
  <2> QED
    BY <2>2, <2>4, SessionUntouched DEF IInv
<1> QED
  BY <1>3, <1>4, <1>5, <1>6

LEMMA TimerSound ==
  ASSUME IInv, NEW s \in Sockets, TimerFires(s)
  PROVE  IInv' /\ StoreStep /\ ContractStep
<1> DEFINE f == [obj[s] EXCEPT !.timer = FALSE]
<1>1. LinkInv /\ obj[s] \in Fields /\ SoundFields(obj[s])
  BY DEF IInv, LinkInv, LinkTypes
<1>2. /\ f \in Fields /\ ~f.closed /\ f.ws = "none" /\ ~f.timer /\ f.wait = "no"
      /\ f.closed = obj[s].closed /\ f.camera = obj[s].camera
  BY <1>1 DEF TimerFires, SoundFields, Fields
<1>3. connect(s, f)
  BY DEF TimerFires
<1> HIDE DEF f
<1>4. PICK g \in Fields, state \in Shown \ {"open"} :
        /\ Continues(f, g) /\ g.ws # "open"
        /\ Put(s, g) /\ Show(f.camera, state)
        /\ refresh' \in {refresh, RefreshCalled}
  BY <1>2, <1>3, ConnectSound
<1>5. SessionInv' /\ StoreStep
  BY <1>4, RefreshAskedFor DEF TimerFires, IInv
<1>6. Continues(obj[s], g)
  BY <1>2, <1>4 DEF Continues
<1>7. LinkInv' /\ ContractStep
  BY <1>1, <1>2, <1>4, <1>6, ShowSound DEF TimerFires
<1> QED
  BY <1>5, <1>7 DEF IInv

\* What follows an awaited refresh.
LEMMA ContinueSound ==
  ASSUME IInv, NEW s \in Sockets, Continue(s)
  PROVE  IInv' /\ StoreStep /\ ContractStep
<1> DEFINE f == [obj[s] EXCEPT !.wait = "no"]
<1>1. LinkInv /\ obj[s] \in Fields /\ SoundFields(obj[s])
  BY DEF IInv, LinkInv, LinkTypes
<1>2. /\ f \in Fields /\ SoundFields(f) /\ f.ws = "none" /\ ~f.timer /\ f.wait = "no"
      /\ f.closed = obj[s].closed /\ f.camera = obj[s].camera
  BY <1>1 DEF Continue, ConnectResumes, PolicyResumes, SoundFields, Fields
<1>3. UNCHANGED sockets /\ UNCHANGED sessionVars /\ connection \in [Cameras -> Shown]
  BY DEF Continue, ConnectResumes, PolicyResumes, IInv, LinkInv, LinkTypes
<1>4. \E h : /\ h \in {dial(f), scheduleReconnect(f), scheduleReconnect([f EXCEPT !.said = "unreachable"]),
                       [f EXCEPT !.said = "expired"]}
             /\ Put(s, Collected(h))
             /\ \/ UNCHANGED connection
                \/ \E state \in {"reconnecting", "denied"} : Show(f.camera, state)
  BY DEF Continue, ConnectResumes, PolicyResumes
<1>5. PICK h : /\ h \in {dial(f), scheduleReconnect(f), scheduleReconnect([f EXCEPT !.said = "unreachable"]),
                         [f EXCEPT !.said = "expired"]}
               /\ Put(s, Collected(h))
               /\ \/ UNCHANGED connection
                  \/ \E state \in {"reconnecting", "denied"} : Show(f.camera, state)
  BY <1>4
<1> HIDE DEF f
<1>6. Continues(f, dial(f))
  <2>1. CASE f.closed
    BY <1>2, <2>1 DEF Continues, dial, CanConnect
  <2>2. CASE ~f.closed
    BY <1>2, <2>2 DEF Continues, dial, CanConnect, SoundFields, AtWork, Fields
  <2> QED
    BY <2>1, <2>2
<1>7. Continues(f, [f EXCEPT !.said = "expired"])
  BY <1>2 DEF Continues, SoundFields, AtWork, Fields
<1>8. Continues(f, scheduleReconnect(f))
  BY <1>2, ScheduleSound
<1>9. Continues(f, scheduleReconnect([f EXCEPT !.said = "unreachable"]))
  <2> DEFINE e == [f EXCEPT !.said = "unreachable"]
  <2>1. e \in Fields /\ SoundFields(e) /\ e.ws = "none" /\ e.wait = "no"
        /\ e.closed = f.closed /\ e.camera = f.camera
    BY <1>2 DEF SoundFields, Fields
  <2> HIDE DEF e
  <2>2. Continues(e, scheduleReconnect(e))
    BY <2>1, ScheduleSound
  <2>3. Continues(f, scheduleReconnect(e))
    BY <2>1, <2>2 DEF Continues
  <2> QED
    BY <2>3 DEF e
<1> DEFINE g == Collected(h)
<1>10. Continues(obj[s], g)
  <2>1. Continues(f, h)
    BY <1>5, <1>6, <1>7, <1>8, <1>9
  <2>2. Continues(f, g)
    BY <2>1, CollectedSound
  <2> QED
    BY <1>2, <2>2 DEF Continues
<1>11. Put(s, g)
  BY <1>5
<1> HIDE DEF g
<1>12. LinkInv' /\ ContractStep
  <2>1. CASE UNCHANGED connection
    <3>1. obj[s].ws = "none"
      BY <1>2, <1>1 DEF Continue, ConnectResumes, PolicyResumes, SoundFields
    <3> QED
      BY <1>1, <1>3, <1>10, <1>11, <2>1, <3>1, OneObjectSound
  <2>2. ASSUME NEW state \in {"reconnecting", "denied"}, Show(f.camera, state)
        PROVE  LinkInv' /\ ContractStep
    <3>1. state \in Shown /\ state # "open"
      BY DEF Shown
    <3>2. Show(obj[s].camera, state)
      BY <1>2, <2>2
    <3> QED
      BY <1>1, <1>3, <1>10, <1>11, <3>1, <3>2, ShowSound
  <2> QED
    BY <1>5, <2>1, <2>2
<1> QED
  BY <1>3, <1>12, SessionUntouched DEF IInv

(***************************************************************************)
(* Every step                                                              *)
(***************************************************************************)
LEMMA InitSound == Init => IInv /\ Link!Init
<1> SUFFICES ASSUME Init PROVE IInv /\ Link!Init
  OBVIOUS
<1>1. SessionInv
  BY SessionInitial DEF Init
<1>2. LinkInv
  <2>1. LinkTypes
    BY GoneSound DEF Init, LinkTypes, Shown
  <2>2. MapInv /\ \A s \in Sockets : SoundFields(obj[s])
    BY GoneSound DEF Init, MapInv, SoundFields
  <2> QED
    BY <2>1, <2>2 DEF Init, LinkInv
<1>3. Link!Init
  BY GoneSound DEF Init, Link!Init
<1> QED
  BY <1>1, <1>2, <1>3 DEF IInv

LEMMA LinkUntouched ==
  ASSUME LinkInv, UNCHANGED linkVars
  PROVE  LinkInv' /\ ContractStep
<1>1. sockets' = sockets /\ obj' = obj /\ connection' = connection
  BY DEF linkVars
<1> QED
  BY <1>1 DEF LinkInv, LinkTypes, MapInv, ContractStep

LEMMA StepSound ==
  ASSUME IInv, [Next]_vars
  PROVE  IInv' /\ StoreStep /\ ContractStep
<1>1. CASE UNCHANGED vars
  BY <1>1, SessionUntouched, LinkUntouched DEF vars, IInv
<1>2. CASE SessionStep /\ UNCHANGED linkVars
  BY <1>2, SessionStepSound, LinkUntouched DEF IInv
<1>3. ASSUME NEW c \in Cameras,
             SubscribeFirst(c) \/ SubscribeAgain(c) \/ ReleaseOne(c) \/ ReleaseLast(c)
      PROVE  IInv' /\ StoreStep /\ ContractStep
  BY <1>3, SubscribeFirstSound, CountSound, ReleaseLastSound
<1>4. ASSUME NEW s \in Sockets,
             \/ Opens(s) \/ Drops(s) \/ PolicyClosed(s) \/ LeavingEnds(s)
             \/ TimerFires(s) \/ Continue(s)
      PROVE  IInv' /\ StoreStep /\ ContractStep
  BY <1>4, EventsSound, TimerSound, ContinueSound
<1>5. CASE RefreshOver
  <2>1. SessionInv' /\ StoreStep
    BY <1>5 DEF RefreshOver, NoRefresh, IInv, SessionInv, SessionTypeOK, SessionWhole, SomeUser,
                RefreshInv, KeepInv, StoreStep, AnswerStep
  <2> QED
    BY <1>5, <2>1, LinkUntouched DEF RefreshOver, IInv
<1>6. CASE SignOut
  <2>1. calls' \in [login : SomeUser, unlock : SomeUser,
                    ending : {"no", "signout", "password"}, query : {"no", "refused"}]
    BY <1>6 DEF SignOut, IInv, SessionInv, SessionTypeOK
  <2>2. AnswerStep /\ refresh.phase # "settled" /\ UNCHANGED <<refresh, console, keep, stale, backend, cast>>
    BY <1>6 DEF SignOut, Quiet, AnswerStep
  <2>3. SessionInv'
    BY <2>1, <2>2, AnswersKeepSession DEF IInv, SessionInv, SessionTypeOK
  <2>4. connection' \in [Cameras -> Shown \ {"open"}]
    BY <1>6 DEF SignOut, Shown
  <2>5. LinkInv' /\ ContractStep
    BY <1>6, <2>4, CloseAllSound DEF SignOut, IInv
  <2> QED
    BY <2>2, <2>3, <2>5 DEF IInv, StoreStep
<1>7. CASE Render
  <2>1. SessionInv' /\ StoreStep
    BY <1>7, RenderSound DEF Render, IInv
  <2>2. CASE UNCHANGED linkVars
    BY <2>1, <2>2, LinkUntouched DEF IInv
  <2>3. CASE CloseAll /\ connection' = [c \in Cameras |->
               IF sockets[c] = NoSocket THEN connection[c] ELSE "closed"]
    <3>1. connection' \in [Cameras -> Shown \ {"open"}]
      BY <2>3 DEF IInv, LinkInv, LinkTypes, Shown
    <3> QED
      BY <2>1, <2>3, <3>1, CloseAllSound DEF IInv
  <2> QED
    BY <1>7, <2>2, <2>3 DEF Render
<1>8. CASE Reload
  BY <1>8, ReloadSound
<1> QED
  BY <1>1, <1>2, <1>3, <1>4, <1>5, <1>6, <1>7, <1>8 DEF Next

\* The invariant holds throughout.
LEMMA Invariant == Spec => []IInv
<1>1. Init => IInv
  BY InitSound
<1>2. IInv /\ [Next]_vars => IInv'
  BY StepSound
<1> QED
  BY <1>1, <1>2, PTL DEF Spec

\* Type correctness of session and sockets, for any cameras, objects and users.
THEOREM SocketTypes == Spec => []TypeOK
<1>1. IInv => TypeOK
  BY DEF IInv, SessionInv, LinkInv, LinkTypes, TypeOK
<1> QED
  BY <1>1, Invariant, PTL

\* What is not mounted uses nothing: no keep-alive and no camera.
MountInv ==
  /\ ~console.mounted => ~console.armed /\ \A c \in Cameras : sockets[c] = NoSocket
  /\ ~console.armed => keep = "off"

LEMMA MountKept ==
  ASSUME IInv, MountInv, [Next]_vars
  PROVE  MountInv'
<1> USE DEF MountInv
<1>0. /\ sockets \in [Cameras -> Sockets \cup {NoSocket}]
      /\ console.armed \in BOOLEAN /\ console.mounted \in BOOLEAN
  BY DEF IInv, LinkInv, LinkTypes, SessionInv, SessionTypeOK
<1>1. CASE UNCHANGED vars
  BY <1>1 DEF vars, sessionVars, linkVars
<1>2. CASE SessionStep /\ UNCHANGED linkVars
  <2>1. CASE UNCHANGED <<console, keep>>
    BY <1>2, <2>1 DEF linkVars
  <2>2. CASE KeepAliveFires \/ KeepAliveResumes
    BY <1>2, <2>2 DEF KeepAliveFires, KeepAliveResumes, linkVars
  <2> QED
    BY <1>2, <2>1, <2>2
       DEF SessionStep, SubmitLogin, LoginAnswered, LockScreen, SubmitUnlock, UnlockAnswered,
           StartSignOut, SubmitPassword, PasswordAnswered, RefreshSettles, TokenAges,
           StaleFires, StaleResumes, QueryRefused, QueryResumes, BackendTurns
<1>3. ASSUME NEW c \in Cameras, SubscribeFirst(c) PROVE MountInv'
  BY <1>3 DEF SubscribeFirst
<1>4. ASSUME NEW c \in Cameras, SubscribeAgain(c) \/ ReleaseOne(c) \/ ReleaseLast(c)
      PROVE  MountInv'
  BY <1>0, <1>4 DEF SubscribeAgain, ReleaseOne, ReleaseLast, sessionVars
<1>5. ASSUME NEW s \in Sockets,
             \/ Opens(s) \/ Drops(s) \/ PolicyClosed(s) \/ LeavingEnds(s)
             \/ TimerFires(s) \/ Continue(s)
      PROVE  MountInv'
  BY <1>5 DEF Opens, Drops, PolicyClosed, LeavingEnds, TimerFires, Continue, ConnectResumes,
              PolicyResumes, sessionVars
<1>6. CASE RefreshOver
  BY <1>6 DEF RefreshOver, linkVars
<1>7. CASE SignOut \/ Reload
  BY <1>7 DEF SignOut, CloseAll, Reload
<1>8. CASE Render
  <2>1. /\ console' = [mounted |-> signedIn, armed |-> signedIn /\ KeepAliveWanted]
        /\ keep' = IF signedIn /\ KeepAliveWanted THEN "armed" ELSE "off"
    BY <1>8 DEF Render, RenderSession
  <2>2. signedIn \in BOOLEAN /\ KeepAliveWanted \in BOOLEAN
    BY DEF signedIn, KeepAliveWanted, IInv, SessionInv, SessionTypeOK
  <2>3. ~signedIn => \A c \in Cameras : sockets'[c] = NoSocket
    BY <1>0, <1>8 DEF Render, CloseAll, linkVars
  <2> QED
    BY <2>1, <2>2, <2>3
<1> QED
  BY <1>1, <1>2, <1>3, <1>4, <1>5, <1>6, <1>7, <1>8 DEF Next

LEMMA OverOnceSignedOut ==
  ASSUME IInv, MountInv
  PROVE  SessionWhole /\ SessionOver
<1>1. SessionWhole
  BY DEF IInv, SessionInv
<1>2. SUFFICES ASSUME Quiet, auth.user = NoUser
               PROVE  /\ ~console.mounted /\ keep = "off"
                      /\ \A c \in Cameras : sockets[c] = NoSocket
                      /\ \A s \in Sockets : obj[s].ws = "none" /\ ~obj[s].timer
  BY <1>1 DEF SessionOver
<1>3. ~console.mounted
  BY <1>2 DEF Quiet, Rendered, signedIn
<1>4. keep = "off" /\ \A c \in Cameras : sockets[c] = NoSocket
  BY <1>3 DEF MountInv
<1>5. ASSUME NEW s \in Sockets PROVE obj[s].ws = "none" /\ ~obj[s].timer
  <2>1. obj[s].camera \in Cameras /\ NoSocket # s
    BY SocketAssumption DEF IInv, LinkInv, LinkTypes, Fields
  <2>2. obj[s].closed
    BY <1>4, <2>1 DEF IInv, LinkInv, MapInv
  <2> QED
    BY <2>2 DEF IInv, LinkInv, SoundFields
<1> QED
  BY <1>3, <1>4, <1>5

\* An access token of another operator comes only with a refresh of an earlier session.
LEMMA MixedByRefresh ==
  ASSUME IInv, [Next]_vars, Mixed'
  PROVE  LateRefresh \/ (Mixed /\ UNCHANGED <<auth.user, auth.access>>)
<1>1. StoreStep
  BY StepSound
<1>2. /\ auth \in [access : SomeUser, refresh : SomeUser, user : SomeUser,
                   expiry : {"null", "new", "seen"}, expiring : BOOLEAN, locked : BOOLEAN]
      /\ auth.refresh = auth.user
  BY DEF IInv, SessionInv, SessionTypeOK, SessionWhole
<1>3. ASSUME NEW u \in Users, auth' = setSession(u) PROVE FALSE
  BY <1>3 DEF setSession, Mixed
<1>4. CASE auth' = clearSession
  BY <1>4 DEF clearSession, SignedOut, Mixed
<1>5. CASE refresh.phase = "flying" /\ auth' = setAccessToken(refresh.token)
  <2>1. auth'.user = auth.user /\ auth'.access = refresh.token
    BY <1>2, <1>5 DEF setAccessToken
  <2> QED
    BY <1>2, <1>5, <2>1 DEF Mixed, LateRefresh
<1>6. CASE \/ auth' = auth
           \/ auth' = [auth EXCEPT !.expiring = TRUE]
           \/ auth' = [auth EXCEPT !.expiry = "seen"]
           \/ auth' = lock
  <2>1. auth'.user = auth.user /\ auth'.access = auth.access
    BY <1>2, <1>6 DEF lock
  <2> QED
    BY <2>1 DEF Mixed
<1> QED
  BY <1>1, <1>3, <1>4, <1>5, <1>6 DEF StoreStep, AnswerStep

\* Whichever of the refreshes, sign-ins, unlocks and sign-outs under way is answered
\* first, no session lives on in the next: for any operators, cameras and calls.
THEOREM SessionsStayApart == Spec => SessionsApart
<1> DEFINE Apart == Mixed' => LateRefresh \/ (Mixed /\ UNCHANGED <<auth.user, auth.access>>)
<1>1. Init => MountInv
  BY DEF Init, SessionInit, MountInv
<1>2. IInv /\ MountInv /\ [Next]_vars => MountInv'
  BY MountKept
<1>3. IInv /\ MountInv => SessionWhole /\ SessionOver
  BY OverOnceSignedOut
<1>4. IInv /\ [Next]_vars => [Apart]_sessionVars
  BY MixedByRefresh
<1> QED
  BY <1>1, <1>2, <1>3, <1>4, Invariant, PTL DEF Spec, SessionsApart

\* The open, unlocked console always has a keep-alive that is armed or awaited.
THEOREM KeepAliveStaysArmed == Spec => []KeepAliveArmed
<1>1. IInv => KeepAliveArmed
  BY DEF IInv, SessionInv, SessionTypeOK, KeepInv, KeepAliveArmed, Quiet, Rendered,
         KeepAliveWanted, signedIn
<1> QED
  BY <1>1, Invariant, PTL

\* A CameraSocket does one thing at a time, a closed one at most awaits a refresh.
THEOREM OneActivityEach == Spec => []OneActivity
<1>1. ASSUME IInv PROVE OneActivity
  <2> SUFFICES ASSUME NEW s \in Sockets
               PROVE  /\ \A a, b \in Activities(obj[s]) : a = b
                      /\ obj[s].closed => Activities(obj[s]) \subseteq {"wait"}
    BY DEF OneActivity
  <2>1. SoundFields(obj[s])
    BY <1>1 DEF IInv, LinkInv
  <2> QED
    BY <2>1 DEF SoundFields, Activities
<1> QED
  BY <1>1, Invariant, PTL

\* A camera in use is at work or has said why not.
THEOREM NoCameraGivenUp == Spec => []NeverGivesUp
<1>1. ASSUME IInv PROVE NeverGivesUp
  <2> SUFFICES ASSUME NEW c \in Cameras, NEW s \in Sockets, sockets[c] = s
               PROVE  \/ Activities(obj[s]) # {}
                      \/ obj[s].said \in {"locked", "signed out", "expired"}
    BY DEF NeverGivesUp
  <2>1. AtWork(obj[s])
    BY <1>1, SocketAssumption DEF IInv, LinkInv
  <2> QED
    BY <2>1 DEF AtWork, Activities
<1> QED
  BY <1>1, Invariant, PTL

\* A camera is shown as open only while it is.
THEOREM OpenShownTruly == Spec => []OpenIsTrue
<1>1. IInv => OpenIsTrue
  BY SocketAssumption DEF IInv, LinkInv, LinkTypes, OpenIsTrue, Connected
<1> QED
  BY <1>1, Invariant, PTL

\* Only the end of the session or an answered sign-in takes the lock away.
THEOREM LockStays == Spec => LockHolds
<1> DEFINE Held == auth.locked /\ ~auth'.locked =>
             \/ auth'.user = NoUser
             \/ auth'.user \in {calls.unlock, calls.login}
<1>1. ASSUME IInv, [Next]_vars PROVE [Held]_sessionVars
  <2>1. StoreStep
    BY <1>1, StepSound
  <2>2. auth \in [access : SomeUser, refresh : SomeUser, user : SomeUser,
                  expiry : {"null", "new", "seen"}, expiring : BOOLEAN, locked : BOOLEAN]
    BY <1>1 DEF IInv, SessionInv, SessionTypeOK
  <2>3. ASSUME NEW u \in Users, u \in {calls.login, calls.unlock}, auth' = setSession(u)
        PROVE  Held
    BY <2>3 DEF setSession
  <2>4. CASE auth' = clearSession
    BY <2>4 DEF clearSession, SignedOut
  <2>5. CASE \/ auth' = auth
             \/ auth' = setAccessToken(refresh.token)
             \/ auth' = [auth EXCEPT !.expiring = TRUE]
             \/ auth' = [auth EXCEPT !.expiry = "seen"]
    BY <2>2, <2>5 DEF setAccessToken
  <2>6. CASE CanLock /\ auth' = lock
    BY <2>2, <2>6 DEF CanLock, lock
  <2> QED
    BY <2>1, <2>3, <2>4, <2>5, <2>6 DEF StoreStep, AnswerStep
<1> QED
  BY <1>1, Invariant, PTL DEF Spec, LockHolds

\* The sockets implement CameraLink: one connection for a camera at most, and
\* none without a viewer.
THEOREM ContractKept == Spec => KeepsContract
<1>1. Init => Link!Init
  BY InitSound
<1>2. IInv /\ [Next]_vars => [Link!Next]_<<sockets, {s \in Sockets : obj[s].ws # "none"}>>
  BY StepSound DEF ContractStep
<1> QED
  BY <1>1, <1>2, Invariant, PTL DEF Spec, KeepsContract, Link!Spec

\* What the contract is for: no connection without a viewer's handle on it.
THEOREM NoConnectionAstray == Spec => []Link!NoStrayLink
<1>1. ASSUME IInv PROVE Link!NoStrayLink
  <2> SUFFICES ASSUME NEW s \in Sockets, obj[s].ws # "none" PROVE s \in Link!InUse
    BY DEF Link!NoStrayLink
  <2>1. ~obj[s].closed
    BY <1>1 DEF IInv, LinkInv, SoundFields
  <2> QED
    BY <1>1, <2>1, OpenInMap, SocketAssumption DEF IInv, Link!InUse
<1> QED
  BY <1>1, Invariant, PTL
=============================================================================
