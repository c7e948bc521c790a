--------------------------- MODULE BrowserSession ---------------------------
(***************************************************************************)
(* The operator's session in one browser tab: the auth store               *)
(* (frontend/src/stores/authStore.ts), the shared token refresh and the    *)
(* retry of a refused request (api/client.ts), the keep-alive timer and    *)
(* the screen lock (hooks/useSession.ts, ScreenLock.tsx), the login page   *)
(* and the ways a session ends.                                            *)
(*                                                                         *)
(* A tab runs one task at a time.  Its promise continuations and React's   *)
(* re-render run before the next task, so a task waits until the tab is    *)
(* Quiet; the continuations of one settled refresh may run in any order.   *)
(* The module holds the steps that leave the camera sockets alone; module  *)
(* CameraSockets completes and composes them.                              *)
(***************************************************************************)
EXTENDS Naturals

CONSTANTS Users, NoUser,
  Casts          \* bound: who signs in, which CameraSockets there are and which
                 \* calls may be under way at one time, in one behaviour

ASSUME UserAssumption == NoUser \notin Users

VARIABLES
  auth,      \* useAuthStore; a token is known by the user it was issued to
  refresh,   \* refreshInFlight and the answer its continuations read
  console,   \* mounted: React shows the AppShell; armed: the keep-alive
             \* effect has what it needs
  keep,      \* timer of the keep-alive effect that is mounted
  stale,     \* timers of effects cleaned up while they awaited a refresh
  calls,     \* calls under way whose answer changes the session
  backend,   \* "up", "down": whether the API server answers
  cast       \* a member of Casts, chosen at the start

sessionVars == <<auth, refresh, console, keep, stale, calls, backend, cast>>

SomeUser == Users \cup {NoUser}
Idle == [login |-> NoUser, unlock |-> NoUser, ending |-> "no", query |-> "no"]
NoRefresh == [phase |-> "none", token |-> NoUser]

\* Call k can join the calls under way.
UnderWay == {k \in DOMAIN calls : calls[k] \notin {NoUser, "no"}}
MayCall(k) == k \notin UnderWay /\ UnderWay \cup {k} \in cast.together

SessionTypeOK ==
  /\ auth \in [access : SomeUser, refresh : SomeUser, user : SomeUser,
               expiry : {"null", "new", "seen"}, expiring : BOOLEAN, locked : BOOLEAN]
  /\ refresh \in [phase : {"none", "flying", "settled"}, token : SomeUser]
  /\ console \in [mounted : BOOLEAN, armed : BOOLEAN]
  /\ keep \in {"off", "armed", "waiting"}
  /\ stale \subseteq {"armed", "waiting"}
  /\ calls \in [login : SomeUser, unlock : SomeUser,
                ending : {"no", "signout", "password"},
                query : {"no", "refused"}]
  /\ backend \in {"up", "down"} /\ cast \in Casts

(***************************************************************************)
(* The store.  accessExpiresAt differs from token to token: expiry says    *)
(* whether the keep-alive effect has seen the current one.                 *)
(***************************************************************************)
SignedOut == [access |-> NoUser, refresh |-> NoUser, user |-> NoUser,
              expiry |-> "null", expiring |-> FALSE, locked |-> FALSE]

setSession(u) == [access |-> u, refresh |-> u, user |-> u,
                  expiry |-> "new", expiring |-> FALSE, locked |-> FALSE]

setAccessToken(u) ==
  [auth EXCEPT !.access = u, !.expiry = "new", !.expiring = FALSE]

\* Mutant of clearSession: the lock is forgotten
ClearedButLocked == [SignedOut EXCEPT !.locked = auth.locked]

clearSession == SignedOut

CanLock == auth.user # NoUser /\ ~auth.locked
lock == [auth EXCEPT !.locked = TRUE]

\* Same operator or another account: both branches write the same fields.
unlock(u) == setSession(u)

\* Mutant of signedIn: RequireAuth asks for a token only
SignedInByToken == auth.access # NoUser

signedIn == auth.access # NoUser /\ auth.user # NoUser

\* Mutant of Persisted: partialize leaves the lock out
PersistedUnlocked == [auth EXCEPT !.locked = FALSE]

\* What survives a reload of the page (partialize): all of it, the lock too.
Persisted == auth

(***************************************************************************)
(* refreshAccessToken: what it leaves in refresh for a caller to await.    *)
(* Without a refresh token the promise is resolved on the spot.            *)
(***************************************************************************)
RefreshCalled ==
  IF refresh.phase = "flying" THEN refresh
  ELSE [phase |-> IF auth.refresh # NoUser THEN "flying" ELSE "settled",
        token |-> auth.refresh]

KeepAliveWanted == auth.refresh # NoUser /\ ~auth.locked /\ auth.expiry # "null"

\* React has nothing left to do: RequireAuth shows what the store says and the
\* keep-alive effect belongs to the expiry, lock and sign-in it was given.
Rendered ==
  /\ console.mounted = signedIn
  /\ signedIn => auth.expiry # "new" /\ console.armed = KeepAliveWanted

Quiet == refresh.phase # "settled" /\ Rendered

SessionInit ==
  /\ auth = SignedOut
  /\ refresh = NoRefresh
  /\ console = [mounted |-> FALSE, armed |-> FALSE]
  /\ keep = "off" /\ stale = {}
  /\ calls = Idle
  /\ backend = "up" /\ cast \in Casts

(***************************************************************************)
(* Signing in, locking and unlocking                                       *)
(***************************************************************************)
SubmitLogin(u) ==
  /\ Quiet /\ ~signedIn /\ MayCall("login") /\ u \in cast.users
  /\ calls' = [calls EXCEPT !.login = u]
  /\ UNCHANGED <<auth, refresh, console, keep, stale, backend, cast>>

\* The page that asked may be gone: the answer is stored all the same.
LoginAnswered ==
  /\ Quiet /\ calls.login # NoUser
  /\ \/ backend = "up" /\ auth' = setSession(calls.login)
     \/ UNCHANGED auth
  /\ calls' = [calls EXCEPT !.login = NoUser]
  /\ UNCHANGED <<refresh, console, keep, stale, backend, cast>>

LockScreen ==
  /\ Quiet /\ console.mounted /\ CanLock
  /\ auth' = lock
  /\ UNCHANGED <<refresh, console, keep, stale, calls, backend, cast>>

SubmitUnlock ==
  /\ Quiet /\ console.mounted /\ auth.locked /\ MayCall("unlock")
  /\ calls' = [calls EXCEPT !.unlock = auth.user]
  /\ UNCHANGED <<auth, refresh, console, keep, stale, backend, cast>>

UnlockAnswered ==
  /\ Quiet /\ calls.unlock # NoUser
  /\ \/ backend = "up" /\ auth' = unlock(calls.unlock)
     \/ UNCHANGED auth
  /\ calls' = [calls EXCEPT !.unlock = NoUser]
  /\ UNCHANGED <<refresh, console, keep, stale, backend, cast>>

(***************************************************************************)
(* The ways out: the calls end the session when they are answered, in      *)
(* CameraSockets!SignOut and below.                                        *)
(***************************************************************************)
StartSignOut ==
  /\ Quiet /\ console.mounted /\ MayCall("ending")
  /\ calls' = [calls EXCEPT !.ending = "signout"]
  /\ UNCHANGED <<auth, refresh, console, keep, stale, backend, cast>>

SubmitPassword ==
  /\ Quiet /\ console.mounted /\ ~auth.locked /\ MayCall("ending")
  /\ calls' = [calls EXCEPT !.ending = "password"]
  /\ UNCHANGED <<auth, refresh, console, keep, stale, backend, cast>>

PasswordAnswered ==
  /\ Quiet /\ calls.ending = "password"
  /\ \/ backend = "up" /\ auth' = clearSession
     \/ UNCHANGED auth
  /\ calls' = [calls EXCEPT !.ending = "no"]
  /\ UNCHANGED <<refresh, console, keep, stale, backend, cast>>

(***************************************************************************)
(* The refresh and its callers                                             *)
(***************************************************************************)
\* The answer is applied to whatever session is current when it comes.
RefreshSettles ==
  /\ Quiet /\ refresh.phase = "flying"
  /\ \/ /\ backend = "up"
        /\ auth' = setAccessToken(refresh.token)
        /\ refresh' = [phase |-> "settled", token |-> refresh.token]
     \/ /\ backend = "up"
        /\ auth' = clearSession
        /\ refresh' = [phase |-> "settled", token |-> NoUser]
     \/ /\ backend = "down"
        /\ refresh' = [phase |-> "settled", token |-> NoUser]
        /\ UNCHANGED auth
  /\ UNCHANGED <<console, keep, stale, calls, backend, cast>>

\* The access token comes within a minute of its end (TOKEN_MARGIN_MS and the
\* keep-alive's lead are the same minute).
TokenAges ==
  /\ Quiet /\ auth.access # NoUser /\ ~auth.expiring
  /\ auth' = [auth EXCEPT !.expiring = TRUE]
  /\ UNCHANGED <<refresh, console, keep, stale, calls, backend, cast>>

KeepAliveFires ==
  /\ Quiet /\ keep = "armed"
  /\ keep' = "waiting" /\ refresh' = RefreshCalled
  /\ UNCHANGED <<auth, console, stale, calls, backend, cast>>

\* Mutant of RetryWanted: only a successful refresh re-arms the keep-alive
NoRetry == FALSE

RetryWanted == refresh.token = NoUser /\ auth.refresh # NoUser

KeepAliveResumes ==
  /\ refresh.phase = "settled" /\ keep = "waiting"
  /\ keep' = IF RetryWanted THEN "armed" ELSE "off"
  /\ UNCHANGED <<auth, refresh, console, stale, calls, backend, cast>>

\* Clearing the timer of an effect that awaits a refresh stops nothing: its
\* continuation arms a timer that no effect owns.
StaleFires ==
  /\ Quiet /\ "armed" \in stale
  /\ stale' = (stale \ {"armed"}) \cup {"waiting"}
  /\ refresh' = RefreshCalled
  /\ UNCHANGED <<auth, console, keep, calls, backend, cast>>

StaleResumes ==
  /\ refresh.phase = "settled" /\ "waiting" \in stale
  /\ stale' = (stale \ {"waiting"}) \cup (IF RetryWanted THEN {"armed"} ELSE {})
  /\ UNCHANGED <<auth, refresh, console, keep, calls, backend, cast>>

(***************************************************************************)
(* A request of the console and the response interceptor                   *)
(***************************************************************************)
\* A first 401 calls for a new token, with which the request is sent again; any
\* other answer, the second one's included, is handed to the caller and changes
\* nothing here.
QueryRefused ==
  /\ Quiet /\ console.mounted /\ MayCall("query") /\ backend = "up"
  /\ calls' = [calls EXCEPT !.query = "refused"]
  /\ refresh' = RefreshCalled
  /\ UNCHANGED <<auth, console, keep, stale, backend, cast>>

QueryResumes ==
  /\ refresh.phase = "settled" /\ calls.query = "refused"
  /\ calls' = [calls EXCEPT !.query = "no"]
  /\ UNCHANGED <<auth, refresh, console, keep, stale, backend, cast>>

BackendTurns ==
  /\ Quiet
  /\ backend' \in {"up", "down"} \ {backend}
  /\ UNCHANGED <<auth, refresh, console, keep, stale, calls, cast>>

SessionStep ==
  \/ \E u \in Users : SubmitLogin(u)
  \/ LoginAnswered \/ LockScreen \/ SubmitUnlock \/ UnlockAnswered
  \/ StartSignOut \/ SubmitPassword \/ PasswordAnswered
  \/ RefreshSettles \/ TokenAges
  \/ KeepAliveFires \/ KeepAliveResumes \/ StaleFires \/ StaleResumes
  \/ QueryRefused \/ QueryResumes
  \/ BackendTurns

(***************************************************************************)
(* React's part of a render that concerns the session                      *)
(***************************************************************************)
\* Cleaning the effect up clears its timer; an awaited refresh goes on.
CleanedUp == IF keep = "waiting" THEN stale \cup {"waiting"} ELSE stale

RenderSession ==
  /\ ~Rendered
  /\ console' = [mounted |-> signedIn, armed |-> signedIn /\ KeepAliveWanted]
  /\ auth' = IF signedIn THEN [auth EXCEPT !.expiry = "seen"] ELSE auth
  /\ keep' = IF signedIn /\ KeepAliveWanted THEN "armed" ELSE "off"
  /\ stale' = CleanedUp
  /\ UNCHANGED <<refresh, calls, backend, cast>>

(***************************************************************************)
(* Properties                                                              *)
(***************************************************************************)
\* Who a session belongs to: a late refresh can leave an access token that is
\* nobody's or another's, but the user and the refresh token come and go together,
\* and only a signed-in user's screen can be locked.
SessionWhole ==
  /\ auth.refresh = auth.user
  /\ auth.user # NoUser => auth.access # NoUser
  /\ auth.locked => auth.user # NoUser

\* An access token that was issued to another operator than the one signed in.
Mixed == auth.user # NoUser /\ auth.access # auth.user

\* The refresh under way was asked for in an earlier session (api/client.ts:79-82
\* stores its answer without a look at whose session it is by then).
LateRefresh == refresh.phase = "flying" /\ refresh.token # auth.refresh

\* The lock ends with the session or by a sign-in that was answered, never by a
\* refresh, a retry, a re-render or a reload (ScreenLock.tsx, authStore.ts:14).
LockHolds ==
  [][auth.locked /\ ~auth'.locked =>
       \/ auth'.user = NoUser
       \/ auth'.user \in {calls.unlock, calls.login} ]_sessionVars

\* "Refreshes the access token while the app is open and unlocked": an outage
\* or a refused request never leaves the open, unlocked console without a
\* keep-alive that is armed or awaiting its answer.
KeepAliveArmed ==
  Quiet /\ console.mounted /\ ~auth.locked /\ auth.refresh # NoUser
    => keep \in {"armed", "waiting"}
=============================================================================
