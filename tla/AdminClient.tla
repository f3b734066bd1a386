------------------------------ MODULE AdminClient ------------------------------
(***************************************************************************)
(* The sign-in state of the admin SPA in cookie mode: AuthService, the     *)
(* interceptors and AppComponent (client/src/app), one instance per        *)
(* browser tab, with the cookie jar the tabs share, and the API's CSRF     *)
(* middleware, login, logout, refresh and csrf handlers behind it.         *)
(*                                                                         *)
(* A request is sent, served and answered in three steps, and requests     *)
(* overtake each other in both directions.  Cookies take effect when the   *)
(* answer arrives, before its callback runs.  How a session comes to die   *)
(* is the subject of module Sessions.                                      *)
(***************************************************************************)
EXTENDS FiniteSets, Naturals

CONSTANTS
    Tabs,
    MaxLogins,     \* bound on the sessions ever created
    MaxInFlight    \* bound on the requests a user's action may add to

ASSUME BoundAssumption == MaxLogins \in Nat /\ MaxInFlight \in Nat

SessionIds == 1..MaxLogins    \* AUTO_INCREMENT keys of auth_sessions
None == 0                     \* no session, no cookie

VARIABLES
    sessions,   \* auth_sessions: "unused", "live" or "dead"
    jar,        \* the session cookie, and whether there is a CSRF cookie
    flight,     \* requests on their way to the API or back
    loggedIn,   \* AuthService.loggedIn
    timer,      \* AuthService.refreshSub is subscribed
    menu        \* AppComponent.effectivePermissions, from which its menu is made

vars == <<sessions, jar, flight, loggedIn, timer, menu>>

Kinds == {"probe", "login", "logout", "refresh", "me", "write"}
Unsafe == {"logout", "refresh", "write"}   \* and not exempt from CSRF
SetCookies == {"probe", "login", "logout", "refresh"}

(***************************************************************************)
(* cookie: the session cookie sent with the request, once it is served the *)
(* one its answer sets; csrf: the header repeats the CSRF cookie;          *)
(* attached: FALSE once the page has aborted the request, whose callbacks  *)
(* then never run.                                                         *)
(***************************************************************************)
Replies == {"none", "ok", "unauthorized", "csrf_refused"}
Request == [tab : Tabs, kind : Kinds, cookie : SessionIds \cup {None},
            csrf : BOOLEAN, attached : BOOLEAN, reply : Replies]

TypeOK ==
    /\ sessions \in [SessionIds -> {"unused", "live", "dead"}]
    /\ jar \in [session : SessionIds \cup {None}, csrf : BOOLEAN]
    /\ flight \subseteq Request
    /\ loggedIn \in [Tabs -> BOOLEAN]
    /\ timer \in [Tabs -> BOOLEAN]
    /\ menu \in [Tabs -> {"empty", "filled"}]

Attached(t, kinds) ==
    {r \in flight : r.tab = t /\ r.attached /\ r.kind \in kinds}

(* The credentials and CSRF interceptors: cookies, and the header that     *)
(* repeats the CSRF cookie, are read when the request is sent.  Nobody     *)
(* looks at them for a login, nor at the header for a GET.                 *)
RequestWith(cookies, t, kind) ==
    [tab |-> t, kind |-> kind, attached |-> TRUE, reply |-> "none",
     cookie |-> IF kind = "login" THEN None ELSE cookies.session,
     csrf |-> cookies.csrf /\ kind \in Unsafe]

Alive(s) == s # None /\ sessions[s] = "live"

(* An open tab starts like a reloaded one; see Reload. *)
Init ==
    /\ sessions = [s \in SessionIds |-> "unused"]
    /\ jar = [session |-> None, csrf |-> FALSE]
    /\ flight = {}
    /\ loggedIn = [t \in Tabs |-> FALSE]
    /\ timer = [t \in Tabs |-> FALSE]
    /\ menu = [t \in Tabs |-> "empty"]

--------------------------------------------------------------------------------
(* What the user and the clock start. *)

(* Nothing is shown before the probe is done (APP_INITIALIZER).  The       *)
(* header with its sign-out button and the pages behind AuthGuard need a   *)
(* signed-in tab, the sign-in page does not mind one; its button is        *)
(* disabled while a login runs.                                            *)
Click(t, kind) ==
    /\ kind \in {"login", "logout", "write"}
    /\ kind # "login" => loggedIn[t]
    /\ Attached(t, {"probe"}) = {}
    /\ kind = "login" => Attached(t, {"login"}) = {}
    /\ Cardinality(flight) < MaxInFlight
    /\ flight' = flight \cup {RequestWith(jar, t, kind)}
    /\ UNCHANGED <<sessions, jar, loggedIn, timer, menu>>

(* An aborted request may have been or may yet be served.  Of the others   *)
(* nothing is left that matters: they set no cookie.                       *)
Aborted(requests) ==
    {[r EXCEPT !.attached = FALSE] : r \in {q \in requests : q.kind \in SetCookies}}

(* The page starts anew and probes for a session. *)
Reload(t) ==
    /\ Cardinality(flight) < MaxInFlight
    /\ LET mine == Attached(t, Kinds) IN
       flight' = (flight \ mine) \cup Aborted(mine)
                    \cup {RequestWith(jar, t, "probe")}
    /\ loggedIn' = [loggedIn EXCEPT ![t] = FALSE]
    /\ timer' = [timer EXCEPT ![t] = FALSE]
    /\ menu' = [menu EXCEPT ![t] = "empty"]
    /\ UNCHANGED <<sessions, jar>>

(* exhaustMap: a tick is ignored while the last refresh is under way. *)
RefreshTick(t) ==
    /\ timer[t]
    /\ Attached(t, {"refresh"}) = {}
    /\ flight' = flight \cup {RequestWith(jar, t, "refresh")}
    /\ UNCHANGED <<sessions, jar, loggedIn, timer, menu>>

--------------------------------------------------------------------------------
(* The API. *)

Replied(r, reply, cookie) ==
    flight' = (flight \ {r})
       \cup {[r EXCEPT !.reply = reply, !.cookie = cookie, !.csrf = FALSE]}

(* CSRFCookieProtect: without a session cookie there is nothing to protect. *)
CsrfRefuses(r) == r.kind \in Unsafe /\ r.cookie # None /\ ~r.csrf

(* It takes no notice of the cookie it is sent.  A login that is refused   *)
(* changes nothing; its answer is the "error" of Fail.                     *)
LoginUser(r) ==
    /\ r.kind = "login"
    /\ \E s \in SessionIds :
          /\ \A q \in SessionIds : sessions[q] = "unused" <=> q >= s
          /\ sessions' = [sessions EXCEPT ![s] = "live"]
          /\ Replied(r, "ok", s)

(* 200 whether or not there was a session, and whether or not the UPDATE   *)
(* that revokes it was stored.                                             *)
LogoutUser(r) ==
    /\ r.kind = "logout"
    /\ Replied(r, "ok", None)
    /\ \/ UNCHANGED sessions
       \/ /\ Alive(r.cookie)
          /\ sessions' = [sessions EXCEPT ![r.cookie] = "dead"]

(* ValidateSession, as its callers answer it: they take every error, that  *)
(* of the database included, for a session that is no good.                *)
Validated(r) == {"unauthorized"} \cup (IF Alive(r.cookie) THEN {"ok"} ELSE {})

GetAuthCSRF(r) ==
    /\ r.kind = "probe"
    /\ \E reply \in Validated(r) : Replied(r, reply, None)
    /\ UNCHANGED sessions

(* Sends the session cookie it got once more. *)
RefreshSession(r) ==
    /\ r.kind = "refresh"
    /\ \E reply \in Validated(r) :
          Replied(r, reply, IF reply = "ok" THEN r.cookie ELSE None)
    /\ UNCHANGED sessions

(* In front of every other route. *)
BearerOrSession(r) ==
    /\ r.kind \in {"me", "write"}
    /\ \E reply \in Validated(r) : Replied(r, reply, None)
    /\ UNCHANGED sessions

Serve(r) ==
    /\ r.reply = "none"
    /\ IF CsrfRefuses(r)
       THEN Replied(r, "csrf_refused", None) /\ UNCHANGED sessions
       ELSE \/ LoginUser(r) \/ LogoutUser(r) \/ GetAuthCSRF(r)
            \/ RefreshSession(r) \/ BearerOrSession(r)
    /\ UNCHANGED <<jar, loggedIn, timer, menu>>

--------------------------------------------------------------------------------
(* The browser, when an answer arrives.  reply is what the page gets to    *)
(* see: "error" when the request or its answer was lost, refused by the    *)
(* rate limiter, or ended in a 500, and for a login that was denied.       *)

(* Mutant: RefreshSession renews the session cookie only. *)
JarAfterSessionOnly(r, reply) ==
    IF reply # "ok" THEN jar
    ELSE CASE r.kind = "login"   -> [session |-> r.cookie, csrf |-> TRUE]
           [] r.kind = "refresh" -> [jar EXCEPT !.session = r.cookie]
           [] r.kind = "probe"   -> [jar EXCEPT !.csrf = TRUE]
           [] r.kind = "logout"  -> [session |-> None, csrf |-> FALSE]
           [] r.kind \in {"me", "write"} -> jar

(* The Set-Cookie headers of the handlers. *)
JarAfter(r, reply) ==
    IF reply # "ok" THEN jar
    ELSE CASE r.kind \in {"login", "refresh"} -> [session |-> r.cookie, csrf |-> TRUE]
           [] r.kind = "probe"  -> [jar EXCEPT !.csrf = TRUE]
           [] r.kind = "logout" -> [session |-> None, csrf |-> FALSE]
           [] r.kind \in {"me", "write"} -> jar

(* An aborted request: its cookies may still make it into the jar. *)
AnswerAborted(r) ==
    /\ ~r.attached
    /\ jar' \in {jar, JarAfter(r, r.reply)}
    /\ flight' = flight \ {r}
    /\ UNCHANGED <<loggedIn, timer, menu>>

(* Mutant: /auth/refresh is among the paths whose 401 is expected. *)
SignsOutNotOnRefresh(kind, reply) ==
    \/ kind = "logout"
    \/ kind = "probe" /\ reply # "ok"
    \/ kind \in {"me", "write"} /\ reply = "unauthorized"

(* A logout that ended in whatever way, a probe that found no session, or  *)
(* the 401 interceptor, which lets login and probe pass.                   *)
SignsOut(kind, reply) ==
    \/ kind = "logout"
    \/ kind = "probe" /\ reply # "ok"
    \/ kind \in {"refresh", "me", "write"} /\ reply = "unauthorized"

(* Mutant: mergeMap, the request for the menu runs on. *)
StoppedRefreshOnly(r) ==
    LET mine == Attached(r.tab, {"refresh"}) \cup {r} IN
    (flight \ mine) \cup Aborted(mine \ {r})

(* The new value of loggedIn makes switchMap drop the request for the      *)
(* menu; stopping the timer aborts the refresh.                            *)
Stopped(r) ==
    LET mine == Attached(r.tab, {"refresh", "me"}) \cup {r} IN
    (flight \ mine) \cup Aborted(mine \ {r})

(* Mutant: handleUnauthorized forgets stopSessionRefreshTimer. *)
AnswerSignOutTimerRuns(r, reply) ==
    /\ r.attached /\ SignsOut(r.kind, reply)
    /\ jar' = JarAfter(r, reply)
    /\ loggedIn' = [loggedIn EXCEPT ![r.tab] = FALSE]
    /\ timer' = [timer EXCEPT ![r.tab] = @ /\ reply = "unauthorized"]
    /\ menu' = [menu EXCEPT ![r.tab] = "empty"]
    /\ flight' = Stopped(r)

AnswerSignOut(r, reply) ==
    /\ r.attached /\ SignsOut(r.kind, reply)
    /\ jar' = JarAfter(r, reply)
    /\ loggedIn' = [loggedIn EXCEPT ![r.tab] = FALSE]
    /\ timer' = [timer EXCEPT ![r.tab] = FALSE]
    /\ menu' = [menu EXCEPT ![r.tab] = "empty"]
    /\ flight' = Stopped(r)

(* startSessionRefreshTimer aborts the refresh of an earlier timer; the    *)
(* menu is fetched if the tab was not signed in (distinctUntilChanged).    *)
AnswerSignIn(r, reply) ==
    LET mine == Attached(r.tab, {"refresh"}) \cup {r}
        me == IF loggedIn[r.tab] THEN {}
              ELSE {RequestWith(JarAfter(r, reply), r.tab, "me")}
    IN /\ r.attached /\ r.kind \in {"login", "probe"} /\ reply = "ok"
       /\ jar' = JarAfter(r, reply)
       /\ loggedIn' = [loggedIn EXCEPT ![r.tab] = TRUE]
       /\ timer' = [timer EXCEPT ![r.tab] = TRUE]
       /\ flight' = (flight \ mine) \cup Aborted(mine \ {r}) \cup me
       /\ UNCHANGED menu

(* Mutant: the "?? []" is missing. *)
MenuAfterNull(reply) == IF reply = "ok" THEN "filled" ELSE "undefined"

(* No permissions unless GET /security/me returned some. *)
MenuAfter(reply) == IF reply = "ok" THEN "filled" ELSE "empty"

AnswerMe(r, reply) ==
    /\ r.attached /\ r.kind = "me" /\ ~SignsOut(r.kind, reply)
    /\ menu' = [menu EXCEPT ![r.tab] = MenuAfter(reply)]
    /\ flight' = flight \ {r}
    /\ UNCHANGED <<jar, loggedIn, timer>>

(* A refresh or a write that was not answered 401, a login that failed. *)
AnswerOther(r, reply) ==
    /\ r.attached /\ ~SignsOut(r.kind, reply)
    /\ \/ r.kind \in {"refresh", "write"}
       \/ r.kind = "login" /\ reply # "ok"
    /\ jar' = JarAfter(r, reply)
    /\ flight' = flight \ {r}
    /\ UNCHANGED <<loggedIn, timer, menu>>

Answer(r, reply) ==
    /\ \/ AnswerSignOut(r, reply) \/ AnswerSignIn(r, reply)
       \/ AnswerMe(r, reply) \/ AnswerOther(r, reply)
    /\ UNCHANGED sessions

Arrive(r) == r.reply # "none" /\ Answer(r, r.reply)
Fail(r) == Answer(r, "error")
Abandon(r) == AnswerAborted(r) /\ UNCHANGED sessions

--------------------------------------------------------------------------------
(* The session expires, is revoked, or its user is deleted. *)
SessionDies(s) ==
    /\ sessions[s] = "live"
    /\ sessions' = [sessions EXCEPT ![s] = "dead"]
    /\ UNCHANGED <<jar, flight, loggedIn, timer, menu>>

(* Both cookies get the same Max-Age, the CSRF cookie never the earlier    *)
(* one, and GetAuthCSRF renews it alone.                                   *)
CookieExpires ==
    /\ jar.session # None
    /\ \E csrf \in {FALSE, jar.csrf} : jar' = [session |-> None, csrf |-> csrf]
    /\ UNCHANGED <<sessions, flight, loggedIn, timer, menu>>

Next ==
    \/ CookieExpires
    \/ \E s \in SessionIds : SessionDies(s)
    \/ \E t \in Tabs : Reload(t) \/ RefreshTick(t)
                       \/ \E kind \in Kinds : Click(t, kind)
    \/ \E r \in flight : Serve(r) \/ Arrive(r) \/ Fail(r) \/ Abandon(r)

Spec == Init /\ [][Next]_vars

(* The interval fires, and the network and the API are not always down:    *)
(* refreshes that are sent again and again are in the end served, and      *)
(* their answers arrive.  Nothing is assumed of any other request.         *)
ServeRefresh(t) == \E r \in Attached(t, {"refresh"}) : Serve(r)
ArriveRefresh(t) == \E r \in Attached(t, {"refresh"}) : Arrive(r)

FairSpec ==
    /\ Spec
    /\ \A t \in Tabs : /\ WF_vars(RefreshTick(t))
                       /\ SF_vars(ServeRefresh(t))
                       /\ SF_vars(ArriveRefresh(t))

--------------------------------------------------------------------------------
(* "cookie must match header" (docs/auth-session.md): the double submit    *)
(* never turns against the page itself.  Whatever order the cookies of     *)
(* logins, refreshes, probes and logouts of several tabs are stored in, a  *)
(* page that sends a session cookie always has the CSRF cookie to repeat.  *)
NoCsrfRefusal == \A r \in flight : r.reply # "csrf_refused"

(* The refresh timer of a tab runs exactly while the tab is signed in: no  *)
(* tab slides a session behind a sign-in page, and none forgets to.        *)
TimerFollowsSignIn == timer = loggedIn

(* The menu of a signed-out tab is empty: an answer about permissions that *)
(* arrives after the sign-out does not bring it back.                      *)
NoMenuWhenSignedOut == \A t \in Tabs : ~loggedIn[t] => menu[t] = "empty"

(* docs/platform-admin-ui.md:27: a tab that shows a signed-in page over a  *)
(* dead or missing session finds out by itself, although the timer drops   *)
(* every error, its refresh may be aborted or lost, and a CSRF refusal     *)
(* would be a 403: it is signed out, or somebody signed in again.          *)
DeadSessionNoticed ==
    \A t \in Tabs :
       loggedIn[t] /\ ~Alive(jar.session)
          ~> ~loggedIn[t] \/ Alive(jar.session)
================================================================================
