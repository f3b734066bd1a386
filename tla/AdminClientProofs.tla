--------------------------- MODULE AdminClientProofs ---------------------------
(***************************************************************************)
(* Proofs about the admin SPA's sign-in state, for any number of tabs,     *)
(* sessions and requests in flight.  The properties are about answers that *)
(* arrive late, so the invariant is about the requests on their way: what  *)
(* an unserved one carries, and whose answer the page still waits for.     *)
(***************************************************************************)
EXTENDS AdminClient, TLAPS

Cookies == [session : SessionIds \cup {None}, csrf : BOOLEAN]

(* A jar with a session cookie has the CSRF cookie, too. *)
Paired(cookies) == cookies.session # None => cookies.csrf

(* No request has been refused, and none on its way to the API will be. *)
Honest(r) ==
    /\ r.reply # "csrf_refused"
    /\ r.reply = "none" => ~CsrfRefuses(r)

(* Only a signed-in tab waits for its menu. *)
MenuAwaited(r) == r.attached /\ r.kind = "me" => loggedIn[r.tab]

(* What the API makes of a request. *)
Answered(r, reply, cookie) ==
    [r EXCEPT !.reply = reply, !.cookie = cookie, !.csrf = FALSE]

IInv ==
    /\ TypeOK
    /\ Paired(jar)
    /\ \A r \in flight : Honest(r) /\ MenuAwaited(r)
    /\ TimerFollowsSignIn
    /\ NoMenuWhenSignedOut

--------------------------------------------------------------------------------
LEMMA RequestWithShape ==
    ASSUME NEW cookies \in Cookies, Paired(cookies), NEW t \in Tabs, NEW kind \in Kinds
    PROVE  /\ RequestWith(cookies, t, kind) \in Request
           /\ RequestWith(cookies, t, kind).kind = kind
           /\ RequestWith(cookies, t, kind).tab = t
           /\ Honest(RequestWith(cookies, t, kind))
<1> DEFINE r == RequestWith(cookies, t, kind)
<1>1. /\ r.tab = t /\ r.kind = kind /\ r.attached = TRUE /\ r.reply = "none"
      /\ r.cookie = IF kind = "login" THEN None ELSE cookies.session
      /\ r.csrf = (cookies.csrf /\ kind \in Unsafe)
  BY DEF RequestWith
<1>2. r \in Request
  BY DEF RequestWith, Request, Cookies, Replies
<1>3. Honest(r)
  <2>1. CASE kind \in Unsafe /\ cookies.session # None
    <3>1. cookies.csrf /\ r.csrf
      BY <1>1, <2>1 DEF Paired
    <3>2. QED BY <1>1, <3>1 DEF Honest, CsrfRefuses
  <2>2. CASE kind \notin Unsafe
    BY <1>1, <2>2 DEF Honest, CsrfRefuses
  <2>3. CASE cookies.session = None
    BY <1>1, <2>3 DEF Honest, CsrfRefuses
  <2>4. QED BY <2>1, <2>2, <2>3
<1>4. QED BY <1>1, <1>2, <1>3

(* An aborted request is as honest, and nobody waits for it. *)
LEMMA AbortedShape ==
    ASSUME NEW requests \in SUBSET Request, \A q \in requests : Honest(q),
           NEW r \in Aborted(requests)
    PROVE  r \in Request /\ Honest(r) /\ ~r.attached
<1>1. PICK q \in requests : r = [q EXCEPT !.attached = FALSE]
  BY DEF Aborted
<1>2. q \in Request /\ Honest(q)
  OBVIOUS
<1>3. /\ r \in Request /\ ~r.attached /\ r.kind = q.kind /\ r.reply = q.reply
      /\ r.cookie = q.cookie /\ r.csrf = q.csrf
  BY <1>1, <1>2 DEF Request
<1>4. QED BY <1>2, <1>3 DEF Honest, CsrfRefuses

(* Whatever answer arrives, the cookies stay in step. *)
LEMMA JarAfterShape ==
    ASSUME jar \in Cookies, Paired(jar), NEW r \in Request, NEW reply
    PROVE  JarAfter(r, reply) \in Cookies /\ Paired(JarAfter(r, reply))
<1>0. r.kind \in Kinds /\ r.cookie \in SessionIds \cup {None}
  BY DEF Request
<1>1. CASE reply # "ok" \/ r.kind \in {"me", "write"}
  <2>1. JarAfter(r, reply) = jar
    BY <1>1 DEF JarAfter
  <2>2. QED BY <2>1
<1>2. CASE reply = "ok" /\ r.kind \in {"login", "refresh"}
  <2>1. JarAfter(r, reply) = [session |-> r.cookie, csrf |-> TRUE]
    BY <1>2 DEF JarAfter
  <2>2. QED BY <1>0, <2>1 DEF Cookies, Paired
<1>3. CASE reply = "ok" /\ r.kind = "probe"
  <2>1. JarAfter(r, reply) = [jar EXCEPT !.csrf = TRUE]
    BY <1>3 DEF JarAfter
  <2>2. QED BY <2>1 DEF Cookies, Paired
<1>4. CASE reply = "ok" /\ r.kind = "logout"
  <2>1. JarAfter(r, reply) = [session |-> None, csrf |-> FALSE]
    BY <1>4 DEF JarAfter
  <2>2. QED BY <2>1 DEF Cookies, Paired
<1>5. QED BY <1>0, <1>1, <1>2, <1>3, <1>4 DEF Kinds

(* What an answer of the API does to the flight. *)
LEMMA RepliedShape ==
    ASSUME NEW r \in Request, NEW reply \in {"ok", "unauthorized"},
           NEW cookie \in SessionIds \cup {None},
           NEW q, q = Answered(r, reply, cookie)
    PROVE  /\ q \in Request /\ Honest(q) /\ q.tab = r.tab /\ q.kind = r.kind
           /\ q.attached = r.attached
<1>1. /\ q \in Request /\ q.tab = r.tab /\ q.kind = r.kind
      /\ q.attached = r.attached /\ q.reply = reply
  BY DEF Answered, Request, Replies
<1>2. Honest(q)
  BY <1>1 DEF Honest
<1>3. QED BY <1>1, <1>2

--------------------------------------------------------------------------------
LEMMA InvInit == Init => IInv
BY DEF Init, IInv, TypeOK, Paired, TimerFollowsSignIn, NoMenuWhenSignedOut

LEMMA InvStep ==
    ASSUME IInv, [Next]_vars
    PROVE  IInv'
<1>type. /\ TypeOK /\ flight \subseteq Request /\ jar \in Cookies /\ Paired(jar)
         /\ loggedIn \in [Tabs -> BOOLEAN] /\ timer \in [Tabs -> BOOLEAN]
         /\ menu \in [Tabs -> {"empty", "filled"}]
  BY DEF IInv, TypeOK, Cookies
<1>req. \A r \in flight : r \in Request /\ Honest(r) /\ MenuAwaited(r)
  BY <1>type DEF IInv
<1>sum. ASSUME sessions' \in [SessionIds -> {"unused", "live", "dead"}],
               jar' \in Cookies, Paired(jar'),
               loggedIn' \in [Tabs -> BOOLEAN], timer' \in [Tabs -> BOOLEAN],
               menu' \in [Tabs -> {"empty", "filled"}],
               timer' = loggedIn',
               \A t \in Tabs : ~loggedIn'[t] => menu'[t] = "empty",
               \A r \in flight' : r \in Request /\ Honest(r) /\ MenuAwaited(r)'
        PROVE  IInv'
  <2>1. TypeOK'
    BY <1>sum DEF TypeOK, Cookies
  <2>2. QED BY <1>sum, <2>1 DEF IInv, TimerFollowsSignIn, NoMenuWhenSignedOut
<1>ses. sessions \in [SessionIds -> {"unused", "live", "dead"}]
  BY <1>type DEF TypeOK
<1>tab. timer = loggedIn /\ \A t \in Tabs : ~loggedIn[t] => menu[t] = "empty"
  BY DEF IInv, TimerFollowsSignIn, NoMenuWhenSignedOut
(* Steps that leave the tabs as they are. *)
<1>same. ASSUME UNCHANGED <<loggedIn, timer, menu>>,
                sessions' \in [SessionIds -> {"unused", "live", "dead"}],
                jar' \in Cookies, Paired(jar'),
                \A r \in flight' : r \in Request /\ Honest(r) /\ MenuAwaited(r)
         PROVE  IInv'
  <2>1. \A r \in flight' : MenuAwaited(r)'
    BY <1>same DEF MenuAwaited
  <2>2. QED BY <1>same, <1>type, <1>tab, <1>sum, <2>1
<1>1. CASE CookieExpires
  <2>0. PICK csrf \in {FALSE, jar.csrf} : jar' = [session |-> None, csrf |-> csrf]
    BY <1>1 DEF CookieExpires
  <2>a. jar.csrf \in BOOLEAN
    BY <1>type DEF Cookies
  <2>b. csrf \in BOOLEAN
    BY <2>a
  <2>1. jar' \in Cookies /\ jar'.session = None
    BY <2>0, <2>b DEF Cookies
  <2>2. Paired(jar')
    BY <2>1 DEF Paired
  <2>3. QED BY <1>1, <1>same, <1>req, <1>ses, <2>1, <2>2 DEF CookieExpires
<1>2. ASSUME NEW s \in SessionIds, SessionDies(s) PROVE IInv'
  <2>1. sessions' \in [SessionIds -> {"unused", "live", "dead"}]
    BY <1>2, <1>ses DEF SessionDies
  <2>2. QED BY <1>2, <1>same, <1>req, <1>type, <2>1 DEF SessionDies
(* A request the page sends by itself or for its user. *)
<1>send. ASSUME NEW t \in Tabs, NEW kind \in Kinds \ {"me"}, NEW r,
                r = RequestWith(jar, t, kind)
         PROVE  r \in Request /\ Honest(r) /\ r.kind # "me"
  <2>1. kind \in Kinds /\ kind # "me"
    OBVIOUS
  <2>2. QED BY <1>type, <1>send, <2>1, RequestWithShape
<1>3. ASSUME NEW t \in Tabs, Reload(t) PROVE IInv'
  <2> DEFINE mine == Attached(t, Kinds)
  <2>0. PICK probe : probe = RequestWith(jar, t, "probe")
    OBVIOUS
  <2>1. /\ flight' = (flight \ mine) \cup Aborted(mine) \cup {probe}
        /\ loggedIn' = [loggedIn EXCEPT ![t] = FALSE]
        /\ timer' = [timer EXCEPT ![t] = FALSE]
        /\ menu' = [menu EXCEPT ![t] = "empty"]
        /\ UNCHANGED <<sessions, jar>>
    BY <1>3, <2>0 DEF Reload
  <2>2. mine \in SUBSET Request /\ \A r \in mine : Honest(r)
    BY <1>req DEF Attached
  <2>3. \A r \in flight \ mine : r.attached => r.tab # t
    BY <1>req DEF Attached, Request
  <2>4. ASSUME NEW r \in flight' PROVE r \in Request /\ Honest(r) /\ MenuAwaited(r)'
    <3>1. CASE r \in flight \ mine
      <4>1. r \in Request /\ Honest(r) /\ MenuAwaited(r) /\ (r.attached => r.tab # t)
        BY <1>req, <2>3, <3>1
      <4>2. MenuAwaited(r)'
        BY <1>type, <2>1, <4>1 DEF MenuAwaited, Request
      <4>3. QED BY <4>1, <4>2
    <3>2. CASE r \in Aborted(mine)
      BY <2>2, <3>2, AbortedShape DEF MenuAwaited
    <3>3. CASE r = probe
      <4>1. "probe" \in Kinds \ {"me"}
        BY DEF Kinds
      <4>2. r \in Request /\ Honest(r) /\ r.kind # "me"
        BY <1>send, <2>0, <3>3, <4>1
      <4>3. QED BY <4>2 DEF MenuAwaited
    <3>4. QED BY <2>1, <3>1, <3>2, <3>3
  <2>5. /\ loggedIn' \in [Tabs -> BOOLEAN] /\ timer' \in [Tabs -> BOOLEAN]
        /\ menu' \in [Tabs -> {"empty", "filled"}] /\ timer' = loggedIn'
        /\ \A x \in Tabs : ~loggedIn'[x] => menu'[x] = "empty"
    BY <1>type, <1>tab, <2>1
  <2>6. QED BY <1>type, <1>ses, <1>sum, <2>1, <2>4, <2>5
<1>4. ASSUME NEW t \in Tabs, RefreshTick(t) PROVE IInv'
  <2>1. /\ flight' = flight \cup {RequestWith(jar, t, "refresh")}
        /\ UNCHANGED <<sessions, jar, loggedIn, timer, menu>>
    BY <1>4 DEF RefreshTick
  <2>2. PICK r : r = RequestWith(jar, t, "refresh")
    OBVIOUS
  <2>3. "refresh" \in Kinds \ {"me"}
    BY DEF Kinds
  <2>4. r \in Request /\ Honest(r) /\ MenuAwaited(r)
    BY <1>send, <2>2, <2>3 DEF MenuAwaited
  <2>5. QED BY <1>type, <1>ses, <1>req, <1>same, <2>1, <2>2, <2>4
<1>5. ASSUME NEW t \in Tabs, NEW kind \in Kinds, Click(t, kind) PROVE IInv'
  <2>1. /\ flight' = flight \cup {RequestWith(jar, t, kind)} /\ kind # "me"
        /\ UNCHANGED <<sessions, jar, loggedIn, timer, menu>>
    BY <1>5 DEF Click
  <2>2. PICK r : r = RequestWith(jar, t, kind)
    OBVIOUS
  <2>3. r \in Request /\ Honest(r) /\ MenuAwaited(r)
    BY <1>send, <2>1, <2>2 DEF MenuAwaited
  <2>4. QED BY <1>type, <1>ses, <1>req, <1>same, <2>1, <2>2, <2>3
<1>6. ASSUME NEW r \in flight, Serve(r) PROVE IInv'
  <2>1. /\ r \in Request /\ Honest(r) /\ MenuAwaited(r) /\ r.reply = "none"
        /\ UNCHANGED <<jar, loggedIn, timer, menu>>
        /\ \/ LoginUser(r) \/ LogoutUser(r) \/ GetAuthCSRF(r)
           \/ RefreshSession(r) \/ BearerOrSession(r)
    BY <1>6, <1>req DEF Serve, Honest
  <2>2. ASSUME NEW reply \in {"ok", "unauthorized"},
               NEW cookie \in SessionIds \cup {None}, Replied(r, reply, cookie),
               sessions' \in [SessionIds -> {"unused", "live", "dead"}]
        PROVE  IInv'
    <3>1. PICK q : q = Answered(r, reply, cookie)
      OBVIOUS
    <3>2. /\ q \in Request /\ Honest(q) /\ q.tab = r.tab /\ q.kind = r.kind
          /\ q.attached = r.attached
      BY <2>1, <3>1, RepliedShape
    <3>3. MenuAwaited(q)
      BY <2>1, <3>2 DEF MenuAwaited
    <3>4. flight' = (flight \ {r}) \cup {q}
      BY <2>2, <3>1 DEF Replied, Answered
    <3>5. QED BY <1>req, <1>type, <1>same, <2>1, <2>2, <3>2, <3>3, <3>4
  <2>3. Validated(r) \subseteq {"ok", "unauthorized"} /\ r.cookie \in SessionIds \cup {None}
        /\ None \in SessionIds \cup {None}
    BY <2>1 DEF Validated, Request
  <2>4. CASE LoginUser(r)
    <3>1. PICK s \in SessionIds : /\ sessions' = [sessions EXCEPT ![s] = "live"]
                                  /\ Replied(r, "ok", s)
      BY <2>4 DEF LoginUser
    <3>2. sessions' \in [SessionIds -> {"unused", "live", "dead"}]
      BY <1>ses, <3>1
    <3>3. QED BY <2>2, <3>1, <3>2
  <2>5. CASE LogoutUser(r)
    <3>1. Replied(r, "ok", None)
      BY <2>5 DEF LogoutUser
    <3>2. sessions' \in [SessionIds -> {"unused", "live", "dead"}]
      BY <1>ses, <2>5 DEF LogoutUser
    <3>3. QED BY <2>2, <2>3, <3>1, <3>2
  <2>6. CASE GetAuthCSRF(r) \/ BearerOrSession(r)
    BY <1>ses, <2>2, <2>3, <2>6 DEF GetAuthCSRF, BearerOrSession
  <2>7. CASE RefreshSession(r)
    <3>1. PICK reply \in Validated(r) :
             Replied(r, reply, IF reply = "ok" THEN r.cookie ELSE None)
      BY <2>7 DEF RefreshSession
    <3>2. PICK cookie \in SessionIds \cup {None} :
             cookie = IF reply = "ok" THEN r.cookie ELSE None
      BY <2>3
    <3>3. UNCHANGED sessions
      BY <2>7 DEF RefreshSession
    <3>4. QED BY <1>ses, <2>2, <2>3, <3>1, <3>2, <3>3
  <2>8. QED BY <2>1, <2>4, <2>5, <2>6, <2>7
<1>7. ASSUME NEW r \in flight, NEW reply, AnswerSignOut(r, reply), UNCHANGED sessions
      PROVE  IInv'
  <2>t. r \in Request /\ r.tab \in Tabs
    BY <1>req DEF Request
  <2> DEFINE t == r.tab
             mine == Attached(t, {"refresh", "me"}) \cup {r}
  <2>1. /\ flight' = (flight \ mine) \cup Aborted(mine \ {r})
        /\ jar' = JarAfter(r, reply)
        /\ loggedIn' = [loggedIn EXCEPT ![t] = FALSE]
        /\ timer' = [timer EXCEPT ![t] = FALSE]
        /\ menu' = [menu EXCEPT ![t] = "empty"]
    BY <1>7 DEF AnswerSignOut, Stopped
  <2>2. mine \ {r} \in SUBSET Request /\ \A q \in mine \ {r} : Honest(q)
    BY <1>req DEF Attached
  <2>3. \A q \in flight \ mine : q.attached /\ q.kind = "me" => q.tab # t
    BY DEF Attached
  <2>4. ASSUME NEW q \in flight' PROVE q \in Request /\ Honest(q) /\ MenuAwaited(q)'
    <3>1. CASE q \in flight \ mine
      <4>1. /\ q \in Request /\ Honest(q) /\ MenuAwaited(q)
            /\ q.attached /\ q.kind = "me" => q.tab # t
        BY <1>req, <2>3, <3>1
      <4>2. MenuAwaited(q)'
        BY <1>type, <2>1, <4>1 DEF MenuAwaited, Request
      <4>3. QED BY <4>1, <4>2
    <3>2. CASE q \in Aborted(mine \ {r})
      BY <2>2, <3>2, AbortedShape DEF MenuAwaited
    <3>3. QED BY <2>1, <3>1, <3>2
  <2>5. /\ loggedIn' \in [Tabs -> BOOLEAN] /\ timer' \in [Tabs -> BOOLEAN]
        /\ menu' \in [Tabs -> {"empty", "filled"}] /\ timer' = loggedIn'
        /\ \A x \in Tabs : ~loggedIn'[x] => menu'[x] = "empty"
    BY <1>type, <1>tab, <2>t, <2>1
  <2>6. jar' \in Cookies /\ Paired(jar')
    BY <1>type, <2>t, <2>1, JarAfterShape
  <2>7. QED BY <1>7, <1>ses, <1>sum, <2>4, <2>5, <2>6
<1>8. ASSUME NEW r \in flight, NEW reply, AnswerSignIn(r, reply), UNCHANGED sessions
      PROVE  IInv'
  <2>t. r \in Request /\ r.tab \in Tabs
    BY <1>req DEF Request
  <2> DEFINE t == r.tab
             mine == Attached(t, {"refresh"}) \cup {r}
             me == RequestWith(jar', t, "me")
  <2>1. /\ flight' \subseteq (flight \ mine) \cup Aborted(mine \ {r}) \cup {me}
        /\ jar' = JarAfter(r, reply)
        /\ loggedIn' = [loggedIn EXCEPT ![t] = TRUE]
        /\ timer' = [timer EXCEPT ![t] = TRUE]
        /\ UNCHANGED menu
    BY <1>8 DEF AnswerSignIn
  <2>2. mine \ {r} \in SUBSET Request /\ \A q \in mine \ {r} : Honest(q)
    BY <1>req DEF Attached
  <2>3. jar' \in Cookies /\ Paired(jar')
    BY <1>type, <2>t, <2>1, JarAfterShape
  <2>4. ASSUME NEW q \in flight' PROVE q \in Request /\ Honest(q) /\ MenuAwaited(q)'
    <3>1. CASE q \in flight \ mine
      <4>1. q \in Request /\ Honest(q) /\ MenuAwaited(q)
        BY <1>req, <3>1
      <4>2. MenuAwaited(q)'
        BY <1>type, <2>1, <4>1 DEF MenuAwaited, Request
      <4>3. QED BY <4>1, <4>2
    <3>2. CASE q \in Aborted(mine \ {r})
      BY <2>2, <3>2, AbortedShape DEF MenuAwaited
    <3>3. CASE q = me
      <4>1. q \in Request /\ Honest(q) /\ q.tab = t
        BY <2>t, <2>3, <3>3, RequestWithShape DEF Kinds
      <4>2. loggedIn'[t]
        BY <1>type, <2>t, <2>1
      <4>3. QED BY <4>1, <4>2 DEF MenuAwaited
    <3>4. QED BY <2>1, <3>1, <3>2, <3>3
  <2>5. /\ loggedIn' \in [Tabs -> BOOLEAN] /\ timer' \in [Tabs -> BOOLEAN]
        /\ timer' = loggedIn' /\ \A x \in Tabs : ~loggedIn'[x] => menu'[x] = "empty"
    BY <1>type, <1>tab, <2>t, <2>1
  <2>6. QED BY <1>8, <1>type, <1>ses, <1>sum, <2>1, <2>3, <2>4, <2>5
<1>9. ASSUME NEW r \in flight, NEW reply, AnswerMe(r, reply), UNCHANGED sessions
      PROVE  IInv'
  <2>1. r \in Request /\ r.tab \in Tabs /\ loggedIn[r.tab]
    BY <1>9, <1>req DEF AnswerMe, MenuAwaited, Request
  <2>2. /\ menu' = [menu EXCEPT ![r.tab] = MenuAfter(reply)]
        /\ flight' = flight \ {r} /\ UNCHANGED <<jar, loggedIn, timer>>
    BY <1>9 DEF AnswerMe
  <2>3. MenuAfter(reply) \in {"empty", "filled"}
    BY DEF MenuAfter
  <2>4. /\ menu' \in [Tabs -> {"empty", "filled"}]
        /\ \A x \in Tabs : ~loggedIn'[x] => menu'[x] = "empty"
    BY <1>type, <1>tab, <2>1, <2>2, <2>3
  <2>5. \A q \in flight' : q \in Request /\ Honest(q) /\ MenuAwaited(q)'
    BY <1>req, <2>2 DEF MenuAwaited
  <2>6. QED BY <1>9, <1>type, <1>tab, <1>ses, <1>sum, <2>2, <2>4, <2>5
<1>10. ASSUME NEW r \in flight, NEW reply, UNCHANGED sessions,
              AnswerOther(r, reply) \/ AnswerAborted(r)
       PROVE  IInv'
  <2>1. jar' \in {jar, JarAfter(r, reply), JarAfter(r, r.reply)}
        /\ flight' = flight \ {r} /\ UNCHANGED <<loggedIn, timer, menu>>
    BY <1>10 DEF AnswerOther, AnswerAborted
  <2>2. jar' \in Cookies /\ Paired(jar')
    BY <1>type, <1>req, <2>1, JarAfterShape
  <2>3. QED BY <1>10, <1>req, <1>ses, <1>same, <2>1, <2>2
<1>11. CASE UNCHANGED vars
  BY <1>11, <1>type, <1>ses, <1>req, <1>same DEF vars
<1>12. ASSUME NEW r \in flight, Arrive(r) \/ Fail(r) \/ Abandon(r) PROVE IInv'
  BY <1>7, <1>8, <1>9, <1>10, <1>12 DEF Arrive, Fail, Abandon, Answer
<1>13. QED BY <1>1, <1>2, <1>3, <1>4, <1>5, <1>6, <1>11, <1>12 DEF Next

LEMMA InvHolds == Spec => []IInv
<1>1. IInv /\ [Next]_vars => IInv'
  BY InvStep
<1>2. QED BY <1>1, InvInit, PTL DEF Spec

(* Sessions, cookies, requests and tabs keep their shape. *)
THEOREM TypeCorrect == Spec => []TypeOK
<1>1. IInv => TypeOK
  BY DEF IInv
<1>2. QED BY <1>1, InvHolds, PTL

(* The double submit never turns against the page itself, in whatever      *)
(* order the answers of several tabs set their cookies.                    *)
THEOREM NoCsrfRefusalHolds == Spec => []NoCsrfRefusal
<1>1. IInv => NoCsrfRefusal
  BY DEF IInv, Honest, NoCsrfRefusal
<1>2. QED BY <1>1, InvHolds, PTL

(* The refresh timer of a tab runs exactly while the tab is signed in. *)
THEOREM TimerFollowsSignInHolds == Spec => []TimerFollowsSignIn
<1>1. IInv => TimerFollowsSignIn
  BY DEF IInv
<1>2. QED BY <1>1, InvHolds, PTL

(* A late answer about permissions never fills the menu of a tab that has  *)
(* been signed out.                                                        *)
THEOREM NoMenuWhenSignedOutHolds == Spec => []NoMenuWhenSignedOut
<1>1. IInv => NoMenuWhenSignedOut
  BY DEF IInv
<1>2. QED BY <1>1, InvHolds, PTL
================================================================================
