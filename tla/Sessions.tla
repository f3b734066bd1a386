------------------------------- MODULE Sessions -------------------------------
(***************************************************************************)
(* Browser sessions: table auth_sessions and its store methods             *)
(* (api/authstore/store.go, user_auth.go), login, logout, refresh and      *)
(* password change (api/myhandlers/auth_session_handlers.go,               *)
(* change_password.go), the cookie path of BearerOrSession                 *)
(* (api/middleware/auth.go) and the soft delete of a user                  *)
(* (api/myhandlers/sqlhandlers.go).                                        *)
(*                                                                         *)
(* None of these handlers holds a lock across its statements, so every     *)
(* statement is a step of its own: a login verifies a password hash it     *)
(* read earlier, a validation slides a row it selected earlier, a password *)
(* change revokes sessions after it has written the new hash.  Time is     *)
(* counted in the seconds of MySQL's TIMESTAMP columns.                    *)
(***************************************************************************)
EXTENDS Naturals

CONSTANTS
    Users,         \* users with an operator account and a password
    SessionIds,    \* rows of auth_sessions; bounds the number of logins
    Workers,       \* requests that can be in flight at the same time
    IdleTTL,       \* SESSION_IDLE_TTL_SECONDS
    AbsTTL,        \* SESSION_ABSOLUTE_TTL_SECONDS
    MaxTime,       \* bound on the clock
    MaxChanges     \* bound on the password changes of a user

ASSUME TTLAssumption ==
    /\ IdleTTL \in Nat \ {0}
    /\ AbsTTL \in Nat
    /\ IdleTTL <= AbsTTL          \* config.Load refuses anything else
ASSUME BoundsAssumption == MaxTime \in Nat /\ MaxChanges \in Nat

VARIABLES
    clock,      \* time.Now() and UTC_TIMESTAMP()
    deleted,    \* users with deleted_at set (their account is suspended)
    password,   \* version of each user's password hash; each hash is salted
    sessions,   \* auth_sessions
    work,       \* the request each worker is serving
    changed     \* per user: the hash version stored, and the time, when
                \* change-password last answered 200 (history)

vars == <<clock, deleted, password, sessions, work, changed>>

(* cred is the hash version the login verified (history, not a column). *)
SessionRow == [user : Users, expires : Nat, absolute : Nat, created : Nat,
               lastSeen : Nat, revoked : BOOLEAN, cred : Nat]
NoSession == [absent |-> TRUE]

Exists(s) == sessions[s] # NoSession
OwnedBy(s, u) == Exists(s) /\ sessions[s].user = u

(***************************************************************************)
(* pc: idle                                                                *)
(*     verified     login: the password matched the hash that was read     *)
(*     selected     ValidateSession has read the row                       *)
(*     slide        ... and found it unexpired at time "at"                *)
(*     admitted     the request runs as user, its cookie names session sid *)
(*     pw_verified  change-password: the current password matched          *)
(*     pw_written   ... and the new hash is stored                         *)
(***************************************************************************)
Work ==
    [pc : {"idle"}]
    \cup [pc : {"verified"}, user : Users, cred : Nat]
    \cup [pc : {"selected"}, sid : SessionIds, user : Users,
          expires : Nat, absolute : Nat]
    \cup [pc : {"slide"}, sid : SessionIds, user : Users, at : Nat, to : Nat]
    \cup [pc : {"admitted"}, sid : SessionIds, user : Users]
    \cup [pc : {"pw_verified", "pw_written"}, sid : SessionIds, user : Users]

TypeOK ==
    /\ clock \in Nat
    /\ deleted \subseteq Users
    /\ password \in [Users -> Nat]
    /\ sessions \in [SessionIds -> SessionRow \cup {NoSession}]
    /\ work \in [Workers -> Work]
    /\ changed \in [Users -> [version : Nat, at : Nat]]

Init ==
    /\ clock = 0
    /\ deleted = {}
    /\ password = [u \in Users |-> 0]
    /\ sessions = [s \in SessionIds |-> NoSession]
    /\ work = [w \in Workers |-> [pc |-> "idle"]]
    /\ changed = [u \in Users |-> [version |-> 0, at |-> 0]]

--------------------------------------------------------------------------------
EarlierOf(a, b) == IF a <= b THEN a ELSE b

Become(w, state) == work' = [work EXCEPT ![w] = state]

(* Login *)

(* GetUserAuthByEmail finds the account and VerifyPassword compares; a     *)
(* wrong password ends the request (LoginThrottle counts it).              *)
LoginVerify(w, u) ==
    /\ work[w].pc = "idle"
    /\ u \notin deleted
    /\ Become(w, [pc |-> "verified", user |-> u, cred |-> password[u]])
    /\ UNCHANGED <<clock, deleted, password, sessions, changed>>

(* The row CreateSession inserts. *)
NewSession(u, cred) ==
    [user |-> u, expires |-> EarlierOf(clock + IdleTTL, clock + AbsTTL),
     absolute |-> clock + AbsTTL, created |-> clock, lastSeen |-> clock,
     revoked |-> FALSE, cred |-> cred]

(* CreateSession: one INSERT, with the user id the login looked up. *)
LoginCreate(w, s) ==
    /\ work[w].pc = "verified"
    /\ ~Exists(s)
    /\ sessions' = [sessions EXCEPT ![s] = NewSession(work[w].user,
                                                      work[w].cred)]
    /\ Become(w, [pc |-> "idle"])
    /\ UNCHANGED <<clock, deleted, password, changed>>

--------------------------------------------------------------------------------
(* ValidateSession: for BearerOrSession, refresh and GET /auth/csrf. *)

(* The columns the SELECT hands over. *)
Selected(s) ==
    [pc |-> "selected", sid |-> s, user |-> sessions[s].user,
     expires |-> sessions[s].expires, absolute |-> sessions[s].absolute]

(* Mutant: the SELECT without its condition on users.deleted_at. *)
ValidateSelectAnyUser(w, s) ==
    /\ work[w].pc = "idle"
    /\ Exists(s)
    /\ ~sessions[s].revoked
    /\ Become(w, Selected(s))
    /\ UNCHANGED <<clock, deleted, password, sessions, changed>>

(* Mutant: revoked_at is not looked at. *)
ValidateSelectRevokedToo(w, s) ==
    /\ work[w].pc = "idle"
    /\ Exists(s)
    /\ sessions[s].user \notin deleted
    /\ Become(w, Selected(s))
    /\ UNCHANGED <<clock, deleted, password, sessions, changed>>

(* The SELECT sees rows of users that are not deleted; a revoked row ends  *)
(* the request.                                                            *)
ValidateSelect(w, s) ==
    /\ work[w].pc = "idle"
    /\ Exists(s)
    /\ sessions[s].user \notin deleted
    /\ ~sessions[s].revoked
    /\ Become(w, Selected(s))
    /\ UNCHANGED <<clock, deleted, password, sessions, changed>>

(* Mutant: only the absolute bound is enforced. *)
ExpiredAbsoluteOnly(row) == clock >= row.absolute

(* Both bounds are exclusive. *)
Expired(row) == clock >= row.absolute \/ clock >= row.expires

(* The new sliding expiry, capped by the absolute one. *)
SlideTo(row) == EarlierOf(clock + IdleTTL, row.absolute)

(* time.Now() against the row that was read. *)
ValidateCheck(w) ==
    /\ work[w].pc = "selected"
    /\ \/ /\ Expired(work[w])
          /\ Become(w, [pc |-> "idle"])
       \/ /\ ~Expired(work[w])
          /\ Become(w, [pc |-> "slide", sid |-> work[w].sid,
                        user |-> work[w].user, at |-> clock,
                        to |-> SlideTo(work[w])])
    /\ UNCHANGED <<clock, deleted, password, sessions, changed>>

(* Mutant: the UPDATE without AND revoked_at IS NULL. *)
ValidateSlideAlways(w) ==
    /\ work[w].pc = "slide"
    /\ sessions' = [sessions EXCEPT ![work[w].sid].expires = work[w].to,
                                    ![work[w].sid].lastSeen = clock]
    /\ Become(w, [pc |-> "admitted", sid |-> work[w].sid,
                  user |-> work[w].user])
    /\ UNCHANGED <<clock, deleted, password, changed>>

(* UPDATE ... WHERE id = ? AND revoked_at IS NULL; the row count is not    *)
(* looked at, the request is admitted either way.                          *)
ValidateSlide(w) ==
    /\ work[w].pc = "slide"
    /\ LET s == work[w].sid IN
       sessions' = IF sessions[s].revoked THEN sessions
                   ELSE [sessions EXCEPT ![s].expires = work[w].to,
                                         ![s].lastSeen = clock]
    /\ Become(w, [pc |-> "admitted", sid |-> work[w].sid,
                  user |-> work[w].user])
    /\ UNCHANGED <<clock, deleted, password, changed>>

(* The admitted request's handler is done. *)
Served(w) ==
    /\ work[w].pc = "admitted"
    /\ Become(w, [pc |-> "idle"])
    /\ UNCHANGED <<clock, deleted, password, sessions, changed>>

--------------------------------------------------------------------------------
(* ChangePassword *)

(* GetUserPasswordHashByID and VerifyPassword of the current password. *)
PasswordVerify(w) ==
    /\ work[w].pc = "admitted"
    /\ work[w].user \notin deleted
    /\ Become(w, [pc |-> "pw_verified", sid |-> work[w].sid,
                  user |-> work[w].user])
    /\ UNCHANGED <<clock, deleted, password, sessions, changed>>

(* UpdateUserPasswordHash: no row matches a deleted user, an error. *)
PasswordUpdate(w) ==
    /\ work[w].pc = "pw_verified"
    /\ LET u == work[w].user IN
       \/ /\ u \in deleted
          /\ Become(w, [pc |-> "idle"])
          /\ UNCHANGED password
       \/ /\ u \notin deleted
          /\ password[u] < MaxChanges
          /\ password' = [password EXCEPT ![u] = @ + 1]
          /\ Become(w, [pc |-> "pw_written", sid |-> work[w].sid, user |-> u])
    /\ UNCHANGED <<clock, deleted, sessions, changed>>

(* UPDATE auth_sessions SET revoked_at ... for every session of u. *)
RevokeAll(u) ==
    [s \in SessionIds |-> IF OwnedBy(s, u)
                          THEN [sessions[s] EXCEPT !.revoked = TRUE]
                          ELSE sessions[s]]

(* Mutant: the session that asked for the change is spared. *)
PasswordRevokeOthers(w) ==
    /\ work[w].pc = "pw_written"
    /\ sessions' = [RevokeAll(work[w].user) EXCEPT ![work[w].sid] =
                       sessions[work[w].sid]]
    /\ changed' = [changed EXCEPT ![work[w].user] =
                     [version |-> password[work[w].user], at |-> clock]]
    /\ Become(w, [pc |-> "idle"])
    /\ UNCHANGED <<clock, deleted, password>>

(* RevokeAllSessionsForUser, then 200. *)
PasswordRevoke(w) ==
    /\ work[w].pc = "pw_written"
    /\ sessions' = RevokeAll(work[w].user)
    /\ changed' = [changed EXCEPT ![work[w].user] =
                     [version |-> password[work[w].user], at |-> clock]]
    /\ Become(w, [pc |-> "idle"])
    /\ UNCHANGED <<clock, deleted, password>>

--------------------------------------------------------------------------------
(* LogoutUser: the route needs no valid session, the error of the UPDATE   *)
(* is dropped, the reply is 200.                                           *)
LogoutUser(s) ==
    /\ Exists(s)
    /\ \E stored \in BOOLEAN :
          sessions' = IF stored THEN [sessions EXCEPT ![s].revoked = TRUE]
                      ELSE sessions
    /\ UNCHANGED <<clock, deleted, password, work, changed>>

(* DeleteUser: soft delete, revocation and suspension in one transaction. *)
DeleteUser(u) ==
    /\ u \notin deleted
    /\ deleted' = deleted \cup {u}
    /\ sessions' = RevokeAll(u)
    /\ UNCHANGED <<clock, password, work, changed>>

(* A database error, an expired context or a crash ends a request: 500, or *)
(* 401 inside a validation.  What it has written stays.                    *)
Abort(w) ==
    /\ work[w].pc # "idle"
    /\ Become(w, [pc |-> "idle"])
    /\ UNCHANGED <<clock, deleted, password, sessions, changed>>

Tick ==
    /\ clock < MaxTime
    /\ clock' = clock + 1
    /\ UNCHANGED <<deleted, password, sessions, work, changed>>

Next ==
    \/ Tick
    \/ \E u \in Users : DeleteUser(u)
    \/ \E s \in SessionIds : LogoutUser(s)
    \/ \E w \in Workers :
          \/ \E u \in Users : LoginVerify(w, u)
          \/ \E s \in SessionIds : LoginCreate(w, s) \/ ValidateSelect(w, s)
          \/ ValidateCheck(w) \/ ValidateSlide(w) \/ Served(w)
          \/ PasswordVerify(w) \/ PasswordUpdate(w) \/ PasswordRevoke(w)
          \/ Abort(w)

Spec == Init /\ [][Next]_vars

(* A request in flight is carried on; it has a deadline (10 or 15 seconds, *)
(* the server's otherwise), so in the end it is answered or aborted.       *)
Proceed(w) ==
    \/ ValidateCheck(w) \/ ValidateSlide(w) \/ Served(w)
    \/ PasswordUpdate(w) \/ PasswordRevoke(w) \/ Abort(w)

FairSpec == Spec /\ \A w \in Workers : WF_vars(Proceed(w))
--------------------------------------------------------------------------------
(* "TTL: Idle + absolute cap" (docs/auth-session.md): a validation lets a  *)
(* request pass only within IdleTTL of the session's last recorded use and *)
(* within AbsTTL of its creation, and no slide is stored that lasts longer *)
(* than that, however validations of the same session interleave and       *)
(* whichever slide is written last.                                        *)
SessionLifetime ==
    /\ \A w \in Workers :
          work[w].pc = "slide" =>
             /\ work[w].at < sessions[work[w].sid].lastSeen + IdleTTL
             /\ work[w].at < sessions[work[w].sid].created + AbsTTL
    /\ \A s \in SessionIds :
          Exists(s) => sessions[s].expires <= sessions[s].created + AbsTTL

(* A validation that raced a logout, a password change or a deletion never *)
(* touches the revoked row again: no resurrection, no later expiry.        *)
RevokedRowsFrozen ==
    [][\A s \in SessionIds :
         Exists(s) /\ sessions[s].revoked => sessions'[s] = sessions[s]]_vars

(* What change-password really guarantees with its 200: every session that *)
(* existed then is dead for good.  One opened with an older password can   *)
(* only have been inserted afterwards, by a login already under way.       *)
SessionsPredatingChangeDie ==
    \A s \in SessionIds :
       Exists(s) /\ ~sessions[s].revoked =>
          LET c == changed[sessions[s].user] IN
          sessions[s].cred < c.version => sessions[s].created >= c.at

(* After a soft delete the user's requests run out and none is admitted    *)
(* any more, even if a login under way inserts a fresh session: offboarding *)
(* takes effect without anybody closing browser windows.                   *)
DeletionTakesEffect ==
    \A u \in Users :
       u \in deleted ~>
          [](\A w \in Workers : work[w].pc = "admitted" => work[w].user # u)

(* The same for one revoked session.                                       *)
RevocationTakesEffect ==
    \A s \in SessionIds :
       (Exists(s) /\ sessions[s].revoked) ~>
          [](\A w \in Workers : work[w].pc = "admitted" => work[w].sid # s)
================================================================================
