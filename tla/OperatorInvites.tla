---------------------------- MODULE OperatorInvites ----------------------------
(***************************************************************************)
(* Operator onboarding: tables operator_invites, operator_accounts and     *)
(* operator_account_roles, the store methods of                            *)
(* api/authstore/operator_identity.go and the handlers CreateOperatorInvite *)
(* and AcceptOperatorInvite (api/myhandlers/auth_session_handlers.go),     *)
(* together with DeleteUser, which suspends the account of its user.       *)
(*                                                                         *)
(* An acceptance is one transaction.  It locks its invite; the check for   *)
(* an existing account reads the snapshot its first plain SELECT took      *)
(* (REPEATABLE READ); the unique keys of operator_accounts make an INSERT  *)
(* wait for another transaction's uncommitted row with the same email or   *)
(* user.  What a transaction has written is kept in its worker's record    *)
(* until it commits.                                                       *)
(***************************************************************************)
EXTENDS PlatformRbac, Naturals, FiniteSets

CONSTANTS
    Users,        \* ids in table users
    Founder,      \* the user whose account the migration made
    NoUser,       \* SQL NULL in a user column
    Emails,
    FounderEmail,
    Invites,      \* rows of operator_invites; bounds their number
    Roles,        \* role names an invite may ask for
    Workers,      \* acceptances in flight at the same time
    NoWorker,     \* nobody holds the row lock
    InviteTTL,    \* OPERATOR_INVITE_TTL_SECONDS
    MaxTime       \* bound on the clock

ASSUME UsersAssumption == Founder \in Users /\ NoUser \notin Users
ASSUME EmailsAssumption == FounderEmail \in Emails
ASSUME WorkersAssumption == NoWorker \notin Workers
ASSUME TimeAssumption == InviteTTL \in Nat \ {0} /\ MaxTime \in Nat

VARIABLES
    clock,
    users,      \* the ids that exist, as committed
    deleted,    \* those with deleted_at set
    invites,
    accounts,   \* operator_accounts joined with their role, as committed
    lock,       \* InnoDB row lock of each invite
    work        \* the acceptance each worker is at

vars == <<clock, users, deleted, invites, accounts, lock, work>>

Invite == [email : Emails, role : Roles, linked : Users \cup {NoUser},
           expires : Nat, consumed : BOOLEAN]
NoInvite == [absent |-> TRUE]
ASSUME InvitesAssumption == NoInvite \notin Invites

(* History: the invite the account stems from, and whether its user had    *)
(* already been deleted when the account was inserted.                     *)
Account == [invite : Invites \cup {NoInvite}, email : Emails, user : Users,
            role : Roles \cup RoleNames, status : {"active", "suspended"},
            late : BOOLEAN]

FounderAccount == [invite |-> NoInvite, email |-> FounderEmail,
                   user |-> Founder, role |-> "security_admin",
                   status |-> "active", late |-> FALSE]

(***************************************************************************)
(* pc: idle                                                                *)
(*     locked    the SELECT ... FOR UPDATE has returned the invite         *)
(*     role      its role has been looked up, seen is the snapshot         *)
(*     user      the user to link is known, a new one has been inserted    *)
(*     checked   no account was seen                                       *)
(*     inserted  the account and its role are inserted, not yet committed  *)
(***************************************************************************)
Idle == [pc |-> "idle"]
Work ==
    {Idle}
    \cup [pc : {"locked"}, id : Invites, email : Emails]
    \cup [pc : {"role"}, id : Invites, seen : SUBSET Account]
    \cup [pc : {"user"}, id : Invites, seen : SUBSET Account, user : Users]
    \cup [pc : {"checked"}, id : Invites, user : Users]
    \cup [pc : {"inserted"}, id : Invites, user : Users, late : BOOLEAN]

TypeOK ==
    /\ clock \in Nat
    /\ users \subseteq Users
    /\ deleted \subseteq users
    /\ invites \in [Invites -> Invite \cup {NoInvite}]
    /\ accounts \subseteq Account
    /\ lock \in [Invites -> Workers \cup {NoWorker}]
    /\ work \in [Workers -> Work]

(* Linkable users exist from the start; which is up to the table. *)
Init ==
    /\ clock = 0
    /\ users \in {us \in SUBSET Users : Founder \in us}
    /\ deleted = {}
    /\ invites = [i \in Invites |-> NoInvite]
    /\ accounts = {FounderAccount}
    /\ lock = [i \in Invites |-> NoWorker]
    /\ work = [w \in Workers |-> Idle]

--------------------------------------------------------------------------------
(* ListPlatformRoleNamesForUser: active accounts of users not soft-deleted. *)
ListPlatformRoleNamesForUser(u) ==
    {a.role : a \in {b \in accounts :
                       b.user = u /\ b.status = "active" /\ u \notin deleted}}

Exists(i) == invites[i] # NoInvite

(* CreateOperatorInvite: the route asks for security.write; the foreign key *)
(* of linked_user_id asks for a row, which may be soft-deleted.  The role   *)
(* is not looked up here.                                                   *)
CreateOperatorInvite(i, inviter, e, r, u) ==
    /\ HasPermission(ListPlatformRoleNamesForUser(inviter), "security.write")
    /\ ~Exists(i)
    /\ u \in users \cup {NoUser}
    /\ invites' = [invites EXCEPT ![i] =
                      [email |-> e, role |-> r, linked |-> u,
                       expires |-> clock + InviteTTL, consumed |-> FALSE]]
    /\ UNCHANGED <<clock, users, deleted, accounts, lock, work>>

Become(w, state) == work' = [work EXCEPT ![w] = state]
Invited(w) == invites[work[w].id]

(* ROLLBACK, deferred in every acceptance: nothing it wrote stays. *)
Rollback(w) ==
    /\ lock' = [lock EXCEPT ![work[w].id] = NoWorker]
    /\ Become(w, Idle)
    /\ UNCHANGED <<clock, users, deleted, invites, accounts>>

(* SELECT ... FOR UPDATE by token_hash, with the email the client gives.   *)
AcceptSelect(w, i, e) ==
    /\ work[w] = Idle
    /\ Exists(i)
    /\ lock[i] = NoWorker
    /\ lock' = [lock EXCEPT ![i] = w]
    /\ Become(w, [pc |-> "locked", id |-> i, email |-> e])
    /\ UNCHANGED <<clock, users, deleted, invites, accounts>>

(* Used, expired (exclusive bound), another email, or a role that is not   *)
(* in platform_roles.                                                      *)
Refused(w) ==
    \/ Invited(w).consumed
    \/ clock >= Invited(w).expires
    \/ work[w].email # Invited(w).email
    \/ Invited(w).role \notin RoleNames

AcceptRefuse(w) ==
    /\ work[w].pc = "locked"
    /\ Refused(w)
    /\ Rollback(w)

(* The SELECT on platform_roles is the transaction's first plain read. *)
AcceptRole(w) ==
    /\ work[w].pc = "locked"
    /\ ~Refused(w)
    /\ Become(w, [pc |-> "role", id |-> work[w].id, seen |-> accounts])
    /\ UNCHANGED <<clock, users, deleted, invites, accounts, lock>>

(* An AUTO_INCREMENT key no committed or open INSERT has. *)
FreshUser(u) ==
    /\ u \notin users
    /\ \A v \in Workers :
          work[v].pc \in {"user", "checked", "inserted"} => work[v].user # u

(* The linked user, or INSERT INTO users.  A linked user is not asked      *)
(* whether it has been deleted.                                            *)
AcceptUser(w, u) ==
    /\ work[w].pc = "role"
    /\ IF Invited(w).linked # NoUser THEN u = Invited(w).linked
       ELSE FreshUser(u)
    /\ Become(w, [pc |-> "user", id |-> work[w].id, seen |-> work[w].seen,
                  user |-> u])
    /\ UNCHANGED <<clock, users, deleted, invites, accounts, lock>>

(* a and an account for email e and user u exclude each other. *)
SameKey(a, e, u) == a.email = e \/ a.user = u

(* SELECT 1 FROM operator_accounts, on the snapshot: 409. *)
SeesAccount(w) ==
    \E a \in work[w].seen : SameKey(a, Invited(w).email, work[w].user)

AcceptConflict(w) ==
    /\ work[w].pc = "user"
    /\ SeesAccount(w)
    /\ Rollback(w)

AcceptCheck(w) ==
    /\ work[w].pc = "user"
    /\ ~SeesAccount(w)
    /\ Become(w, [pc |-> "checked", id |-> work[w].id, user |-> work[w].user])
    /\ UNCHANGED <<clock, users, deleted, invites, accounts, lock>>

(* The INSERT waits for an open transaction that has inserted its key. *)
Awaited(w) ==
    \E v \in Workers \ {w} :
       /\ work[v].pc = "inserted"
       /\ SameKey([email |-> Invited(v).email, user |-> work[v].user],
                  Invited(w).email, work[w].user)

KeyTaken(w) == \E a \in accounts : SameKey(a, Invited(w).email, work[w].user)

Inserted(w) ==
    [pc |-> "inserted", id |-> work[w].id, user |-> work[w].user,
     late |-> work[w].user \in deleted]

(* Mutant: the SELECT is relied on, there are no unique keys. *)
AcceptInsertUnchecked(w) ==
    /\ work[w].pc = "checked"
    /\ Become(w, Inserted(w))
    /\ UNCHANGED <<clock, users, deleted, invites, accounts, lock>>

(* INSERT INTO operator_accounts and operator_account_roles. *)
AcceptInsert(w) ==
    /\ work[w].pc = "checked"
    /\ ~Awaited(w)
    /\ ~KeyTaken(w)
    /\ Become(w, Inserted(w))
    /\ UNCHANGED <<clock, users, deleted, invites, accounts, lock>>

(* Duplicate key: an account the snapshot did not show.  500. *)
AcceptDuplicate(w) ==
    /\ work[w].pc = "checked"
    /\ ~Awaited(w)
    /\ KeyTaken(w)
    /\ Rollback(w)

NewAccount(w) ==
    [invite |-> work[w].id, email |-> Invited(w).email, user |-> work[w].user,
     role |-> Invited(w).role, status |-> "active", late |-> work[w].late]

(* Mutant: consumed_at is written after the COMMIT, by a request that may  *)
(* not live to do it.                                                      *)
AcceptCommitUnconsumed(w) ==
    /\ work[w].pc = "inserted"
    /\ accounts' = accounts \cup {NewAccount(w)}
    /\ users' = users \cup {work[w].user}
    /\ lock' = [lock EXCEPT ![work[w].id] = NoWorker]
    /\ Become(w, Idle)
    /\ UNCHANGED <<clock, deleted, invites>>

(* UPDATE operator_invites SET consumed_at, and COMMIT.  The request may   *)
(* not live to see the answer; what is committed stays.                    *)
AcceptCommit(w) ==
    /\ work[w].pc = "inserted"
    /\ accounts' = accounts \cup {NewAccount(w)}
    /\ users' = users \cup {work[w].user}
    /\ invites' = [invites EXCEPT ![work[w].id].consumed = TRUE]
    /\ lock' = [lock EXCEPT ![work[w].id] = NoWorker]
    /\ Become(w, Idle)
    /\ UNCHANGED <<clock, deleted>>

(* A database error, an expired context or a crash ends the request. *)
Abort(w) == work[w] # Idle /\ Rollback(w)

(* Mutant: the INSERT of an account takes no lock on its user's row. *)
DeleteUserAtOnce(u) ==
    /\ u \in users \ deleted
    /\ deleted' = deleted \cup {u}
    /\ accounts' = {IF a.user = u THEN [a EXCEPT !.status = "suspended"]
                    ELSE a : a \in accounts}
    /\ UNCHANGED <<clock, users, invites, lock, work>>

(* DeleteUser: deleted_at, and the account suspended, in one transaction.  *)
(* Its UPDATE waits for a foreign key's shared lock on the row.            *)
DeleteUser(u) ==
    /\ u \in users \ deleted
    /\ \A w \in Workers : ~(work[w].pc = "inserted" /\ work[w].user = u)
    /\ deleted' = deleted \cup {u}
    /\ accounts' = {IF a.user = u THEN [a EXCEPT !.status = "suspended"]
                    ELSE a : a \in accounts}
    /\ UNCHANGED <<clock, users, invites, lock, work>>

Tick ==
    /\ clock < MaxTime
    /\ clock' = clock + 1
    /\ UNCHANGED <<users, deleted, invites, accounts, lock, work>>

Proceed(w) ==
    \/ AcceptRefuse(w) \/ AcceptRole(w) \/ AcceptConflict(w) \/ AcceptCheck(w)
    \/ AcceptInsert(w) \/ AcceptDuplicate(w) \/ AcceptCommit(w) \/ Abort(w)
    \/ \E u \in Users : AcceptUser(w, u)

Next ==
    \/ Tick
    \/ \E u \in Users : DeleteUser(u)
    \/ \E i \in Invites, inviter \in Users, e \in Emails, r \in Roles,
          u \in Users \cup {NoUser} : CreateOperatorInvite(i, inviter, e, r, u)
    \/ \E w \in Workers :
          \/ \E i \in Invites, e \in Emails : AcceptSelect(w, i, e)
          \/ Proceed(w)

Spec == Init /\ [][Next]_vars

--------------------------------------------------------------------------------
From(i) == {a \in accounts : a.invite = i}

(* Acceptance is atomic: whatever fails or races, an invite is used up if  *)
(* and only if it has given one account, and that account is for the       *)
(* invite's email and role.  No invite is lost and none counts twice.      *)
AcceptanceAtomic ==
    \A i \in Invites :
       IF Exists(i) /\ invites[i].consumed
       THEN /\ Cardinality(From(i)) = 1
            /\ \A a \in From(i) : /\ a.email = invites[i].email
                                  /\ a.role = invites[i].role
       ELSE From(i) = {}

(* What deleting an operator leaves behind: AcceptOperatorInvite does not  *)
(* ask whether the user an invite names is deleted, so a deleted user may  *)
(* have an active account, but only one that was inserted after the        *)
(* deletion, through an invite that names the user.  The deletion itself   *)
(* suspends whatever account there is or is about to be committed: none    *)
(* slips through between an acceptance's INSERT and its COMMIT, and no     *)
(* user an acceptance makes is deleted under its hands.                    *)
DeletionSuspends ==
    \A a \in accounts :
       a.user \in deleted /\ a.status = "active" =>
          a.late /\ invites[a.invite].linked = a.user
================================================================================
