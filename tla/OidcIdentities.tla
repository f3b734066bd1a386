---------------------------- MODULE OidcIdentities -----------------------------
(***************************************************************************)
(* Users that come from an identity provider: table user_identities and    *)
(* EnsureOIDCUser (api/authstore/identity.go), which TryResolveAuthSubject *)
(* (api/auth/oidc.go) calls for every bearer token that is not a platform  *)
(* token, together with the operator invites.  Both insert into table      *)
(* users, the first requests of a subject race with each other, and the    *)
(* same goroutines serve both.                                             *)
(*                                                                         *)
(* EnsureOIDCUser is one transaction.  Its SELECT reads what is committed; *)
(* the unique key on (issuer, subject) makes an INSERT wait for another    *)
(* transaction's uncommitted row.                                          *)
(***************************************************************************)
EXTENDS OperatorInvites

CONSTANT Subjects   \* (issuer, sub) of verified tokens of users

VARIABLES
    identities,   \* user_identities: the user of each subject, as committed
    resolve,      \* the EnsureOIDCUser each worker is at
    direct,       \* users that were there from the start, or that CreateUser has
                  \* made (history)
    answers       \* <<subject, user>> of every request let in (history)

identityVars == <<identities, resolve, direct, answers>>
allVars == <<vars, identityVars>>

(***************************************************************************)
(* pc: idle                                                                *)
(*     unseen     the SELECT has found no identity                         *)
(*     user       a users row is inserted                                  *)
(*     identity   a user_identities row for it, too; not yet committed     *)
(***************************************************************************)
Resolve ==
    {Idle}
    \cup [pc : {"unseen"}, subject : Subjects]
    \cup [pc : {"user", "identity"}, subject : Subjects, user : Users]

(* Types of both parts; a goroutine is in one transaction at a time, so it *)
(* accepts an invite or looks a subject up, never both.                    *)
IdentityTypeOK ==
    /\ TypeOK
    /\ identities \in [Subjects -> Users \cup {NoUser}]
    /\ resolve \in [Workers -> Resolve]
    /\ direct \subseteq users
    /\ answers \subseteq Subjects \X Users
    /\ \A w \in Workers : work[w] = Idle \/ resolve[w] = Idle

AllInit ==
    /\ Init
    /\ identities = [s \in Subjects |-> NoUser]
    /\ resolve = [w \in Workers |-> Idle]
    /\ direct = users
    /\ answers = {}

--------------------------------------------------------------------------------
ResolveBecome(w, state) == resolve' = [resolve EXCEPT ![w] = state]
Seen(s) == identities[s] # NoUser
Answer(s, u) == answers' = answers \cup {<<s, u>>}

(* SELECT user_id FROM user_identities; the user of a known subject is the *)
(* answer, deleted or not.                                                 *)
EnsureSelect(w, s) ==
    /\ work[w] = Idle /\ resolve[w] = Idle
    /\ \/ Seen(s) /\ Answer(s, identities[s]) /\ UNCHANGED resolve
       \/ /\ ~Seen(s)
          /\ ResolveBecome(w, [pc |-> "unseen", subject |-> s])
          /\ UNCHANGED answers
    /\ UNCHANGED <<vars, identities, direct>>

(* AUTO_INCREMENT gives a key that no open INSERT of either kind has. *)
OpenUsers ==
    {resolve[v].user : v \in {x \in Workers : resolve[x].pc \in {"user", "identity"}}}
UnusedKey(u) == FreshUser(u) /\ u \notin OpenUsers

(* Mutant: the users row is inserted outside the transaction. *)
EnsureInsertUserAtOnce(w, u) ==
    /\ resolve[w].pc = "unseen"
    /\ UnusedKey(u)
    /\ users' = users \cup {u}
    /\ ResolveBecome(w, [pc |-> "user", subject |-> resolve[w].subject, user |-> u])
    /\ UNCHANGED <<clock, deleted, invites, accounts, lock, work>>
    /\ UNCHANGED <<identities, direct, answers>>

(* Mutant: LastInsertId is not read. *)
EnsureInsertUserNoId(w, u) ==
    /\ resolve[w].pc = "unseen"
    /\ UnusedKey(u)
    /\ ResolveBecome(w, [pc |-> "user", subject |-> resolve[w].subject, user |-> NoUser])
    /\ UNCHANGED <<vars, identities, direct, answers>>

(* INSERT INTO users. *)
EnsureInsertUser(w, u) ==
    /\ resolve[w].pc = "unseen"
    /\ UnusedKey(u)
    /\ ResolveBecome(w, [pc |-> "user", subject |-> resolve[w].subject, user |-> u])
    /\ UNCHANGED <<vars, identities, direct, answers>>

(* The INSERT waits for an open transaction that has inserted its key. *)
IdentityAwaited(w) ==
    \E v \in Workers \ {w} :
       resolve[v].pc = "identity" /\ resolve[v].subject = resolve[w].subject

(* Mutant: a duplicate counts as success, and the new user is answered. *)
EnsureInsertIdentityAnyway(w) ==
    /\ resolve[w].pc = "user"
    /\ ~IdentityAwaited(w)
    /\ \/ /\ ~Seen(resolve[w].subject)
          /\ resolve' = [resolve EXCEPT ![w].pc = "identity"]
          /\ UNCHANGED answers
       \/ /\ Seen(resolve[w].subject)
          /\ Answer(resolve[w].subject, resolve[w].user)
          /\ ResolveBecome(w, Idle)
    /\ UNCHANGED <<vars, identities, direct>>

(* INSERT INTO user_identities.  A duplicate, which the SELECT did not     *)
(* show, is an error: ROLLBACK, and 401.                                   *)
EnsureInsertIdentity(w) ==
    /\ resolve[w].pc = "user"
    /\ ~IdentityAwaited(w)
    /\ \/ /\ ~Seen(resolve[w].subject)
          /\ resolve' = [resolve EXCEPT ![w].pc = "identity"]
       \/ /\ Seen(resolve[w].subject)
          /\ ResolveBecome(w, Idle)
    /\ UNCHANGED <<vars, identities, direct, answers>>

(* COMMIT; if its answer is lost the request is refused all the same. *)
EnsureCommit(w) ==
    /\ resolve[w].pc = "identity"
    /\ LET s == resolve[w].subject
           u == resolve[w].user
       IN /\ users' = users \cup {u}
          /\ identities' = [identities EXCEPT ![s] = u]
          /\ \/ Answer(s, u)
             \/ UNCHANGED answers
    /\ ResolveBecome(w, Idle)
    /\ UNCHANGED <<clock, deleted, invites, accounts, lock, work, direct>>

(* A database error, an expired context or a crash: ROLLBACK. *)
EnsureAbort(w) ==
    /\ resolve[w] # Idle
    /\ ResolveBecome(w, Idle)
    /\ UNCHANGED <<vars, identities, direct, answers>>

(* CreateUser (api/myhandlers/sqlhandlers.go): one INSERT. *)
CreateUser(u) ==
    /\ UnusedKey(u)
    /\ users' = users \cup {u}
    /\ direct' = direct \cup {u}
    /\ UNCHANGED <<clock, deleted, invites, accounts, lock, work>>
    /\ UNCHANGED <<identities, resolve, answers>>

(* A step of the invites, with the table users shared. *)
InviteStep ==
    /\ Next
    /\ \A w \in Workers : work'[w] # Idle => resolve[w] = Idle
    /\ \A w \in Workers :
          work[w].pc = "role" /\ work'[w].pc = "user" => work'[w].user \notin OpenUsers
    /\ UNCHANGED identityVars

AllNext ==
    \/ InviteStep
    \/ \E u \in Users : CreateUser(u)
    \/ \E w \in Workers :
          \/ \E s \in Subjects : EnsureSelect(w, s)
          \/ \E u \in Users : EnsureInsertUser(w, u)
          \/ EnsureInsertIdentity(w) \/ EnsureCommit(w) \/ EnsureAbort(w)

AllSpec == AllInit /\ [][AllNext]_allVars

--------------------------------------------------------------------------------
(* A subject is one user for good: however its first requests race, fail   *)
(* half way or lose their answer, all requests of a subject that are let   *)
(* in act as the same user.                                                *)
SubjectHasOneUser ==
    \A p, q \in answers : p[1] = q[1] => p[2] = q[2]

(* The losers of these races leave nothing behind: every row of users that *)
(* nobody asked for directly belongs to an identity or to an account.      *)
NoStrayUsers ==
    \A u \in users \ direct :
       \/ \E s \in Subjects : identities[s] = u
       \/ \E a \in accounts : a.user = u

Abstract == INSTANCE Directory WITH
    people <- users,
    removed <- deleted,
    offers <- [i \in Invites |-> IF ~Exists(i) THEN "absent"
                                 ELSE IF invites[i].consumed THEN "taken"
                                 ELSE "open"],
    holders <- {[email |-> a.email, user |-> a.user, status |-> a.status] :
                  a \in accounts},
    names <- identities

(* The transactions of acceptances and of first sights, their snapshots,   *)
(* waits, duplicates and rollbacks come to the same as doing each of them  *)
(* at one stroke: every step is a step of Directory, or changes nothing.   *)
ImplementsDirectory == Abstract!DirSpec
================================================================================
