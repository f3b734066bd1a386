------------------------- MODULE OidcIdentitiesProofs --------------------------
(***************************************************************************)
(* Proofs about operator invites and OIDC identities, for any number of    *)
(* users, invites, subjects and requests in flight.  The transactions hold *)
(* back what they have written, so the invariant says what an open one has *)
(* reserved: an acceptance its invite and, once inserted, its key; a first *)
(* sight the id of its user and, once inserted, its subject.               *)
(***************************************************************************)
EXTENDS OidcIdentities, FiniteSetTheorems, TLAPS

(* An acceptance holds the lock of its invite, which stays unused past the *)
(* check, and its inserted key is nobody's.                                *)
Holding(w) ==
    /\ work[w] # Idle => Exists(work[w].id) /\ lock[work[w].id] = w
    /\ work[w].pc \in {"role", "user", "checked", "inserted"} =>
          ~Invited(w).consumed
    /\ work[w].pc = "inserted" => ~KeyTaken(w)

(* Two open acceptances have not inserted the same key. *)
KeysApart(v, w) ==
    v # w /\ work[v].pc = "inserted" /\ work[w].pc = "inserted" =>
       /\ Invited(v).email # Invited(w).email
       /\ work[v].user # work[w].user

(* An invite that is used has given one account, of its email and role;   *)
(* one that is not has given none.                                         *)
GivesOne(i) ==
    IF Exists(i) /\ invites[i].consumed
    THEN \E a \in accounts : /\ From(i) = {a}
                             /\ a.email = invites[i].email
                             /\ a.role = invites[i].role
    ELSE From(i) = {}

AcceptInv ==
    /\ \A i \in Invites : GivesOne(i)
    /\ \A w \in Workers : Holding(w)
    /\ \A v, w \in Workers : KeysApart(v, w)

(* The id an open first sight has drawn is in no other hands. *)
Drawn(w) == resolve[w].pc \in {"user", "identity"}
Reserved(w) ==
    Drawn(w) =>
       /\ resolve[w].user \notin users
       /\ \A v \in Workers \ {w} : Drawn(v) => resolve[v].user # resolve[w].user
       /\ \A v \in Workers : work[v].pc \in {"user", "checked", "inserted"} =>
             work[v].user # resolve[w].user

(* A subject whose identity is inserted has no other. *)
Claimed(w) ==
    resolve[w].pc = "identity" =>
       /\ ~Seen(resolve[w].subject)
       /\ \A v \in Workers \ {w} : resolve[v].pc = "identity" =>
             resolve[v].subject # resolve[w].subject

AnswersOnRecord == \A p \in answers : identities[p[1]] = p[2]

IInv ==
    /\ IdentityTypeOK
    /\ AcceptInv
    /\ \A w \in Workers : Reserved(w) /\ Claimed(w)
    /\ AnswersOnRecord
    /\ NoStrayUsers

--------------------------------------------------------------------------------
(* A set with one element has cardinality one. *)
LEMMA AtomicFromGivesOne ==
    ASSUME \A i \in Invites : GivesOne(i)
    PROVE  AcceptanceAtomic
BY FS_Singleton DEF GivesOne, AcceptanceAtomic

(* The record of each program point. *)
LEMMA WorkShape ==
    ASSUME TypeOK, NEW w \in Workers
    PROVE  /\ work[w].pc \in {"idle", "locked", "role", "user", "checked", "inserted"}
           /\ work[w].pc = "idle" <=> work[w] = Idle
           /\ work[w] # Idle => work[w].id \in Invites
           /\ work[w].pc = "locked" =>
                 work[w] \in [pc : {"locked"}, id : Invites, email : Emails]
           /\ work[w].pc = "role" =>
                 work[w] \in [pc : {"role"}, id : Invites, seen : SUBSET Account]
           /\ work[w].pc = "user" =>
                 work[w] \in [pc : {"user"}, id : Invites, seen : SUBSET Account,
                              user : Users]
           /\ work[w].pc = "checked" =>
                 work[w] \in [pc : {"checked"}, id : Invites, user : Users]
           /\ work[w].pc = "inserted" =>
                 work[w] \in [pc : {"inserted"}, id : Invites, user : Users,
                              late : BOOLEAN]
<1>1. work[w] \in Work
  BY DEF TypeOK
<1>2. QED BY <1>1 DEF Work, Idle

LEMMA InviteShape ==
    ASSUME TypeOK, NEW i \in Invites, Exists(i)
    PROVE  invites[i] \in Invite
BY DEF TypeOK, Exists

(* The account a commit adds. *)
LEMMA NewAccountShape ==
    ASSUME TypeOK, NEW w \in Workers, work[w].pc = "inserted", Holding(w)
    PROVE  /\ NewAccount(w) \in Account
           /\ NewAccount(w).invite = work[w].id
           /\ NewAccount(w).email = Invited(w).email
           /\ NewAccount(w).user = work[w].user
           /\ NewAccount(w).role = Invited(w).role
           /\ NewAccount(w).status = "active"
           /\ NewAccount(w).late = work[w].late
<1>1. /\ work[w].id \in Invites /\ work[w].user \in Users /\ Exists(work[w].id)
      /\ work[w].late \in BOOLEAN
  BY WorkShape DEF Holding
<1>2. Invited(w) \in Invite
  BY <1>1, InviteShape DEF Invited
<1>3. QED BY <1>1, <1>2 DEF NewAccount, Account, Invite

(* What a deletion does to the accounts. *)
Suspend(a, u) == IF a.user = u THEN [a EXCEPT !.status = "suspended"] ELSE a

LEMMA SuspendKeeps ==
    ASSUME NEW a \in Account, NEW u
    PROVE  /\ Suspend(a, u) \in Account
           /\ Suspend(a, u).invite = a.invite
           /\ Suspend(a, u).email = a.email
           /\ Suspend(a, u).user = a.user
           /\ Suspend(a, u).role = a.role
           /\ Suspend(a, u).late = a.late
           /\ a.user = u => Suspend(a, u).status = "suspended"
           /\ a.user # u => Suspend(a, u) = a
BY DEF Suspend, Account

LEMMA DeleteSuspends ==
    ASSUME NEW u, DeleteUser(u)
    PROVE  accounts' = {Suspend(a, u) : a \in accounts}
BY DEF DeleteUser, Suspend

(* Acceptances in flight are of different invites. *)
LEMMA IdsApart ==
    ASSUME TypeOK, NEW v \in Workers, NEW w \in Workers, v # w,
           Holding(v), Holding(w), work[v] # Idle, work[w] # Idle
    PROVE  work[v].id # work[w].id
BY DEF Holding

--------------------------------------------------------------------------------
LEMMA TypeInit == Init => TypeOK
<1> SUFFICES ASSUME Init PROVE TypeOK
  OBVIOUS
<1>1. FounderAccount \in Account
  BY UsersAssumption, EmailsAssumption DEF FounderAccount, Account, RoleNames
<1>2. QED BY <1>1 DEF Init, TypeOK, Work

LEMMA TypeStep ==
    ASSUME TypeOK, \A w \in Workers : Holding(w), Next
    PROVE  TypeOK'
<1>become. ASSUME NEW w \in Workers, NEW state \in Work, Become(w, state)
           PROVE  work' \in [Workers -> Work]
  BY <1>become DEF Become, TypeOK
<1>idle. Idle \in Work
  BY DEF Work
<1>roll. ASSUME NEW w \in Workers, Rollback(w) PROVE TypeOK'
  BY <1>roll, <1>idle, <1>become DEF Rollback, TypeOK
<1>1. CASE Tick
  BY <1>1 DEF Tick, TypeOK
<1>2. ASSUME NEW u \in Users, DeleteUser(u) PROVE TypeOK'
  <2>1. accounts' \subseteq Account
    BY <1>2, DeleteSuspends, SuspendKeeps DEF TypeOK
  <2>2. QED BY <1>2, <2>1 DEF DeleteUser, TypeOK
<1>3. ASSUME NEW i \in Invites, NEW v \in Users, NEW e \in Emails, NEW r \in Roles,
             NEW u \in Users \cup {NoUser}, CreateOperatorInvite(i, v, e, r, u)
      PROVE  TypeOK'
  <2>1. [email |-> e, role |-> r, linked |-> u, expires |-> clock + InviteTTL,
         consumed |-> FALSE] \in Invite
    BY TimeAssumption DEF Invite, TypeOK
  <2>2. QED BY <1>3, <2>1 DEF CreateOperatorInvite, TypeOK
<1>4. ASSUME NEW w \in Workers, NEW i \in Invites, NEW e \in Emails,
             AcceptSelect(w, i, e)
      PROVE  TypeOK'
  <2>1. [pc |-> "locked", id |-> i, email |-> e] \in Work
    BY DEF Work
  <2>2. QED BY <1>4, <2>1, <1>become DEF AcceptSelect, TypeOK
<1>5. ASSUME NEW w \in Workers, AcceptRole(w) PROVE TypeOK'
  <2>1. [pc |-> "role", id |-> work[w].id, seen |-> accounts] \in Work
    BY <1>5, WorkShape DEF AcceptRole, Work, TypeOK
  <2>2. QED BY <1>5, <2>1, <1>become DEF AcceptRole, TypeOK
<1>6. ASSUME NEW w \in Workers, NEW u \in Users, AcceptUser(w, u) PROVE TypeOK'
  <2>1. [pc |-> "user", id |-> work[w].id, seen |-> work[w].seen, user |-> u] \in Work
    BY <1>6, WorkShape DEF AcceptUser, Work
  <2>2. QED BY <1>6, <2>1, <1>become DEF AcceptUser, TypeOK
<1>7. ASSUME NEW w \in Workers, AcceptCheck(w) PROVE TypeOK'
  <2>1. [pc |-> "checked", id |-> work[w].id, user |-> work[w].user] \in Work
    BY <1>7, WorkShape DEF AcceptCheck, Work
  <2>2. QED BY <1>7, <2>1, <1>become DEF AcceptCheck, TypeOK
<1>8. ASSUME NEW w \in Workers, AcceptInsert(w) PROVE TypeOK'
  <2>1. Inserted(w) \in Work
    BY <1>8, WorkShape DEF AcceptInsert, Inserted, Work
  <2>2. QED BY <1>8, <2>1, <1>become DEF AcceptInsert, TypeOK
<1>9. ASSUME NEW w \in Workers, AcceptCommit(w) PROVE TypeOK'
  <2>1. /\ NewAccount(w) \in Account /\ work[w].user \in Users
        /\ work[w].id \in Invites
    BY <1>9, NewAccountShape, WorkShape DEF AcceptCommit
  <2>2. [invites[work[w].id] EXCEPT !.consumed = TRUE] \in Invite
    BY <1>9, <2>1, InviteShape, WorkShape DEF AcceptCommit, Holding, Invite
  <2>3. QED BY <1>9, <2>1, <2>2, <1>idle, <1>become DEF AcceptCommit, TypeOK
<1>10. QED
  BY <1>roll, <1>1, <1>2, <1>3, <1>4, <1>5, <1>6, <1>7, <1>8, <1>9
     DEF Next, Proceed, AcceptRefuse, AcceptConflict, AcceptDuplicate, Abort

--------------------------------------------------------------------------------
LEMMA AcceptInit == Init => AcceptInv
<1> SUFFICES ASSUME Init PROVE AcceptInv
  OBVIOUS
<1>1. \A i \in Invites : ~Exists(i) /\ From(i) = {}
  BY InvitesAssumption DEF Init, Exists, From, FounderAccount
<1>2. QED BY <1>1 DEF Init, AcceptInv, GivesOne, Holding, KeysApart, Idle

(* An acceptance that does not move keeps what it holds, as long as its    *)
(* invite is left alone and nobody commits its key.                        *)
LEMMA HoldingKept ==
    ASSUME TypeOK, NEW v \in Workers, Holding(v), work'[v] = work[v],
           work[v] # Idle => /\ invites'[work[v].id] = invites[work[v].id]
                             /\ lock'[work[v].id] = lock[work[v].id],
           work[v].pc = "inserted" /\ KeyTaken(v)' => KeyTaken(v)
    PROVE  Holding(v)'
<1>1. work[v].pc # "idle" => work[v] # Idle
  BY WorkShape
<1>2. QED BY <1>1, WorkShape DEF Holding, Exists, Invited

LEMMA KeysApartKept ==
    ASSUME TypeOK, NEW v \in Workers, NEW w \in Workers, KeysApart(v, w),
           work'[v] = work[v], work'[w] = work[w],
           work[v] # Idle => invites'[work[v].id] = invites[work[v].id],
           work[w] # Idle => invites'[work[w].id] = invites[work[w].id]
    PROVE  KeysApart(v, w)'
BY DEF KeysApart, Invited, Idle

(* One acceptance moves, on tables and invites that stay. *)
LEMMA OneMoves ==
    ASSUME TypeOK, AcceptInv, NEW w \in Workers, NEW state,
           work' = [work EXCEPT ![w] = state],
           UNCHANGED <<invites, accounts>>,
           \A v \in Workers \ {w} :
              work[v] # Idle => lock'[work[v].id] = lock[work[v].id],
           Holding(w)',
           \A v \in Workers \ {w} : KeysApart(v, w)'
    PROVE  AcceptInv'
<1>1. work'[w] = state /\ \A v \in Workers \ {w} : work'[v] = work[v]
  BY DEF TypeOK
<1>2. \A j \in Invites : GivesOne(j)'
  BY DEF AcceptInv, GivesOne, Exists, From
<1>3. ASSUME NEW v \in Workers \ {w} PROVE Holding(v)'
  <2>1. KeyTaken(v)' => KeyTaken(v)
    BY <1>1 DEF KeyTaken, Invited
  <2>2. QED BY <1>1, <2>1, HoldingKept DEF AcceptInv
<1>4. ASSUME NEW v \in Workers, NEW x \in Workers PROVE KeysApart(v, x)'
  <2>1. CASE v # w /\ x # w
    BY <1>1, <2>1, KeysApartKept DEF AcceptInv
  <2>2. CASE v # w /\ x = w
    BY <2>2
  <2>3. CASE v = w /\ x # w
    <3>1. KeysApart(x, v)'
      BY <2>3
    <3>2. QED BY <3>1 DEF KeysApart
  <2>4. CASE v = w /\ x = w
    BY <2>4 DEF KeysApart
  <2>5. QED BY <2>1, <2>2, <2>3, <2>4
<1>5. QED BY <1>2, <1>3, <1>4 DEF AcceptInv

LEMMA AcceptStep ==
    ASSUME TypeOK, AcceptInv, Next
    PROVE  AcceptInv'
<1>hold. \A w \in Workers : Holding(w)
  BY DEF AcceptInv
<1>locked. \A w \in Workers : work[w] # Idle =>
              work[w].id \in Invites /\ lock[work[w].id] = w
  BY <1>hold, WorkShape DEF Holding
<1>move. ASSUME NEW w \in Workers, NEW state,
                work' = [work EXCEPT ![w] = state]
         PROVE  work'[w] = state
  BY <1>move DEF TypeOK
<1>roll. ASSUME NEW w \in Workers, Rollback(w), work[w] # Idle PROVE AcceptInv'
  <2>1. work' = [work EXCEPT ![w] = Idle] /\ UNCHANGED <<invites, accounts>>
    BY <1>roll DEF Rollback, Become
  <2>2. work'[w] = Idle
    BY <1>move, <2>1
  <2>3. Holding(w)' /\ \A v \in Workers \ {w} : KeysApart(v, w)'
    BY <2>2 DEF Holding, KeysApart, Idle
  <2>4. \A v \in Workers \ {w} :
           work[v] # Idle => lock'[work[v].id] = lock[work[v].id]
    BY <1>roll, <1>locked DEF Rollback, TypeOK
  <2>5. QED BY <2>1, <2>3, <2>4, OneMoves
<1>1. CASE Tick
  BY <1>1 DEF Tick, AcceptInv, GivesOne, Holding, KeysApart, Exists,
     From, Invited, KeyTaken
<1>2. ASSUME NEW u \in Users, DeleteUser(u) PROVE AcceptInv'
  <2>1. accounts' = {Suspend(a, u) : a \in accounts} /\ accounts \subseteq Account
    BY <1>2, DeleteSuspends DEF TypeOK
  <2>2. UNCHANGED <<invites, lock, work>>
    BY <1>2 DEF DeleteUser
  <2>3. ASSUME NEW i \in Invites PROVE GivesOne(i)'
    <3>1. From(i)' = {Suspend(a, u) : a \in From(i)}
      BY <2>1, SuspendKeeps DEF From
    <3>2. CASE Exists(i) /\ invites[i].consumed
      <4>1. PICK a \in accounts : /\ From(i) = {a}
                                  /\ a.email = invites[i].email
                                  /\ a.role = invites[i].role
        BY <3>2 DEF AcceptInv, GivesOne
      <4>2. From(i)' = {Suspend(a, u)} /\ Suspend(a, u) \in accounts'
        BY <2>1, <3>1, <4>1
      <4>3. QED BY <2>1, <2>2, <4>1, <4>2, <3>2, SuspendKeeps DEF GivesOne, Exists
    <3>3. CASE ~(Exists(i) /\ invites[i].consumed)
      <4>1. From(i) = {}
        BY <3>3 DEF AcceptInv, GivesOne
      <4>2. QED BY <2>2, <3>1, <3>3, <4>1 DEF GivesOne, Exists
    <3>4. QED BY <3>2, <3>3
  <2>5. ASSUME NEW v \in Workers PROVE Holding(v)'
    <3>1. KeyTaken(v)' => KeyTaken(v)
      BY <2>1, <2>2, SuspendKeeps DEF KeyTaken, SameKey, Invited
    <3>2. QED BY <2>2, <3>1, <1>hold, HoldingKept
  <2>6. \A v, w \in Workers : KeysApart(v, w)'
    BY <2>2 DEF AcceptInv, KeysApart, Invited
  <2>7. QED BY <2>3, <2>5, <2>6 DEF AcceptInv
<1>3. ASSUME NEW i \in Invites, NEW v \in Users, NEW e \in Emails, NEW r \in Roles,
             NEW u \in Users \cup {NoUser}, CreateOperatorInvite(i, v, e, r, u)
      PROVE  AcceptInv'
  <2> DEFINE new == [email |-> e, role |-> r, linked |-> u,
                     expires |-> clock + InviteTTL, consumed |-> FALSE]
  <2>1. /\ ~Exists(i) /\ invites' = [invites EXCEPT ![i] = new]
        /\ UNCHANGED <<accounts, lock, work>>
    BY <1>3 DEF CreateOperatorInvite
  <2>2. /\ invites'[i] = new /\ ~new.consumed
        /\ \A j \in Invites \ {i} : invites'[j] = invites[j]
    BY <2>1 DEF TypeOK
  <2> HIDE DEF new
  <2>3. From(i) = {}
    BY <2>1 DEF AcceptInv, GivesOne
  <2>4. \A j \in Invites : GivesOne(j)'
    BY <2>1, <2>2, <2>3 DEF AcceptInv, GivesOne, Exists, From
  <2>5. \A w \in Workers : work[w] # Idle =>
           invites'[work[w].id] = invites[work[w].id]
    BY <1>hold, <1>locked, <2>1, <2>2 DEF Holding
  <2>6. ASSUME NEW w \in Workers PROVE Holding(w)'
    <3>1. work[w].pc = "inserted" /\ KeyTaken(w)' => KeyTaken(w)
      BY <2>1, <2>5, WorkShape DEF KeyTaken, Invited
    <3>2. QED BY <2>1, <2>5, <3>1, <1>hold, HoldingKept
  <2>7. \A x, y \in Workers : KeysApart(x, y)'
    BY <2>1, <2>5, KeysApartKept DEF AcceptInv
  <2>8. QED BY <2>4, <2>6, <2>7 DEF AcceptInv
<1>4. ASSUME NEW w \in Workers, NEW i \in Invites, NEW e \in Emails,
             AcceptSelect(w, i, e)
      PROVE  AcceptInv'
  <2> DEFINE state == [pc |-> "locked", id |-> i, email |-> e]
  <2>1. /\ work' = [work EXCEPT ![w] = state] /\ UNCHANGED <<invites, accounts>>
        /\ Exists(i) /\ lock[i] = NoWorker /\ lock' = [lock EXCEPT ![i] = w]
    BY <1>4 DEF AcceptSelect, Become
  <2>2. work'[w] = state
    BY <1>move, <2>1
  <2>3. lock'[i] = w
    BY <2>1 DEF TypeOK
  <2>4. Holding(w)' /\ \A v \in Workers \ {w} : KeysApart(v, w)'
    BY <2>1, <2>2, <2>3 DEF Holding, KeysApart, Idle, Exists
  <2>5. \A v \in Workers \ {w} :
           work[v] # Idle => lock'[work[v].id] = lock[work[v].id]
    BY <2>1, <1>locked, WorkersAssumption DEF TypeOK
  <2>6. QED BY <2>1, <2>4, <2>5, OneMoves
(* Within its transaction an acceptance goes on from point to point. *)
<1>on. ASSUME NEW w \in Workers, NEW state,
              work' = [work EXCEPT ![w] = state], work[w] # Idle,
              state.pc \in {"role", "user", "checked"}, state.id = work[w].id,
              ~Invited(w).consumed, UNCHANGED <<invites, accounts, lock>>
       PROVE  AcceptInv'
  <2>1. work'[w] = state
    BY <1>on, <1>move
  <2>2. Holding(w)' /\ \A v \in Workers \ {w} : KeysApart(v, w)'
    BY <1>on, <1>hold, <2>1 DEF Holding, KeysApart, Exists, Invited
  <2>3. QED BY <1>on, <2>2, OneMoves
<1>busy. \A w \in Workers : work[w].pc # "idle" => work[w] # Idle
  BY DEF Idle
<1>5. ASSUME NEW w \in Workers, AcceptRole(w) PROVE AcceptInv'
  <2> DEFINE state == [pc |-> "role", id |-> work[w].id, seen |-> accounts]
  <2>1. /\ work' = [work EXCEPT ![w] = state] /\ work[w].pc = "locked"
        /\ ~Invited(w).consumed /\ UNCHANGED <<invites, accounts, lock>>
    BY <1>5 DEF AcceptRole, Become, Refused
  <2>2. state.pc = "role" /\ state.id = work[w].id
    OBVIOUS
  <2> HIDE DEF state
  <2>3. QED BY <2>1, <2>2, <1>on, <1>busy
<1>6. ASSUME NEW w \in Workers, NEW u \in Users, AcceptUser(w, u) PROVE AcceptInv'
  <2> DEFINE state == [pc |-> "user", id |-> work[w].id, seen |-> work[w].seen,
                       user |-> u]
  <2>1. /\ work' = [work EXCEPT ![w] = state] /\ work[w].pc = "role"
        /\ UNCHANGED <<invites, accounts, lock>>
    BY <1>6 DEF AcceptUser, Become
  <2>2. state.pc = "user" /\ state.id = work[w].id
    OBVIOUS
  <2>3. ~Invited(w).consumed
    BY <2>1, <1>hold DEF Holding
  <2> HIDE DEF state
  <2>4. QED BY <2>1, <2>2, <2>3, <1>on, <1>busy
<1>7. ASSUME NEW w \in Workers, AcceptCheck(w) PROVE AcceptInv'
  <2> DEFINE state == [pc |-> "checked", id |-> work[w].id, user |-> work[w].user]
  <2>1. /\ work' = [work EXCEPT ![w] = state] /\ work[w].pc = "user"
        /\ UNCHANGED <<invites, accounts, lock>>
    BY <1>7 DEF AcceptCheck, Become
  <2>2. state.pc = "checked" /\ state.id = work[w].id
    OBVIOUS
  <2>3. ~Invited(w).consumed
    BY <2>1, <1>hold DEF Holding
  <2> HIDE DEF state
  <2>4. QED BY <2>1, <2>2, <2>3, <1>on, <1>busy
<1>8. ASSUME NEW w \in Workers, AcceptInsert(w) PROVE AcceptInv'
  <2> DEFINE state == Inserted(w)
  <2>1. /\ work' = [work EXCEPT ![w] = state] /\ work[w].pc = "checked"
        /\ ~Awaited(w) /\ ~KeyTaken(w) /\ UNCHANGED <<invites, accounts, lock>>
    BY <1>8 DEF AcceptInsert, Become
  <2>2. state.pc = "inserted" /\ state.id = work[w].id /\ state.user = work[w].user
    BY DEF Inserted
  <2> HIDE DEF state
  <2>3. work'[w] = state /\ \A v \in Workers \ {w} : work'[v] = work[v]
    BY <2>1 DEF TypeOK
  <2>4. ~Invited(w).consumed /\ work[w] # Idle
    BY <2>1, <1>hold, <1>busy DEF Holding
  <2>5. ~KeyTaken(w)'
    BY <2>1, <2>2, <2>3 DEF KeyTaken, Invited
  <2>6. Holding(w)'
    BY <2>1, <2>2, <2>3, <2>4, <2>5, <1>hold DEF Holding, Exists, Invited
  <2>7. \A v \in Workers \ {w} : KeysApart(v, w)'
    BY <2>1, <2>2, <2>3 DEF KeysApart, Awaited, SameKey, Invited
  <2>8. QED BY <2>1, <2>6, <2>7, OneMoves
<1>9. ASSUME NEW w \in Workers, AcceptCommit(w) PROVE AcceptInv'
  <2>1. work[w].pc = "inserted" /\ work[w] # Idle /\ work[w].id \in Invites
    BY <1>9, <1>busy, <1>locked DEF AcceptCommit
  <2>i. PICK i \in Invites : i = work[w].id
    BY <2>1
  <2>n. PICK new : new = NewAccount(w)
    OBVIOUS
  <2>2. /\ Exists(i) /\ lock[i] = w /\ ~invites[i].consumed /\ invites[i] \in Invite
    BY <2>1, <2>i, <1>hold, InviteShape DEF Holding, Invited
  <2>3. /\ new.invite = i /\ new.email = invites[i].email
        /\ new.role = invites[i].role /\ new.user = work[w].user
    BY <2>1, <2>i, <2>n, <1>hold, NewAccountShape DEF Invited
  <2>4. /\ accounts' = accounts \cup {new}
        /\ invites' = [invites EXCEPT ![i].consumed = TRUE]
        /\ lock' = [lock EXCEPT ![i] = NoWorker]
        /\ work' = [work EXCEPT ![w] = Idle]
    BY <1>9, <2>i, <2>n DEF AcceptCommit, Become
  <2>5. /\ Exists(i)' /\ invites'[i].consumed
        /\ invites'[i].email = invites[i].email
        /\ invites'[i].role = invites[i].role
    BY <2>1, <2>2, <2>4 DEF TypeOK, Exists, Invite, NoInvite
  <2>6. \A j \in Invites \ {i} : invites'[j] = invites[j] /\ lock'[j] = lock[j]
    BY <2>1, <2>4 DEF TypeOK
  <2>7. work'[w] = Idle /\ \A v \in Workers \ {w} : work'[v] = work[v]
    BY <2>4 DEF TypeOK
  <2>8. \A v \in Workers \ {w} :
           work[v] # Idle => work[v].id \in Invites \ {i}
    BY <2>2, <1>locked
  <2>9. From(i)' = {new}
    <3>1. From(i) = {}
      BY <2>1, <2>2 DEF AcceptInv, GivesOne
    <3>2. QED BY <2>3, <2>4, <3>1 DEF From
  <2>10. \A j \in Invites \ {i} : From(j)' = From(j)
    BY <2>3, <2>4 DEF From
  <2>11. ASSUME NEW j \in Invites PROVE GivesOne(j)'
    <3>1. CASE j = i
      <4>1. new \in accounts'
        BY <2>4
      <4>2. QED BY <2>3, <2>5, <2>9, <3>1, <4>1 DEF GivesOne
    <3>2. CASE j # i
      <4>1. From(j)' = From(j) /\ invites'[j] = invites[j] /\ accounts \subseteq accounts'
        BY <2>4, <2>6, <2>10, <3>2
      <4>2. GivesOne(j)
        BY DEF AcceptInv
      <4>3. QED BY <4>1, <4>2 DEF GivesOne, Exists
    <3>3. QED BY <3>1, <3>2
  <2>12. ASSUME NEW v \in Workers \ {w} PROVE Holding(v)'
    <3>1. work[v].pc = "inserted" =>
             Invited(v).email # invites[i].email /\ work[v].user # work[w].user
      BY <2>1, <2>i DEF AcceptInv, KeysApart, Invited
    <3>2. work[v].pc = "inserted" /\ KeyTaken(v)' => KeyTaken(v)
      BY <2>3, <2>4, <2>6, <2>7, <2>8, <3>1, <1>busy DEF KeyTaken, SameKey, Invited
    <3>3. QED BY <2>6, <2>7, <2>8, <3>2, <1>hold, HoldingKept
  <2>13. Holding(w)'
    BY <2>7 DEF Holding, Idle
  <2>14. ASSUME NEW x \in Workers, NEW y \in Workers PROVE KeysApart(x, y)'
    <3>1. CASE x = w \/ y = w
      BY <2>7, <3>1 DEF KeysApart, Idle
    <3>2. CASE x # w /\ y # w
      BY <2>6, <2>7, <2>8, <3>2, KeysApartKept DEF AcceptInv
    <3>3. QED BY <3>1, <3>2
  <2>15. QED BY <2>11, <2>12, <2>13, <2>14 DEF AcceptInv
<1>10. QED
  BY <1>roll, <1>busy, <1>1, <1>2, <1>3, <1>4, <1>5, <1>6, <1>7, <1>8, <1>9
     DEF Next, Proceed, AcceptRefuse, AcceptConflict, AcceptDuplicate, Abort

--------------------------------------------------------------------------------
LEMMA ResolveShape ==
    ASSUME IdentityTypeOK, NEW w \in Workers
    PROVE  /\ resolve[w].pc = "idle" <=> resolve[w] = Idle
           /\ resolve[w].pc = "unseen" =>
                 resolve[w] \in [pc : {"unseen"}, subject : Subjects]
           /\ resolve[w].pc \in {"user", "identity"} =>
                 resolve[w] \in [pc : {"user", "identity"}, subject : Subjects,
                                 user : Users]
<1>1. resolve[w] \in Resolve
  BY DEF IdentityTypeOK
<1>2. QED BY <1>1 DEF Resolve, Idle

(* A step of the invites knows a user only from its draw on. *)
LEMMA UserOfAcceptance ==
    ASSUME TypeOK, Next, NEW v \in Workers,
           work'[v].pc \in {"user", "checked", "inserted"}
    PROVE  \/ /\ work[v].pc = "role" /\ work'[v].pc = "user"
              /\ \E u \in Users : AcceptUser(v, u)
           \/ /\ work[v].pc \in {"user", "checked", "inserted"}
              /\ work'[v].user = work[v].user /\ work'[v].id = work[v].id
<1>stay. ASSUME work'[v] = work[v]
         PROVE  /\ work[v].pc \in {"user", "checked", "inserted"}
                /\ work'[v].user = work[v].user /\ work'[v].id = work[v].id
  BY <1>stay
<1>move. ASSUME NEW w \in Workers, NEW state, work' = [work EXCEPT ![w] = state]
         PROVE  work'[v] = work[v] \/ (v = w /\ work'[v] = state)
  BY <1>move DEF TypeOK
<1>1. CASE Tick \/ \E u \in Users : DeleteUser(u)
  BY <1>1, <1>stay DEF Tick, DeleteUser
<1>2. ASSUME NEW i, NEW inviter, NEW e, NEW r, NEW u,
             CreateOperatorInvite(i, inviter, e, r, u)
      PROVE  work'[v] = work[v]
  BY <1>2 DEF CreateOperatorInvite
<1>3. ASSUME NEW w \in Workers, Rollback(w) \/ AcceptCommit(w)
      PROVE  work'[v] = work[v]
  BY <1>3, <1>move DEF Rollback, AcceptCommit, Become, Idle
<1>4. ASSUME NEW w \in Workers, NEW i, NEW e, AcceptSelect(w, i, e)
      PROVE  work'[v] = work[v]
  BY <1>4, <1>move DEF AcceptSelect, Become
<1>5. ASSUME NEW w \in Workers, AcceptRole(w) PROVE work'[v] = work[v]
  BY <1>5, <1>move DEF AcceptRole, Become
<1>6. ASSUME NEW w \in Workers, NEW u \in Users, AcceptUser(w, u)
      PROVE  \/ work'[v] = work[v]
             \/ /\ work[v].pc = "role" /\ work'[v].pc = "user"
                /\ \E x \in Users : AcceptUser(v, x)
  <2>1. /\ work[w].pc = "role"
        /\ work' = [work EXCEPT ![w] = [pc |-> "user", id |-> work[w].id,
                                        seen |-> work[w].seen, user |-> u]]
    BY <1>6 DEF AcceptUser, Become
  <2>2. QED BY <1>6, <2>1, <1>move
<1>7. ASSUME NEW w \in Workers, AcceptCheck(w)
      PROVE  \/ work'[v] = work[v]
             \/ /\ work[v].pc = "user" /\ work'[v].user = work[v].user
                /\ work'[v].id = work[v].id
  BY <1>7, <1>move DEF AcceptCheck, Become
<1>8. ASSUME NEW w \in Workers, AcceptInsert(w)
      PROVE  \/ work'[v] = work[v]
             \/ /\ work[v].pc = "checked" /\ work'[v].user = work[v].user
                /\ work'[v].id = work[v].id
  <2>1. work[w].pc = "checked" /\ work' = [work EXCEPT ![w] = Inserted(w)]
    BY <1>8 DEF AcceptInsert, Become
  <2>2. Inserted(w).user = work[w].user /\ Inserted(w).id = work[w].id
    BY DEF Inserted
  <2>3. QED BY <2>1, <2>2, <1>move
<1>9. QED
  BY <1>stay, <1>1, <1>2, <1>3, <1>4, <1>5, <1>6, <1>7, <1>8
     DEF Next, Proceed, AcceptRefuse, AcceptConflict, AcceptDuplicate, Abort

(* Its new users have accounts, and nobody's account goes away. *)
LEMMA UsersOfInvites ==
    ASSUME TypeOK, AcceptInv, Next
    PROVE  /\ \/ users' = users
              \/ \E v \in Workers : /\ work[v].pc = "inserted"
                                    /\ users' = users \cup {work[v].user}
                                    /\ \E a \in accounts' : a.user = work[v].user
           /\ \A a \in accounts : \E b \in accounts' : b.user = a.user
<1>1. ASSUME NEW w \in Workers, AcceptCommit(w)
      PROVE  /\ work[w].pc = "inserted"
             /\ users' = users \cup {work[w].user}
             /\ \E a \in accounts' : a.user = work[w].user
             /\ accounts \subseteq accounts'
  <2>1. NewAccount(w).user = work[w].user
    BY <1>1, NewAccountShape DEF AcceptCommit, AcceptInv
  <2>2. QED BY <1>1, <2>1 DEF AcceptCommit
<1>2. ASSUME NEW u \in Users, DeleteUser(u)
      PROVE  /\ users' = users
             /\ \A a \in accounts : \E b \in accounts' : b.user = a.user
  <2>1. accounts' = {Suspend(a, u) : a \in accounts}
    BY <1>2, DeleteSuspends
  <2>2. \A a \in accounts : Suspend(a, u) \in accounts' /\ Suspend(a, u).user = a.user
    BY <2>1, SuspendKeeps DEF TypeOK
  <2>3. QED BY <1>2, <2>2 DEF DeleteUser
<1>3. ASSUME ~\E w \in Workers : AcceptCommit(w), ~\E u \in Users : DeleteUser(u)
      PROVE  UNCHANGED <<users, accounts>>
  BY <1>3 DEF Next, Tick, CreateOperatorInvite, AcceptSelect, Proceed,
     AcceptRefuse, AcceptConflict, AcceptDuplicate, Abort, Rollback, AcceptRole,
     AcceptUser, AcceptCheck, AcceptInsert
<1>4. QED BY <1>1, <1>2, <1>3

LEMMA InvInit == AllInit => IInv
<1> SUFFICES ASSUME AllInit PROVE IInv
  OBVIOUS
<1>1. TypeOK /\ AcceptInv
  BY TypeInit, AcceptInit DEF AllInit
<1>2. IdentityTypeOK
  BY <1>1 DEF AllInit, Init, IdentityTypeOK, Resolve
<1>3. \A w \in Workers : Reserved(w) /\ Claimed(w)
  BY DEF AllInit, Reserved, Claimed, Drawn, Idle
<1>4. AnswersOnRecord /\ NoStrayUsers
  BY DEF AllInit, AnswersOnRecord, NoStrayUsers
<1>5. QED BY <1>1, <1>2, <1>3, <1>4 DEF IInv

(* A step of the invites keeps the identities' side. *)
LEMMA InviteStepKeeps ==
    ASSUME IInv, InviteStep
    PROVE  IInv'
<1>type. IdentityTypeOK /\ TypeOK /\ AcceptInv
  BY DEF IInv, IdentityTypeOK
<1>step. Next /\ UNCHANGED <<identities, resolve, direct, answers>>
  BY DEF InviteStep, identityVars
<1>1. TypeOK' /\ AcceptInv'
  BY <1>type, <1>step, TypeStep, AcceptStep DEF AcceptInv
<1>2. IdentityTypeOK'
  <2>1. users \subseteq users'
    BY <1>type, <1>step, UsersOfInvites
  <2>2. \A w \in Workers : work'[w] = Idle \/ resolve'[w] = Idle
    BY <1>step DEF InviteStep
  <2>3. QED BY <1>type, <1>step, <1>1, <2>1, <2>2 DEF IdentityTypeOK
<1>3. ASSUME NEW w \in Workers PROVE Reserved(w)'
  <2> SUFFICES ASSUME Drawn(w)
               PROVE  /\ resolve[w].user \notin users'
                      /\ \A v \in Workers \ {w} :
                            Drawn(v) => resolve[v].user # resolve[w].user
                      /\ \A v \in Workers :
                            work'[v].pc \in {"user", "checked", "inserted"} =>
                               work'[v].user # resolve[w].user
    BY <1>step DEF Reserved, Drawn
  <2>1. Reserved(w)
    BY DEF IInv
  <2>2. resolve[w].user \notin users'
    BY <2>1, <1>type, <1>step, UsersOfInvites DEF Reserved
  <2>3. ASSUME NEW v \in Workers, work'[v].pc \in {"user", "checked", "inserted"}
        PROVE  work'[v].user # resolve[w].user
    <3>1. CASE work[v].pc = "role" /\ work'[v].pc = "user"
      <4>1. work'[v].user \notin OpenUsers
        BY <3>1 DEF InviteStep
      <4>2. resolve[w].user \in OpenUsers
        BY DEF OpenUsers, Drawn
      <4>3. QED BY <4>1, <4>2
    <3>2. CASE work[v].pc \in {"user", "checked", "inserted"}
               /\ work'[v].user = work[v].user
      BY <2>1, <3>2 DEF Reserved
    <3>3. QED BY <1>type, <1>step, <2>3, <3>1, <3>2, UserOfAcceptance
  <2>4. QED BY <2>1, <2>2, <2>3 DEF Reserved
<1>4. \A w \in Workers : Claimed(w)'
  BY <1>step DEF IInv, Claimed, Seen
<1>5. AnswersOnRecord'
  BY <1>step DEF IInv, AnswersOnRecord
<1>6. NoStrayUsers'
  <2> SUFFICES ASSUME NEW u \in users' \ direct
               PROVE  \/ \E s \in Subjects : identities[s] = u
                      \/ \E a \in accounts' : a.user = u
    BY <1>step DEF NoStrayUsers
  <2>1. CASE u \in users
    BY <2>1, <1>type, <1>step, UsersOfInvites DEF IInv, NoStrayUsers
  <2>2. CASE u \notin users
    BY <2>2, <1>type, <1>step, UsersOfInvites
  <2>3. QED BY <2>1, <2>2
<1>7. QED BY <1>1, <1>2, <1>3, <1>4, <1>5, <1>6 DEF IInv

LEMMA AcceptFrame ==
    ASSUME AcceptInv, UNCHANGED <<invites, accounts, lock, work>>
    PROVE  AcceptInv'
BY DEF AcceptInv, GivesOne, Holding, KeysApart, Exists, From, Invited, KeyTaken

(* A step of EnsureOIDCUser by one worker, short of its COMMIT. *)
LEMMA OneResolves ==
    ASSUME IInv, NEW w \in Workers, NEW state \in Resolve,
           resolve' = [resolve EXCEPT ![w] = state],
           UNCHANGED <<vars, identities, direct, answers>>,
           state # Idle => work[w] = Idle,
           Reserved(w)', Claimed(w)',
           \A v \in Workers \ {w} :
              /\ state.pc \in {"user", "identity"} /\ Drawn(v) =>
                    resolve[v].user # state.user
              /\ state.pc = "identity" /\ resolve[v].pc = "identity" =>
                    resolve[v].subject # state.subject
    PROVE  IInv'
<1>type. IdentityTypeOK /\ TypeOK /\ AcceptInv
  BY DEF IInv, IdentityTypeOK
<1>1. /\ resolve' \in [Workers -> Resolve] /\ resolve'[w] = state
      /\ \A v \in Workers \ {w} : resolve'[v] = resolve[v]
  BY <1>type DEF IdentityTypeOK
<1>2. IdentityTypeOK' /\ AcceptInv'
  <2>1. TypeOK'
    BY <1>type DEF vars, TypeOK
  <2>2. AcceptInv'
    BY <1>type, AcceptFrame DEF vars
  <2>3. QED BY <1>type, <1>1, <2>1, <2>2 DEF IdentityTypeOK, vars
<1>3. ASSUME NEW v \in Workers \ {w} PROVE Reserved(v)' /\ Claimed(v)'
  <2>1. Reserved(v) /\ Claimed(v)
    BY DEF IInv
  <2>2. Reserved(v)'
    BY <1>1, <2>1 DEF Reserved, Drawn, vars
  <2>3. Claimed(v)'
    BY <1>1, <2>1 DEF Claimed, Seen
  <2>4. QED BY <2>2, <2>3
<1>4. AnswersOnRecord' /\ NoStrayUsers'
  BY DEF IInv, AnswersOnRecord, NoStrayUsers, vars
<1>5. QED BY <1>2, <1>3, <1>4 DEF IInv

LEMMA InvStep ==
    ASSUME IInv, [AllNext]_allVars
    PROVE  IInv'
<1>type. IdentityTypeOK /\ TypeOK /\ AcceptInv
  BY DEF IInv, IdentityTypeOK
<1>res. \A w \in Workers : Reserved(w) /\ Claimed(w)
  BY DEF IInv
<1>alone. \A w \in Workers : resolve[w].pc # "idle" => work[w] = Idle
  BY <1>type DEF IdentityTypeOK, Idle
<1>move. ASSUME NEW w \in Workers, NEW state,
                resolve' = [resolve EXCEPT ![w] = state]
         PROVE  /\ resolve'[w] = state
                /\ \A v \in Workers \ {w} : resolve'[v] = resolve[v]
  BY <1>move, <1>type DEF IdentityTypeOK
<1>idle. ASSUME NEW w \in Workers, ResolveBecome(w, Idle),
                UNCHANGED <<vars, identities, direct, answers>>
         PROVE  IInv'
  <2>1. resolve' = [resolve EXCEPT ![w] = Idle] /\ Idle \in Resolve
    BY <1>idle DEF ResolveBecome, Resolve
  <2>2. resolve'[w] = Idle
    BY <1>move, <2>1
  <2>3. Reserved(w)' /\ Claimed(w)'
    BY <2>2 DEF Reserved, Claimed, Drawn, Idle
  <2>4. Idle.pc = "idle"
    BY DEF Idle
  <2>5. QED BY <1>idle, <2>1, <2>3, <2>4, OneResolves
<1>1. CASE InviteStep
  BY <1>1, InviteStepKeeps
<1>2. ASSUME NEW u \in Users, CreateUser(u) PROVE IInv'
  <2>1. /\ u \notin users /\ u \notin OpenUsers /\ users' = users \cup {u}
        /\ direct' = direct \cup {u}
        /\ UNCHANGED <<clock, deleted, invites, accounts, lock, work>>
        /\ UNCHANGED <<identities, resolve, answers>>
    BY <1>2 DEF CreateUser, UnusedKey, FreshUser
  <2>2. TypeOK' /\ IdentityTypeOK'
    BY <1>type, <2>1 DEF TypeOK, IdentityTypeOK
  <2>3. AcceptInv'
    BY <1>type, <2>1, AcceptFrame
  <2>4. ASSUME NEW w \in Workers PROVE Reserved(w)' /\ Claimed(w)'
    <3>1. Drawn(w) => resolve[w].user \in OpenUsers
      BY DEF Drawn, OpenUsers
    <3>2. Reserved(w)'
      BY <1>res, <2>1, <3>1 DEF Reserved, Drawn
    <3>3. Claimed(w)'
      BY <1>res, <2>1 DEF Claimed, Seen
    <3>4. QED BY <3>2, <3>3
  <2>5. AnswersOnRecord' /\ NoStrayUsers'
    BY <2>1 DEF IInv, AnswersOnRecord, NoStrayUsers
  <2>6. QED BY <2>2, <2>3, <2>4, <2>5 DEF IInv
<1>3. ASSUME NEW w \in Workers, NEW s \in Subjects, EnsureSelect(w, s) PROVE IInv'
  <2>0. work[w] = Idle /\ UNCHANGED <<vars, identities, direct>>
    BY <1>3 DEF EnsureSelect
  <2>1. CASE Seen(s) /\ Answer(s, identities[s]) /\ UNCHANGED resolve
    <3>1. identities[s] \in Users /\ answers' = answers \cup {<<s, identities[s]>>}
      BY <2>1, <1>type DEF Seen, Answer, IdentityTypeOK
    <3>2. TypeOK' /\ AcceptInv'
      BY <1>type, <2>0, AcceptFrame DEF vars, TypeOK
    <3>3. IdentityTypeOK'
      BY <1>type, <2>0, <2>1, <3>1, <3>2 DEF IdentityTypeOK, vars
    <3>4. \A v \in Workers : Reserved(v)' /\ Claimed(v)'
      BY <1>res, <2>0, <2>1 DEF Reserved, Claimed, Drawn, Seen, vars
    <3>5. AnswersOnRecord'
      BY <2>0, <3>1 DEF IInv, AnswersOnRecord
    <3>6. NoStrayUsers'
      BY <2>0 DEF IInv, NoStrayUsers, vars
    <3>7. QED BY <3>2, <3>3, <3>4, <3>5, <3>6 DEF IInv
  <2>2. CASE ~Seen(s) /\ ResolveBecome(w, [pc |-> "unseen", subject |-> s])
             /\ UNCHANGED answers
    <3> DEFINE state == [pc |-> "unseen", subject |-> s]
    <3>1. /\ resolve' = [resolve EXCEPT ![w] = state] /\ state \in Resolve
          /\ state.pc = "unseen"
      BY <2>2 DEF ResolveBecome, Resolve
    <3> HIDE DEF state
    <3>2. resolve'[w] = state
      BY <1>move, <3>1
    <3>3. Reserved(w)' /\ Claimed(w)'
      BY <3>1, <3>2 DEF Reserved, Claimed, Drawn
    <3>4. QED BY <2>0, <2>2, <3>1, <3>3, OneResolves
  <2>3. QED BY <1>3, <2>1, <2>2 DEF EnsureSelect
<1>4. ASSUME NEW w \in Workers, NEW u \in Users, EnsureInsertUser(w, u) PROVE IInv'
  <2> DEFINE state == [pc |-> "user", subject |-> resolve[w].subject, user |-> u]
  <2>1. /\ resolve[w].pc = "unseen" /\ UnusedKey(u)
        /\ resolve' = [resolve EXCEPT ![w] = state]
        /\ UNCHANGED <<vars, identities, direct, answers>>
    BY <1>4 DEF EnsureInsertUser, ResolveBecome
  <2>2. state \in Resolve
    BY <2>1, <1>type, ResolveShape DEF Resolve
  <2>3. state.pc = "user" /\ state.user = u
    OBVIOUS
  <2> HIDE DEF state
  <2>4. resolve'[w] = state /\ \A v \in Workers \ {w} : resolve'[v] = resolve[v]
    BY <1>move, <2>1
  <2>5. /\ u \notin users
        /\ \A v \in Workers : /\ Drawn(v) => resolve[v].user # u
                              /\ work[v].pc \in {"user", "checked", "inserted"} =>
                                    work[v].user # u
    BY <2>1 DEF UnusedKey, FreshUser, OpenUsers, Drawn
  <2>6. Reserved(w)'
    BY <2>1, <2>3, <2>4, <2>5 DEF Reserved, Drawn, vars
  <2>7. Claimed(w)'
    BY <2>3, <2>4 DEF Claimed
  <2>8. QED BY <1>alone, <2>1, <2>2, <2>3, <2>5, <2>6, <2>7, OneResolves
<1>5. ASSUME NEW w \in Workers, EnsureInsertIdentity(w) PROVE IInv'
  <2>0. resolve[w].pc = "user" /\ UNCHANGED <<vars, identities, direct, answers>>
    BY <1>5 DEF EnsureInsertIdentity
  <2>1. CASE ResolveBecome(w, Idle)
    BY <2>0, <2>1, <1>idle
  <2>2. CASE ~IdentityAwaited(w) /\ ~Seen(resolve[w].subject)
             /\ resolve' = [resolve EXCEPT ![w].pc = "identity"]
    <3> DEFINE state == [resolve[w] EXCEPT !.pc = "identity"]
    <3>1. /\ state \in Resolve /\ state.pc = "identity"
          /\ state.subject = resolve[w].subject /\ state.user = resolve[w].user
      BY <2>0, <1>type, ResolveShape DEF Resolve
    <3>2. resolve' = [resolve EXCEPT ![w] = state]
      BY <2>2
    <3> HIDE DEF state
    <3>3. resolve'[w] = state /\ \A v \in Workers \ {w} : resolve'[v] = resolve[v]
      BY <1>move, <3>2
    <3>4. Reserved(w)'
      BY <1>res, <2>0, <3>1, <3>3 DEF Reserved, Drawn, vars
    <3>5. \A v \in Workers \ {w} : resolve[v].pc = "identity" =>
             resolve[v].subject # resolve[w].subject
      BY <2>2 DEF IdentityAwaited
    <3>6. Claimed(w)'
      BY <2>0, <2>2, <3>1, <3>3, <3>5 DEF Claimed, Seen
    <3>7. \A v \in Workers \ {w} : Drawn(v) => resolve[v].user # state.user
      BY <1>res, <2>0, <3>1 DEF Reserved, Drawn
    <3>8. QED BY <1>alone, <2>0, <3>1, <3>2, <3>4, <3>5, <3>6, <3>7, OneResolves
  <2>3. QED BY <1>5, <2>1, <2>2 DEF EnsureInsertIdentity
<1>6. ASSUME NEW w \in Workers, EnsureCommit(w) PROVE IInv'
  <2>1. resolve[w].pc = "identity" /\ resolve[w].subject \in Subjects
        /\ resolve[w].user \in Users
    BY <1>6, <1>type, ResolveShape DEF EnsureCommit
  <2>s. PICK s \in Subjects, u \in Users :
           s = resolve[w].subject /\ u = resolve[w].user
    BY <2>1
  <2>2. /\ users' = users \cup {u} /\ identities' = [identities EXCEPT ![s] = u]
        /\ answers' = answers \cup {<<s, u>>} \/ answers' = answers
        /\ resolve' = [resolve EXCEPT ![w] = Idle]
        /\ UNCHANGED <<clock, deleted, invites, accounts, lock, work, direct>>
    BY <1>6, <2>s DEF EnsureCommit, Answer, ResolveBecome
  <2>3. ~Seen(s) /\ identities'[s] = u
        /\ \A x \in Subjects \ {s} : identities'[x] = identities[x]
    BY <1>res, <1>type, <2>1, <2>2, <2>s DEF Claimed, IdentityTypeOK
  <2>4. /\ resolve'[w] = Idle /\ \A v \in Workers \ {w} : resolve'[v] = resolve[v]
    BY <1>move, <2>2
  <2>5. TypeOK' /\ AcceptInv'
    BY <1>type, <2>2, AcceptFrame DEF TypeOK
  <2>6. IdentityTypeOK'
    <3>1. Idle \in Resolve
      BY DEF Resolve
    <3>2. identities' \in [Subjects -> Users \cup {NoUser}]
          /\ resolve' \in [Workers -> Resolve]
          /\ direct' \subseteq users' /\ answers' \subseteq Subjects \X Users
      BY <1>type, <2>2, <3>1 DEF IdentityTypeOK
    <3>3. \A v \in Workers : work'[v] = Idle \/ resolve'[v] = Idle
      BY <1>type, <2>2, <2>4 DEF IdentityTypeOK
    <3>4. QED BY <2>5, <3>2, <3>3 DEF IdentityTypeOK
  <2>7. ASSUME NEW v \in Workers PROVE Reserved(v)' /\ Claimed(v)'
    <3>1. CASE v = w
      BY <2>4, <3>1 DEF Reserved, Claimed, Drawn, Idle
    <3>2. CASE v # w
      <4>1. Drawn(v) => resolve[v].user # u
        BY <1>res, <2>1, <2>s, <3>2 DEF Reserved, Drawn
      <4>2. Reserved(v)'
        BY <1>res, <2>2, <2>4, <3>2, <4>1 DEF Reserved, Drawn, Idle
      <4>3. resolve[v].pc = "identity" =>
               resolve[v].subject # s /\ resolve[v].subject \in Subjects
        BY <1>res, <1>type, <2>1, <2>s, <3>2, ResolveShape DEF Claimed
      <4>4. Claimed(v)'
        BY <1>res, <2>3, <2>4, <3>2, <4>3 DEF Claimed, Seen, Idle
      <4>5. QED BY <4>2, <4>4
    <3>3. QED BY <3>1, <3>2
  <2>8. AnswersOnRecord'
    <3>1. \A p \in answers : p[1] \in Subjects /\ p[2] \in Users
      BY <1>type DEF IdentityTypeOK
    <3>2. \A p \in answers : p[1] # s
      BY <2>3, <3>1, UsersAssumption DEF IInv, AnswersOnRecord, Seen
    <3>3. \A p \in answers : identities'[p[1]] = p[2]
      BY <2>3, <3>1, <3>2 DEF IInv, AnswersOnRecord
    <3>4. QED BY <2>2, <2>3, <3>3 DEF AnswersOnRecord
  <2>9. NoStrayUsers'
    <3> SUFFICES ASSUME NEW x \in users' \ direct
                 PROVE  \/ \E y \in Subjects : identities'[y] = x
                        \/ \E a \in accounts : a.user = x
      BY <2>2 DEF NoStrayUsers
    <3>1. CASE x = u
      BY <2>3, <3>1
    <3>2. CASE x \in users
      <4>1. \A y \in Subjects : identities[y] = x => y # s
        BY <1>type, <2>3, <3>2, UsersAssumption DEF Seen, TypeOK
      <4>2. QED BY <2>3, <3>2, <4>1 DEF IInv, NoStrayUsers
    <3>3. QED BY <2>2, <3>1, <3>2
  <2>10. QED BY <2>5, <2>6, <2>7, <2>8, <2>9 DEF IInv
<1>7. ASSUME NEW w \in Workers, EnsureAbort(w) PROVE IInv'
  BY <1>7, <1>idle DEF EnsureAbort
<1>8. CASE UNCHANGED allVars
  <2>1. UNCHANGED <<clock, users, deleted, invites, accounts, lock, work>>
        /\ UNCHANGED <<identities, resolve, direct, answers>>
    BY <1>8 DEF allVars, vars, identityVars
  <2>2. TypeOK' /\ IdentityTypeOK'
    BY <1>type, <2>1 DEF TypeOK, IdentityTypeOK
  <2>3. AcceptInv'
    BY <1>type, <2>1, AcceptFrame
  <2>4. \A v \in Workers : Reserved(v)' /\ Claimed(v)'
    BY <1>res, <2>1 DEF Reserved, Claimed, Drawn, Seen
  <2>5. AnswersOnRecord' /\ NoStrayUsers'
    BY <2>1 DEF IInv, AnswersOnRecord, NoStrayUsers
  <2>6. QED BY <2>2, <2>3, <2>4, <2>5 DEF IInv
<1>9. QED
  BY <1>1, <1>2, <1>3, <1>4, <1>5, <1>6, <1>7, <1>8 DEF AllNext

LEMMA InvHolds == AllSpec => []IInv
<1>1. IInv /\ [AllNext]_allVars => IInv'
  BY InvStep
<1>2. QED BY <1>1, InvInit, PTL DEF AllSpec

(* Rows and transactions keep their shape, and a goroutine is in one       *)
(* transaction at a time.                                                  *)
THEOREM IdentityTypeCorrect == AllSpec => []IdentityTypeOK
<1>1. IInv => IdentityTypeOK
  BY DEF IInv
<1>2. QED BY <1>1, InvHolds, PTL

(* Whatever fails or races, an invite is used up if and only if it has     *)
(* given one account, of its own email and role.                           *)
THEOREM AcceptanceAtomicHolds == AllSpec => []AcceptanceAtomic
<1>1. IInv => AcceptanceAtomic
  BY AtomicFromGivesOne DEF IInv, AcceptInv
<1>2. QED BY <1>1, InvHolds, PTL

(* All requests of a subject that are let in act as the same user. *)
THEOREM SubjectHasOneUserHolds == AllSpec => []SubjectHasOneUser
<1>1. IInv => SubjectHasOneUser
  BY DEF IInv, AnswersOnRecord, SubjectHasOneUser
<1>2. QED BY <1>1, InvHolds, PTL

(* Only three steps of the invites change what the mapping reads. *)
LEMMA InviteStepsThatCount ==
    ASSUME Next
    PROVE  \/ \E u \in Users : DeleteUser(u)
           \/ \E i \in Invites, inviter \in Users, e \in Emails, r \in Roles,
                 u \in Users \cup {NoUser} : CreateOperatorInvite(i, inviter, e, r, u)
           \/ \E w \in Workers : AcceptCommit(w)
           \/ UNCHANGED <<users, deleted, invites, accounts>>
BY DEF Next, Tick, AcceptSelect, Proceed, AcceptRefuse, AcceptConflict,
   AcceptDuplicate, Abort, Rollback, AcceptRole, AcceptUser, AcceptCheck,
   AcceptInsert

(* A users row nobody asked for directly has an identity or an account. *)
THEOREM NoStrayUsersHolds == AllSpec => []NoStrayUsers
<1>1. IInv => NoStrayUsers
  BY DEF IInv
<1>2. QED BY <1>1, InvHolds, PTL

--------------------------------------------------------------------------------
(* What a deletion can meet.  The user an acceptance works for is the one  *)
(* its invite names, or a new one, which is in no table and in no other    *)
(* hands.  What an acceptance has noted about its user when it inserted    *)
(* the account is still true: a deletion waits for it.                     *)
HasUser(w) == work[w].pc \in {"user", "checked", "inserted"}

Named(w) ==
    HasUser(w) =>
       IF Invited(w).linked = NoUser THEN work[w].user \notin users
       ELSE work[w].user = Invited(w).linked

NewApart(v, w) ==
    v # w /\ HasUser(v) /\ HasUser(w) /\ Invited(w).linked = NoUser =>
       work[v].user # work[w].user

LateRight(w) ==
    work[w].pc = "inserted" => (work[w].late <=> work[w].user \in deleted)

LinkedExist ==
    \A i \in Invites : Exists(i) => invites[i].linked \in users \cup {NoUser}

LateInvited == \A a \in accounts : a.late => a.invite \in Invites

SuspendInv ==
    /\ LinkedExist /\ LateInvited /\ DeletionSuspends
    /\ \A w \in Workers : Named(w) /\ LateRight(w)
    /\ \A v, w \in Workers : NewApart(v, w)

LEMMA SuspendInit == AllInit => SuspendInv
<1> SUFFICES ASSUME AllInit PROVE SuspendInv
  OBVIOUS
<1>1. LinkedExist /\ LateInvited /\ DeletionSuspends
  BY DEF AllInit, Init, LinkedExist, LateInvited, DeletionSuspends, Exists,
         FounderAccount
<1>2. \A w \in Workers : work[w].pc = "idle"
  BY DEF AllInit, Init, Idle
<1>3. QED BY <1>1, <1>2 DEF SuspendInv, Named, LateRight, NewApart, HasUser

(* Invites stay, and keep the user they name. *)
LEMMA LinkedKept ==
    ASSUME TypeOK, AcceptInv, Next
    PROVE  \A i \in Invites :
              /\ Exists(i) => Exists(i)' /\ invites'[i].linked = invites[i].linked
              /\ Exists(i)' => Exists(i) \/ invites'[i].linked \in users \cup {NoUser}
<1>1. CASE UNCHANGED invites
  BY <1>1 DEF Exists
<1>2. ASSUME NEW i \in Invites, NEW inviter, NEW e, NEW r, NEW u,
             CreateOperatorInvite(i, inviter, e, r, u)
      PROVE  \A j \in Invites :
                /\ Exists(j) => Exists(j)' /\ invites'[j].linked = invites[j].linked
                /\ Exists(j)' => \/ Exists(j)
                                 \/ invites'[j].linked \in users \cup {NoUser}
  <2>1. /\ ~Exists(i) /\ u \in users \cup {NoUser}
        /\ invites'[i].linked = u
        /\ \A j \in Invites \ {i} : invites'[j] = invites[j]
    BY <1>2 DEF CreateOperatorInvite, TypeOK
  <2>2. QED BY <2>1 DEF Exists
<1>3. ASSUME NEW w \in Workers, AcceptCommit(w)
      PROVE  \A j \in Invites :
                /\ Exists(j)' <=> Exists(j)
                /\ Exists(j) => invites'[j].linked = invites[j].linked
  <2>1. work[w].id \in Invites /\ Exists(work[w].id)
    BY <1>3, WorkShape DEF AcceptCommit, AcceptInv, Holding
  <2>2. PICK i \in Invites : i = work[w].id /\ Exists(i) /\ invites[i] \in Invite
    BY <2>1, InviteShape
  <2>3. invites' = [invites EXCEPT ![i].consumed = TRUE]
    BY <1>3, <2>2 DEF AcceptCommit
  <2>4. /\ invites'[i].linked = invites[i].linked /\ invites'[i] # NoInvite
        /\ \A j \in Invites \ {i} : invites'[j] = invites[j]
    BY <2>2, <2>3 DEF TypeOK, Invite, NoInvite
  <2>5. QED BY <2>2, <2>4 DEF Exists
<1>4. QED BY <1>1, <1>2, <1>3, InviteStepsThatCount DEF DeleteUser

(* An account is inserted in one step only. *)
LEMMA InsertedOnce ==
    ASSUME TypeOK, Next, NEW v \in Workers, work'[v].pc = "inserted"
    PROVE  AcceptInsert(v) \/ work'[v] = work[v]
<1>move. ASSUME NEW w \in Workers, NEW state, work' = [work EXCEPT ![w] = state]
         PROVE  work'[v] = work[v] \/ (v = w /\ work'[v] = state)
  BY <1>move DEF TypeOK
<1>1. CASE Tick \/ \E u \in Users : DeleteUser(u)
  BY <1>1 DEF Tick, DeleteUser
<1>2. ASSUME NEW i, NEW inviter, NEW e, NEW r, NEW u,
             CreateOperatorInvite(i, inviter, e, r, u)
      PROVE  work'[v] = work[v]
  BY <1>2 DEF CreateOperatorInvite
<1>3. ASSUME NEW w \in Workers, Rollback(w) \/ AcceptCommit(w)
      PROVE  work'[v] = work[v]
  BY <1>3, <1>move DEF Rollback, AcceptCommit, Become, Idle
<1>4. ASSUME NEW w \in Workers, NEW i, NEW e, AcceptSelect(w, i, e)
      PROVE  work'[v] = work[v]
  BY <1>4, <1>move DEF AcceptSelect, Become
<1>5. ASSUME NEW w \in Workers, AcceptRole(w) \/ AcceptCheck(w)
      PROVE  work'[v] = work[v]
  BY <1>5, <1>move DEF AcceptRole, AcceptCheck, Become
<1>6. ASSUME NEW w \in Workers, NEW u, AcceptUser(w, u) PROVE work'[v] = work[v]
  BY <1>6, <1>move DEF AcceptUser, Become
<1>7. ASSUME NEW w \in Workers, AcceptInsert(w)
      PROVE  AcceptInsert(v) \/ work'[v] = work[v]
  BY <1>7, <1>move DEF AcceptInsert, Become
<1>8. QED
  BY <1>1, <1>2, <1>3, <1>4, <1>5, <1>6, <1>7
     DEF Next, Proceed, AcceptRefuse, AcceptConflict, AcceptDuplicate, Abort

(* A step of the invites. *)
LEMMA SuspendInviteStep ==
    ASSUME TypeOK, AcceptInv, SuspendInv, Next
    PROVE  SuspendInv'
<1>hold. \A w \in Workers : HasUser(w) =>
            work[w].id \in Invites /\ Exists(work[w].id) /\ work[w] # Idle
  BY WorkShape DEF HasUser, AcceptInv, Holding, Idle
<1>inv. \A w \in Workers : HasUser(w) =>
           invites'[work[w].id].linked = Invited(w).linked
  BY <1>hold, LinkedKept DEF Invited
<1>old. \A w \in Workers : HasUser(w)' =>
           \/ \E u \in Users : AcceptUser(w, u)
           \/ /\ HasUser(w) /\ work'[w].user = work[w].user
              /\ work'[w].id = work[w].id /\ Invited(w)'.linked = Invited(w).linked
  BY <1>inv, UserOfAcceptance DEF HasUser, Invited
<1>draw. ASSUME NEW w \in Workers, NEW u \in Users, AcceptUser(w, u)
         PROVE  /\ work'[w].user = u /\ Invited(w)' = Invited(w) /\ ~HasUser(w)
                /\ \A v \in Workers \ {w} : work'[v] = work[v]
                /\ UNCHANGED <<users, deleted, invites, accounts>>
                /\ Invited(w).linked = NoUser =>
                      /\ u \notin users
                      /\ \A v \in Workers : HasUser(v) => work[v].user # u
                /\ Invited(w).linked # NoUser =>
                      u = Invited(w).linked /\ u \in users
  <2>1. /\ work[w].pc = "role"
        /\ work' = [work EXCEPT ![w] = [pc |-> "user", id |-> work[w].id,
                                        seen |-> work[w].seen, user |-> u]]
        /\ UNCHANGED <<users, deleted, invites, accounts>>
        /\ IF Invited(w).linked # NoUser THEN u = Invited(w).linked ELSE FreshUser(u)
    BY <1>draw DEF AcceptUser, Become
  <2>2. work'[w].user = u /\ work'[w].id = work[w].id
        /\ \A v \in Workers \ {w} : work'[v] = work[v]
    BY <2>1 DEF TypeOK
  <2>3. Exists(work[w].id) /\ work[w].id \in Invites
    BY <2>1, WorkShape DEF AcceptInv, Holding, Idle
  <2>4. Invited(w).linked \in users \cup {NoUser}
    BY <2>3 DEF SuspendInv, LinkedExist, Invited
  <2>5. QED BY <2>1, <2>2, <2>4 DEF HasUser, FreshUser, Invited
<1>grow. users \subseteq users' /\ deleted \subseteq users
  BY UsersOfInvites DEF TypeOK
<1>1. LinkedExist'
  BY <1>grow, LinkedKept DEF SuspendInv, LinkedExist
<1>2. ASSUME NEW w \in Workers PROVE Named(w)'
  <2> SUFFICES ASSUME HasUser(w)'
               PROVE  IF Invited(w)'.linked = NoUser THEN work'[w].user \notin users'
                      ELSE work'[w].user = Invited(w)'.linked
    BY DEF Named
  <2>1. CASE \E u \in Users : AcceptUser(w, u)
    BY <2>1, <1>draw
  <2>2. CASE /\ HasUser(w) /\ work'[w].user = work[w].user
             /\ work'[w].id = work[w].id /\ Invited(w)'.linked = Invited(w).linked
    <3>1. Named(w)
      BY DEF SuspendInv
    <3>2. CASE UNCHANGED users
      BY <2>2, <3>1, <3>2 DEF Named
    <3>3. ASSUME NEW x \in Workers, AcceptCommit(x)
          PROVE  Invited(w).linked = NoUser => work[w].user \notin users'
      <4>1. /\ work'[x] = Idle /\ users' = users \cup {work[x].user} /\ HasUser(x)
        BY <3>3 DEF AcceptCommit, Become, TypeOK, HasUser
      <4>2. x # w
        BY <4>1 DEF HasUser, Idle
      <4>3. QED BY <2>2, <3>1, <4>1, <4>2 DEF SuspendInv, NewApart, Named
    <3>4. QED BY <2>2, <3>1, <3>2, <3>3, InviteStepsThatCount
              DEF Named, DeleteUser, CreateOperatorInvite
  <2>3. QED BY <2>1, <2>2, <1>old
<1>3. ASSUME NEW w \in Workers PROVE LateRight(w)'
  <2> SUFFICES ASSUME work'[w].pc = "inserted"
               PROVE  work'[w].late <=> work'[w].user \in deleted'
    BY DEF LateRight
  <2>1. CASE AcceptInsert(w)
    BY <2>1 DEF AcceptInsert, Become, Inserted, TypeOK
  <2>2. CASE work'[w] = work[w]
    <3>1. LateRight(w)
      BY DEF SuspendInv
    <3>2. ASSUME NEW u \in Users, DeleteUser(u)
          PROVE  work[w].user \in deleted' <=> work[w].user \in deleted
      BY <2>2, <3>2 DEF DeleteUser
    <3>3. QED BY <2>2, <3>1, <3>2, InviteStepsThatCount
              DEF LateRight, CreateOperatorInvite, AcceptCommit
  <2>3. QED BY <2>1, <2>2, InsertedOnce
<1>4. ASSUME NEW v \in Workers, NEW w \in Workers PROVE NewApart(v, w)'
  <2> SUFFICES ASSUME v # w, HasUser(v)', HasUser(w)', Invited(w)'.linked = NoUser
               PROVE  work'[v].user # work'[w].user
    BY DEF NewApart
  <2>1. CASE \E u \in Users : AcceptUser(v, u)
    <3>1. PICK u \in Users : AcceptUser(v, u)
      BY <2>1
    <3>2. /\ work'[w] = work[w] /\ work'[v].user = u /\ HasUser(w)
          /\ Invited(w).linked = NoUser
      BY <3>1, <1>draw DEF HasUser, Invited
    <3>3. Named(w)
      BY DEF SuspendInv
    <3>4. QED BY <3>1, <3>2, <3>3, <1>draw DEF Named
  <2>2. CASE \E u \in Users : AcceptUser(w, u)
    <3>1. PICK u \in Users : AcceptUser(w, u)
      BY <2>2
    <3>2. work'[v] = work[v] /\ work'[w].user = u /\ HasUser(v)
          /\ Invited(w).linked = NoUser
      BY <3>1, <1>draw DEF HasUser
    <3>3. QED BY <3>1, <3>2, <1>draw
  <2>3. CASE /\ HasUser(v) /\ work'[v].user = work[v].user
             /\ HasUser(w) /\ work'[w].user = work[w].user
             /\ Invited(w)'.linked = Invited(w).linked
    BY <2>3 DEF SuspendInv, NewApart
  <2>4. QED BY <2>1, <2>2, <2>3, <1>old
<1>5. LateInvited' /\ DeletionSuspends'
  <2>late. \A a \in accounts : a.late =>
              /\ a.invite \in Invites /\ Exists(a.invite)
              /\ invites'[a.invite].linked = invites[a.invite].linked
    <3> SUFFICES ASSUME NEW a \in accounts, a.late
                 PROVE  /\ a.invite \in Invites /\ Exists(a.invite)
                        /\ invites'[a.invite].linked = invites[a.invite].linked
      OBVIOUS
    <3>1. a.invite \in Invites
      BY DEF SuspendInv, LateInvited
    <3>2. a \in From(a.invite) /\ GivesOne(a.invite)
      BY <3>1 DEF From, AcceptInv
    <3>3. Exists(a.invite)
      BY <3>2 DEF GivesOne
    <3>4. QED BY <3>1, <3>3, LinkedKept
  <2>1. CASE UNCHANGED <<deleted, accounts>>
    BY <2>1, <2>late DEF SuspendInv, LateInvited, DeletionSuspends
  <2>2. ASSUME NEW u \in Users, DeleteUser(u)
        PROVE  LateInvited' /\ DeletionSuspends'
    <3>1. /\ accounts' = {Suspend(a, u) : a \in accounts} /\ accounts \subseteq Account
          /\ deleted' = deleted \cup {u}
      BY <2>2, DeleteSuspends DEF DeleteUser, TypeOK
    <3>2. LateInvited'
      BY <3>1, SuspendKeeps DEF SuspendInv, LateInvited
    <3>3. ASSUME NEW b \in accounts', b.user \in deleted', b.status = "active"
          PROVE  b.late /\ invites'[b.invite].linked = b.user
      <4>1. PICK a \in accounts : b = Suspend(a, u)
        BY <3>1
      <4>2. a.user # u /\ b = a
        BY <3>1, <3>3, <4>1, SuspendKeeps
      <4>3. QED BY <3>1, <3>3, <4>1, <4>2, <2>late DEF SuspendInv, DeletionSuspends
    <3>4. QED BY <3>2, <3>3 DEF DeletionSuspends
  <2>3. ASSUME NEW w \in Workers, AcceptCommit(w)
        PROVE  LateInvited' /\ DeletionSuspends'
    <3>1. /\ work[w].pc = "inserted" /\ HasUser(w) /\ work[w].id \in Invites
          /\ Named(w) /\ LateRight(w)
      BY <2>3, <1>hold DEF AcceptCommit, HasUser, SuspendInv
    <3>n. PICK new : new = NewAccount(w)
      OBVIOUS
    <3>2. accounts' = accounts \cup {new} /\ UNCHANGED deleted
      BY <2>3, <3>n DEF AcceptCommit
    <3>3. /\ new.invite = work[w].id /\ new.user = work[w].user
          /\ new.late = work[w].late
      BY <3>1, <3>n, NewAccountShape DEF AcceptInv
    <3>4. LateInvited'
      BY <3>1, <3>2, <3>3 DEF SuspendInv, LateInvited
    <3>5. new.user \in deleted => new.late /\ invites'[new.invite].linked = new.user
      BY <3>1, <3>3, <1>grow, <1>inv DEF Named, LateRight
    <3>6. QED BY <3>2, <3>4, <3>5, <2>late DEF SuspendInv, DeletionSuspends
  <2>4. QED BY <2>1, <2>2, <2>3, InviteStepsThatCount DEF CreateOperatorInvite
<1>6. QED BY <1>1, <1>2, <1>3, <1>4, <1>5 DEF SuspendInv

(* Everything else only adds users whose ids no acceptance has drawn. *)
LEMMA SuspendFrame ==
    ASSUME SuspendInv, UNCHANGED <<deleted, invites, accounts, work>>,
           users \subseteq users',
           \A w \in Workers : HasUser(w) /\ work[w].user \in users' =>
              work[w].user \in users
    PROVE  SuspendInv'
<1>1. LinkedExist' /\ LateInvited' /\ DeletionSuspends'
  BY DEF SuspendInv, LinkedExist, LateInvited, DeletionSuspends, Exists
<1>2. \A w \in Workers : Named(w)' /\ LateRight(w)'
  BY DEF SuspendInv, Named, LateRight, HasUser, Invited
<1>3. \A v, w \in Workers : NewApart(v, w)'
  BY DEF SuspendInv, NewApart, HasUser, Invited
<1>4. QED BY <1>1, <1>2, <1>3 DEF SuspendInv

LEMMA SuspendStep ==
    ASSUME IInv, SuspendInv, [AllNext]_allVars
    PROVE  SuspendInv'
<1>1. CASE InviteStep
  BY <1>1, SuspendInviteStep DEF InviteStep, IInv, IdentityTypeOK
<1>2. ASSUME NEW u \in Users, CreateUser(u) PROVE SuspendInv'
  BY <1>2, SuspendFrame DEF CreateUser, UnusedKey, FreshUser, HasUser
<1>3. ASSUME NEW w \in Workers, EnsureCommit(w) PROVE SuspendInv'
  <2>1. /\ resolve[w].pc = "identity" /\ users' = users \cup {resolve[w].user}
        /\ UNCHANGED <<deleted, invites, accounts, work>>
    BY <1>3 DEF EnsureCommit
  <2>2. \A v \in Workers : HasUser(v) => work[v].user # resolve[w].user
    BY <2>1 DEF IInv, Reserved, Drawn, HasUser
  <2>3. QED BY <2>1, <2>2, SuspendFrame
<1>4. ASSUME NEW w \in Workers,
             \/ \E s \in Subjects : EnsureSelect(w, s)
             \/ \E u \in Users : EnsureInsertUser(w, u)
             \/ EnsureInsertIdentity(w) \/ EnsureAbort(w)
      PROVE  SuspendInv'
  BY <1>4, SuspendFrame DEF EnsureSelect, EnsureInsertUser, EnsureInsertIdentity,
     EnsureAbort, vars
<1>5. CASE UNCHANGED allVars
  BY <1>5, SuspendFrame DEF allVars, vars
<1>6. QED BY <1>1, <1>2, <1>3, <1>4, <1>5 DEF AllNext

(* A deletion suspends every account it can meet, also one that is just    *)
(* being inserted: an active account of a deleted user was inserted after  *)
(* the deletion, by an invite that names the user.                         *)
THEOREM DeletionSuspendsHolds == AllSpec => []DeletionSuspends
<1>1. IInv /\ SuspendInv /\ [AllNext]_allVars => SuspendInv'
  BY SuspendStep
<1>2. SuspendInv => DeletionSuspends
  BY DEF SuspendInv
<1>3. QED BY <1>1, <1>2, SuspendInit, InvHolds, PTL DEF AllSpec

--------------------------------------------------------------------------------
(* The abstract state, as the refinement mapping reads it off the tables. *)
Offers == [i \in Invites |-> IF ~Exists(i) THEN "absent"
                             ELSE IF invites[i].consumed THEN "taken" ELSE "open"]
Holder(a) == [email |-> a.email, user |-> a.user, status |-> a.status]
Holders == {Holder(a) : a \in accounts}

(* Transactions that lock, read snapshots, wait, fail and roll back come   *)
(* to the same as joining, enrolling and removing at one stroke.           *)
THEOREM ImplementsDirectoryHolds == AllSpec => ImplementsDirectory
<1>1. AllInit => Abstract!DirInit
  <2> SUFFICES ASSUME AllInit PROVE Abstract!DirInit
    OBVIOUS
  <2>1. /\ users \subseteq Users /\ Founder \in users /\ deleted = {}
        /\ invites = [i \in Invites |-> NoInvite]
        /\ accounts = {FounderAccount} /\ identities = [s \in Subjects |-> NoUser]
    BY DEF AllInit, Init
  <2>2. Offers = [i \in Invites |-> "absent"]
    BY <2>1 DEF Offers, Exists
  <2>3. Holders \in SUBSET [email : Emails, user : users, status : {"active"}]
    <3>1. Holder(FounderAccount)
             \in [email : Emails, user : users, status : {"active"}]
      BY <2>1, EmailsAssumption DEF Holder, FounderAccount
    <3>2. QED BY <2>1, <3>1 DEF Holders
  <2>4. QED BY <2>1, <2>2, <2>3 DEF Abstract!DirInit, Offers, Holders, Holder
<1>2. IInv /\ [AllNext]_allVars => [Abstract!DirNext]_(Abstract!dirVars)
  <2> SUFFICES ASSUME IInv, [AllNext]_allVars
               PROVE  Abstract!DirNext \/ UNCHANGED Abstract!dirVars
    OBVIOUS
  <2>type. IdentityTypeOK /\ TypeOK /\ AcceptInv
    BY DEF IInv, IdentityTypeOK
  <2>same. ASSUME UNCHANGED <<invites, accounts>>
           PROVE  Offers' = Offers /\ Holders' = Holders
    BY <2>same DEF Offers, Holders, Exists
  <2>still. ASSUME UNCHANGED <<users, deleted, invites, accounts, identities>>
            PROVE  UNCHANGED Abstract!dirVars
    BY <2>still, <2>same DEF Abstract!dirVars, Offers, Holders, Holder
  <2>1. ASSUME NEW u \in Users, DeleteUser(u), UNCHANGED identities
        PROVE  Abstract!DirNext
    <3>1. /\ u \in users \ deleted /\ deleted' = deleted \cup {u}
          /\ UNCHANGED <<users, invites>>
      BY <2>1 DEF DeleteUser
    <3>2. Offers' = Offers
      BY <3>1 DEF Offers, Exists
    <3>3. accounts' = {Suspend(a, u) : a \in accounts}
      BY <2>1, DeleteSuspends
    <3>4. ASSUME NEW a \in accounts
          PROVE  Holder(Suspend(a, u)) =
                    IF Holder(a).user = u
                    THEN [Holder(a) EXCEPT !.status = "suspended"] ELSE Holder(a)
      <4>1. a \in Account
        BY <2>type DEF TypeOK
      <4>2. QED BY <4>1 DEF Holder, Suspend, Account
    <3>5. Holders' = {IF h.user = u THEN [h EXCEPT !.status = "suspended"] ELSE h :
                        h \in Holders}
      BY <3>3, <3>4 DEF Holders
    <3>6. Abstract!Remove(u)
      BY <2>1, <3>1, <3>2, <3>5 DEF Abstract!Remove, Offers, Holders, Holder
    <3>7. QED BY <2>1, <3>6 DEF Abstract!DirNext
  <2>2. ASSUME NEW i \in Invites, NEW inviter \in Users, NEW e \in Emails,
               NEW r \in Roles, NEW u \in Users \cup {NoUser},
               CreateOperatorInvite(i, inviter, e, r, u), UNCHANGED identities
        PROVE  Abstract!DirNext
    <3> DEFINE new == [email |-> e, role |-> r, linked |-> u,
                       expires |-> clock + InviteTTL, consumed |-> FALSE]
    <3>1. /\ ~Exists(i) /\ invites' = [invites EXCEPT ![i] = new]
          /\ UNCHANGED <<users, deleted, accounts>>
      BY <2>2 DEF CreateOperatorInvite
    <3>2. ~new.consumed /\ new # NoInvite
      BY DEF NoInvite
    <3> HIDE DEF new
    <3>3. Offers[i] = "absent" /\ Offers' = [Offers EXCEPT ![i] = "open"]
      BY <2>type, <3>1, <3>2 DEF Offers, Exists, TypeOK
    <3>4. Holders' = Holders
      BY <3>1 DEF Holders
    <3>5. Abstract!Offer(i)
      BY <2>2, <3>1, <3>3, <3>4 DEF Abstract!Offer, Offers, Holders, Holder
    <3>6. QED BY <3>5 DEF Abstract!DirNext
  <2>3. ASSUME NEW w \in Workers, AcceptCommit(w), UNCHANGED identities
        PROVE  Abstract!DirNext
    <3>1. /\ work[w].pc = "inserted" /\ Holding(w)
          /\ work[w].id \in Invites /\ work[w].user \in Users
      BY <2>3, <2>type, WorkShape DEF AcceptCommit, AcceptInv
    <3>2. PICK i \in Invites, u \in Users : i = work[w].id /\ u = work[w].user
      BY <3>1
    <3>3. Exists(i) /\ ~invites[i].consumed /\ invites[i] \in Invite /\ ~KeyTaken(w)
      BY <3>1, <3>2, <2>type, InviteShape DEF Holding, Invited, Idle
    <3>4. PICK e \in Emails : e = invites[i].email
      BY <3>3 DEF Invite
    <3>5. PICK new : new = NewAccount(w)
      OBVIOUS
    <3>6. /\ accounts' = accounts \cup {new} /\ users' = users \cup {u}
          /\ invites' = [invites EXCEPT ![i].consumed = TRUE]
          /\ UNCHANGED deleted
      BY <2>3, <3>2, <3>5 DEF AcceptCommit
    <3>7. Holder(new) = [email |-> e, user |-> u, status |-> "active"]
      BY <3>1, <3>2, <3>4, <3>5, <2>type, NewAccountShape DEF Holder, Invited
    <3>8. Holders' = Holders \cup {[email |-> e, user |-> u, status |-> "active"]}
      BY <3>6, <3>7 DEF Holders
    <3>9. \A h \in Holders : h.email # e /\ h.user # u
      BY <3>2, <3>3, <3>4 DEF KeyTaken, SameKey, Invited, Holders, Holder
    <3>10. Offers[i] = "open" /\ Offers' = [Offers EXCEPT ![i] = "taken"]
      <4>1. /\ invites'[i].consumed /\ invites'[i] # NoInvite
            /\ \A j \in Invites \ {i} : invites'[j] = invites[j]
        BY <2>type, <3>3, <3>6 DEF TypeOK, Invite, NoInvite
      <4>2. Offers[i] = "open"
        BY <3>3 DEF Offers, Exists
      <4>3. \A j \in Invites : Offers'[j] = IF j = i THEN "taken" ELSE Offers[j]
        BY <4>1 DEF Offers, Exists
      <4>4. Offers' = [j \in Invites |-> Offers'[j]]
        BY DEF Offers
      <4>5. [Offers EXCEPT ![i] = "taken"] =
               [j \in Invites |-> IF j = i THEN "taken" ELSE Offers[j]]
        BY DEF Offers
      <4>6. QED BY <4>2, <4>3, <4>4, <4>5
    <3>11. Abstract!Join(i, e, u)
      BY <2>3, <3>6, <3>8, <3>9, <3>10 DEF Abstract!Join, Offers, Holders, Holder
    <3>12. QED BY <3>11 DEF Abstract!DirNext
  <2>4. CASE InviteStep
    <3>1. Next /\ UNCHANGED identities
      BY <2>4 DEF InviteStep, identityVars
    <3>2. QED BY <3>1, <2>still, <2>1, <2>2, <2>3, InviteStepsThatCount
  <2>5. ASSUME NEW u \in Users, CreateUser(u) PROVE Abstract!DirNext
    <3>1. /\ u \notin users /\ users' = users \cup {u}
          /\ UNCHANGED <<deleted, invites, accounts, identities>>
      BY <2>5 DEF CreateUser, UnusedKey, FreshUser
    <3>2. Abstract!Create(u)
      BY <3>1, <2>same DEF Abstract!Create, Offers, Holders, Holder
    <3>3. QED BY <3>2 DEF Abstract!DirNext
  <2>6. ASSUME NEW w \in Workers, EnsureCommit(w) PROVE Abstract!DirNext
    <3>1. /\ resolve[w].pc = "identity" /\ resolve[w].subject \in Subjects
          /\ resolve[w].user \in Users
      BY <2>6, <2>type, ResolveShape DEF EnsureCommit
    <3>2. PICK s \in Subjects, u \in Users :
             s = resolve[w].subject /\ u = resolve[w].user
      BY <3>1
    <3>3. /\ users' = users \cup {u} /\ identities' = [identities EXCEPT ![s] = u]
          /\ UNCHANGED <<deleted, invites, accounts>>
      BY <2>6, <3>2 DEF EnsureCommit
    <3>4. Reserved(w) /\ Claimed(w)
      BY DEF IInv
    <3>5. u \notin users /\ identities[s] = NoUser
      BY <3>1, <3>2, <3>4 DEF Reserved, Claimed, Drawn, Seen
    <3>6. Abstract!Enroll(s, u)
      BY <3>3, <3>5, <2>same DEF Abstract!Enroll, Offers, Holders, Holder
    <3>7. QED BY <3>6 DEF Abstract!DirNext
  <2>7. ASSUME NEW w \in Workers,
               \/ \E s \in Subjects : EnsureSelect(w, s)
               \/ \E u \in Users : EnsureInsertUser(w, u)
               \/ EnsureInsertIdentity(w) \/ EnsureAbort(w)
        PROVE  UNCHANGED Abstract!dirVars
    BY <2>7, <2>still DEF EnsureSelect, EnsureInsertUser, EnsureInsertIdentity,
       EnsureAbort, vars
  <2>8. CASE UNCHANGED allVars
    BY <2>8, <2>still DEF allVars, vars, identityVars
  <2>9. QED BY <2>4, <2>5, <2>6, <2>7, <2>8 DEF AllNext
<1>3. QED
  BY <1>1, <1>2, InvHolds, PTL DEF AllSpec, ImplementsDirectory, Abstract!DirSpec
================================================================================
