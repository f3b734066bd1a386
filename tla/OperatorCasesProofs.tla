-------------------------- MODULE OperatorCasesProofs --------------------------
(***************************************************************************)
(* Proofs about operator cases, for any operators, cases, bodies and       *)
(* number of requests in flight.  No handler holds a lock between its      *)
(* statements, so the invariant says what a request may still rely on: the *)
(* key it was given, the subject it has loaded, the row it has inserted    *)
(* and is about to name in the audit trail.                                *)
(***************************************************************************)
EXTENDS OperatorCases, TLAPS

Allowed(u, kind) == HasPermission(RolesOf[u], RoutePermission(kind))

(* r is the record a request w, or an event w, speaks of. *)
Same(r, kind, id, actor) == r.kind = kind /\ r.id = id /\ r.actor = actor

(* What a request in flight relies on. *)
Grounded(w) ==
    work[w].pc # "idle" =>
       /\ Allowed(work[w].user, work[w].kind)
       /\ work[w].kind \notin RecordKinds => work[w].ref = 0
       /\ work[w].kind = "create" /\ work[w].pc \in {"handler", "insert"} =>
             ~Exists(work[w].id) /\ work[w].subject \in Users
       /\ work[w].kind \in RecordKinds /\ work[w].pc = "insert" =>
             Exists(work[w].id) /\ work[w].subject = cases[work[w].id].subject
       /\ work[w].kind \in RecordKinds /\ work[w].pc = "audit" =>
             /\ work[w].ref \in DOMAIN records
             /\ Same(records[work[w].ref], work[w].kind, work[w].id, work[w].user)
             /\ \A e \in audit : e.ref # work[w].ref
       /\ work[w].kind \notin RecordKinds /\ work[w].pc = "audit" =>
             /\ Exists(work[w].id)
             /\ work[w].kind = "create" => cases[work[w].id].createdBy = work[w].user

(* Two requests in flight have neither a key nor a row in common. *)
RowsApart(v, w) ==
    v # w /\ work[v].pc # "idle" /\ work[w].pc # "idle" =>
       /\ work[v].kind = "create" /\ work[w].kind = "create" =>
             work[v].id # work[w].id
       /\ /\ work[v].pc = "audit" /\ work[v].kind \in RecordKinds
          /\ work[w].pc = "audit" /\ work[w].kind \in RecordKinds
          => work[v].ref # work[w].ref

RecordGrounded(r) ==
    /\ Exists(r.id)
    /\ Allowed(r.actor, r.kind)
    /\ r.kind \in {"sanction", "recovery"} => r.subject = cases[r.id].subject

EventGrounded(e) ==
    /\ Allowed(e.actor, e.kind)
    /\ IF e.kind \in RecordKinds
       THEN e.ref \in DOMAIN records /\ Same(records[e.ref], e.kind, e.id, e.actor)
       ELSE /\ Exists(e.id) /\ e.ref = 0
            /\ e.kind = "create" => cases[e.id].createdBy = e.actor

(* The parts of BooksComplete: a record, and a case, with their events. *)
RecordBooked(n) ==
    Accounted([kind |-> records[n].kind, id |-> records[n].id,
               actor |-> records[n].actor, ref |-> n])

CaseBooked(c) ==
    Exists(c) =>
       /\ Accounted([kind |-> "create", id |-> c,
                     actor |-> cases[c].createdBy, ref |-> 0])
       /\ cases[c].status # "open" \/ cases[c].assigned # NoUser =>
             \E u \in Users : Accounted([kind |-> "patch", id |-> c,
                                         actor |-> u, ref |-> 0])

OneEventEach == \A e, f \in audit : e.ref = f.ref /\ e.ref # 0 => e = f

IInv ==
    /\ TypeOK
    /\ \A w \in Workers : Grounded(w)
    /\ \A v, w \in Workers : RowsApart(v, w)
    /\ \A n \in DOMAIN records : RecordGrounded(records[n])
    /\ \A e \in audit : EventGrounded(e)
    /\ OneEventEach
    /\ BooksComplete

--------------------------------------------------------------------------------
(* What the table of roles says about the two halves of the workflow. *)
LEMMA Duties ==
    ASSUME NEW u, NEW kind \in Kinds, Allowed(u, kind)
    PROVE  /\ kind = "sanction" => RolesOf[u] # {"support"}
           /\ kind \in {"create", "patch", "note", "recovery"} =>
                 RolesOf[u] # {"security_admin"}
<1>1. ~HasPermission({"support"}, "sanctions.write")
  BY DEF HasPermission, PermissionsForRole, rolePermissions, RoleNames
<1>2. /\ ~HasPermission({"security_admin"}, "cases.write")
      /\ ~HasPermission({"security_admin"}, "recovery.write")
  BY DEF HasPermission, PermissionsForRole, rolePermissions, RoleNames
<1>3. /\ RoutePermission("sanction") = "sanctions.write"
      /\ RoutePermission("recovery") = "recovery.write"
      /\ kind \in {"create", "patch", "note"} => RoutePermission(kind) = "cases.write"
  BY DEF RoutePermission
<1>4. QED BY <1>1, <1>2, <1>3 DEF Allowed

LEMMA WorkShape ==
    ASSUME TypeOK, NEW w \in Workers, work[w].pc # "idle"
    PROVE  work[w] \in [pc : {"handler", "insert", "audit", "reread"}, kind : Kinds,
                        user : Users, id : Cases, subject : Users \cup {NoUser},
                        body : Bodies, ref : Nat]
<1>1. work[w] \in Work
  BY DEF TypeOK
<1>2. QED BY <1>1 DEF Work

LEMMA CaseShape ==
    ASSUME TypeOK, NEW c \in Cases, Exists(c)
    PROVE  cases[c] \in Case
BY DEF TypeOK, Exists

(* A valid body leaves a row a row, about the same subject and opened by   *)
(* the same operator.                                                      *)
LEMMA PatchedShape ==
    ASSUME NEW row \in Case, NEW body \in Bodies, Valid(body)
    PROVE  /\ Patched(row, body) \in Case
           /\ Patched(row, body).subject = row.subject
           /\ Patched(row, body).createdBy = row.createdBy
<1>1. /\ DOMAIN body \subseteq PatchFields
      /\ "assigned" \in DOMAIN body => body.assigned \in Users \cup {NoUser}
  BY PatchesAssumption DEF Bodies, NoBody, Valid
<1>2. DOMAIN row = {"status", "priority", "assigned", "subject", "createdBy"}
  BY DEF Case
<1> DEFINE new == Patched(row, body)
<1>3. new.subject = row.subject /\ new.createdBy = row.createdBy
  BY <1>1, <1>2 DEF Patched, PatchFields
<1>4. /\ new.status \in Statuses /\ new.priority \in Priorities
      /\ new.assigned \in Users \cup {NoUser} /\ new.subject \in Users
      /\ new.createdBy \in Users
  BY <1>1, <1>2 DEF Patched, PatchFields, Valid, Case
<1>5. new = [f \in {"status", "priority", "assigned", "subject", "createdBy"} |-> new[f]]
  BY <1>2 DEF Patched
<1>6. new \in Case
  BY <1>4, <1>5 DEF Case
<1>7. QED BY <1>3, <1>6

--------------------------------------------------------------------------------
(* How the tables move: rows and events are added, and a case keeps its    *)
(* subject and the operator who opened it.                                 *)
Forward ==
    /\ \A c \in Cases : Exists(c) =>
          /\ Exists(c)' /\ cases'[c].subject = cases[c].subject
          /\ cases'[c].createdBy = cases[c].createdBy
    /\ \A n \in DOMAIN records : n \in DOMAIN records' /\ records'[n] = records[n]
    /\ audit \subseteq audit' /\ lost \subseteq lost'

(* A request that does not move stays grounded while the tables move on, *)
(* unless another takes its key or names its row.                        *)
LEMMA GroundedKept ==
    ASSUME TypeOK, NEW v \in Workers, Grounded(v), Forward, work'[v] = work[v],
           work[v].pc \in {"handler", "insert"} /\ work[v].kind = "create" =>
              ~Exists(work[v].id)',
           work[v].pc = "audit" /\ work[v].kind \in RecordKinds =>
              \A e \in audit' : e.ref # work[v].ref
    PROVE  Grounded(v)'
<1> SUFFICES ASSUME work[v].pc # "idle" PROVE Grounded(v)'
  BY DEF Grounded
<1>1. work[v].id \in Cases
  BY WorkShape
<1>2. work[v].kind \in RecordKinds /\ work[v].pc = "audit" =>
         /\ work[v].ref \in DOMAIN records'
         /\ Same(records'[work[v].ref], work[v].kind, work[v].id, work[v].user)
  BY DEF Grounded, Forward
<1>3. QED BY <1>1, <1>2 DEF Grounded, Forward

LEMMA TablesKept ==
    ASSUME IInv, Forward
    PROVE  /\ \A n \in DOMAIN records : RecordGrounded(records[n])'
           /\ \A e \in audit : EventGrounded(e)'
<1>1. ASSUME NEW n \in DOMAIN records PROVE RecordGrounded(records[n])'
  <2>0. RecordGrounded(records[n]) /\ records[n] \in Record
    BY DEF IInv, TypeOK
  <2>1. RecordGrounded(records[n]) /\ records[n].id \in Cases
    BY <2>0 DEF Record
  <2>2. records'[n] = records[n]
    BY DEF Forward
  <2>3. QED BY <2>1, <2>2 DEF RecordGrounded, Forward
<1>2. ASSUME NEW e \in audit PROVE EventGrounded(e)'
  <2>1. EventGrounded(e) /\ e.id \in Cases
    BY DEF IInv, TypeOK, AuditEvent
  <2>2. CASE e.kind \in RecordKinds
    BY <2>1, <2>2 DEF EventGrounded, Forward
  <2>3. CASE e.kind \notin RecordKinds
    BY <2>1, <2>3 DEF EventGrounded, Forward
  <2>4. QED BY <2>2, <2>3
<1>3. QED BY <1>1, <1>2

(* An event stays accounted for when its request leaves "audit" only after *)
(* it is written or lost.                                                  *)
LEMMA AccountedKept ==
    ASSUME TypeOK, Forward, NEW w \in Workers, NEW state,
           work' = [work EXCEPT ![w] = state],
           work[w].pc = "audit" => Event(w) \in audit' \cup lost',
           NEW e, Accounted(e)
    PROVE  Accounted(e)'
<1>1. \A v \in Workers \ {w} : work'[v] = work[v]
  BY DEF TypeOK
<1>2. CASE e \in audit \cup lost
  BY <1>2 DEF Accounted, Forward
<1>3. CASE \E v \in Workers : work[v].pc = "audit" /\ Event(v) = e
  <2>1. PICK v \in Workers : work[v].pc = "audit" /\ Event(v) = e
    BY <1>3
  <2>2. CASE v = w
    BY <2>1, <2>2 DEF Accounted
  <2>3. CASE v # w
    <3>1. work'[v].pc = "audit" /\ Event(v)' = e
      BY <1>1, <2>1, <2>3 DEF Event
    <3>2. QED BY <3>1 DEF Accounted
  <2>4. QED BY <2>2, <2>3
<1>4. QED BY <1>2, <1>3 DEF Accounted

(* A request that has just done something is about to audit it. *)
LEMMA InHand ==
    ASSUME NEW w \in Workers, work'[w].pc = "audit", NEW e, e = Event(w)'
    PROVE  Accounted(e)'
BY DEF Accounted

LEMMA BooksKept ==
    ASSUME IInv, Forward, NEW w \in Workers, NEW state,
           work' = [work EXCEPT ![w] = state],
           work[w].pc = "audit" => Event(w) \in audit' \cup lost',
           \A n \in DOMAIN records' : n \notin DOMAIN records => RecordBooked(n)',
           \A c \in Cases : cases'[c] # cases[c] => CaseBooked(c)'
    PROVE  BooksComplete'
<1>1. ASSUME NEW e, Accounted(e) PROVE Accounted(e)'
  BY <1>1, AccountedKept DEF IInv
<1>2. ASSUME NEW n \in DOMAIN records' PROVE RecordBooked(n)'
  <2>1. CASE n \in DOMAIN records
    <3>1. PICK e : e = [kind |-> records[n].kind, id |-> records[n].id,
                        actor |-> records[n].actor, ref |-> n]
      OBVIOUS
    <3>2. Accounted(e)
      BY <2>1, <3>1 DEF IInv, BooksComplete
    <3>3. Accounted(e)'
      BY <1>1, <3>2
    <3>4. records'[n] = records[n]
      BY <2>1 DEF Forward
    <3>5. QED BY <3>1, <3>3, <3>4 DEF RecordBooked
  <2>2. QED BY <2>1
<1>3. ASSUME NEW c \in Cases PROVE CaseBooked(c)'
  <2>1. CASE cases'[c] = cases[c]
    <3>0. SUFFICES ASSUME Exists(c)' PROVE CaseBooked(c)'
      BY DEF CaseBooked
    <3>1. Exists(c)
      BY <2>1, <3>0 DEF Exists
    <3>2. PICK e : e = [kind |-> "create", id |-> c,
                        actor |-> cases[c].createdBy, ref |-> 0]
      OBVIOUS
    <3>3. Accounted(e)
      BY <3>1, <3>2 DEF IInv, BooksComplete
    <3>4. Accounted(e)'
      BY <1>1, <3>3
    <3>5. ASSUME cases[c].status # "open" \/ cases[c].assigned # NoUser
          PROVE  \E u \in Users : Accounted([kind |-> "patch", id |-> c,
                                             actor |-> u, ref |-> 0])'
      <4>1. PICK u \in Users : Accounted([kind |-> "patch", id |-> c,
                                          actor |-> u, ref |-> 0])
        BY <3>1, <3>5 DEF IInv, BooksComplete
      <4>2. Accounted([kind |-> "patch", id |-> c, actor |-> u, ref |-> 0])'
        BY <1>1, <4>1
      <4>3. QED BY <4>2
    <3>6. QED BY <2>1, <3>2, <3>4, <3>5 DEF CaseBooked
  <2>2. QED BY <2>1
<1>4. QED BY <1>2, <1>3 DEF BooksComplete, RecordBooked, CaseBooked

(* A step of request w: what remains to be shown of it. *)
LEMMA OneMoves ==
    ASSUME IInv, TypeOK', Forward, NEW w \in Workers, NEW state,
           work' = [work EXCEPT ![w] = state],
           Grounded(w)',
           \A v \in Workers \ {w} : RowsApart(v, w)',
           \A v \in Workers \ {w} :
              /\ work[v].pc \in {"handler", "insert"} /\ work[v].kind = "create" =>
                    ~Exists(work[v].id)'
              /\ work[v].pc = "audit" /\ work[v].kind \in RecordKinds =>
                    \A e \in audit' : e.ref # work[v].ref,
           \A n \in DOMAIN records' :
              n \notin DOMAIN records => RecordGrounded(records[n])',
           \A e \in audit' : e \notin audit => EventGrounded(e)',
           OneEventEach',
           work[w].pc = "audit" => Event(w) \in audit' \cup lost',
           \A n \in DOMAIN records' : n \notin DOMAIN records => RecordBooked(n)',
           \A c \in Cases : cases'[c] # cases[c] => CaseBooked(c)'
    PROVE  IInv'
<1>1. work'[w] = state /\ \A v \in Workers \ {w} : work'[v] = work[v]
  BY DEF IInv, TypeOK
<1>2. ASSUME NEW v \in Workers PROVE Grounded(v)'
  BY <1>1, GroundedKept DEF IInv
<1>3. ASSUME NEW v \in Workers, NEW x \in Workers PROVE RowsApart(v, x)'
  <2>1. CASE v # w /\ x # w
    BY <1>1, <2>1 DEF IInv, RowsApart
  <2>2. CASE v # w /\ x = w
    BY <2>2
  <2>3. CASE v = w /\ x # w
    <3>1. RowsApart(x, v)'
      BY <2>3
    <3>2. QED BY <3>1 DEF RowsApart
  <2>4. CASE v = w /\ x = w
    BY <2>4 DEF RowsApart
  <2>5. QED BY <2>1, <2>2, <2>3, <2>4
<1>4. \A n \in DOMAIN records' : RecordGrounded(records[n])'
  BY TablesKept
<1>5. \A e \in audit' : EventGrounded(e)'
  BY TablesKept
<1>6. BooksComplete'
  BY BooksKept
<1>7. QED BY <1>2, <1>3, <1>4, <1>5, <1>6 DEF IInv

(* ... and when it leaves the tables alone, but for an event it may lose. *)
LEMMA OneMovesAlone ==
    ASSUME IInv, NEW w \in Workers, NEW state \in Work,
           work' = [work EXCEPT ![w] = state],
           UNCHANGED <<cases, records, audit, deleted>>,
           lost \subseteq lost', lost' \subseteq AuditEvent,
           work[w].pc = "audit" => Event(w) \in lost',
           Grounded(w)',
           \A v \in Workers \ {w} : RowsApart(v, w)'
    PROVE  IInv'
<1>1. TypeOK'
  BY DEF IInv, TypeOK
<1>2. Forward
  BY DEF Forward, Exists
<1>3. \A v \in Workers \ {w} :
         /\ work[v].pc \in {"handler", "insert"} /\ work[v].kind = "create" =>
               ~Exists(work[v].id)'
         /\ work[v].pc = "audit" /\ work[v].kind \in RecordKinds =>
               \A e \in audit' : e.ref # work[v].ref
  <2>1. \A v \in Workers : Grounded(v)
    BY DEF IInv
  <2>2. ASSUME NEW v \in Workers \ {w}, work[v].pc \in {"handler", "insert"},
               work[v].kind = "create"
        PROVE  ~Exists(work[v].id)'
    <3>1. work'[v] = work[v]
      BY DEF IInv, TypeOK
    <3>2. ~Exists(work[v].id)
      BY <2>1, <2>2 DEF Grounded
    <3>3. QED BY <3>1, <3>2 DEF Exists
  <2>3. QED BY <2>1, <2>2 DEF Grounded
<1>4. OneEventEach'
  BY DEF IInv, OneEventEach
<1>5. QED BY <1>1, <1>2, <1>3, <1>4, OneMoves

--------------------------------------------------------------------------------
LEMMA InvInit == Init => IInv
<1> SUFFICES ASSUME Init PROVE IInv
  OBVIOUS
<1>1. TypeOK
  BY DEF Init, TypeOK, Work, Idle, Replies
<1>2. \A w \in Workers : work[w].pc = "idle"
  BY DEF Init, Idle
<1>3. DOMAIN records = {} /\ audit = {} /\ \A c \in Cases : ~Exists(c)
  BY DEF Init, Exists
<1>4. QED BY <1>1, <1>2, <1>3
          DEF IInv, Grounded, RowsApart, OneEventEach, BooksComplete

LEMMA InvStep ==
    ASSUME IInv, [Next]_vars
    PROVE  IInv'
<1>type. TypeOK /\ \A w \in Workers : Grounded(w)
  BY DEF IInv
<1>move. ASSUME NEW w \in Workers, NEW state, work' = [work EXCEPT ![w] = state]
         PROVE  work'[w] = state /\ \A v \in Workers \ {w} : work'[v] = work[v]
  BY <1>move, <1>type DEF TypeOK
<1>finish. ASSUME NEW w \in Workers, NEW reply \in Replies, Finish(w, reply)
           PROVE  /\ Idle(reply) \in Work
                  /\ work' = [work EXCEPT ![w] = Idle(reply)]
                  /\ Grounded(w)' /\ \A v \in Workers \ {w} : RowsApart(v, w)'
  <2>1. Idle(reply) \in Work /\ Idle(reply).pc = "idle"
    BY DEF Idle, Work
  <2>2. work' = [work EXCEPT ![w] = Idle(reply)]
    BY <1>finish DEF Finish
  <2>3. work'[w] = Idle(reply)
    BY <1>move, <2>2
  <2>4. QED BY <2>1, <2>2, <2>3 DEF Grounded, RowsApart
<1>done. ASSUME NEW w \in Workers, NEW reply \in Replies, Finish(w, reply),
                UNCHANGED <<cases, records, audit, deleted>>,
                lost \subseteq lost', lost' \subseteq AuditEvent,
                work[w].pc = "audit" => Event(w) \in lost'
         PROVE  IInv'
  BY <1>done, <1>finish, OneMovesAlone
<1>lost. lost \subseteq AuditEvent
  BY <1>type DEF TypeOK
<1>event. ASSUME NEW w \in Workers, work[w].pc # "idle"
          PROVE  Event(w) \in AuditEvent
  BY <1>event, <1>type, WorkShape DEF Event, AuditEvent
(* The record of a request that goes on to its next statement. *)
<1>enter. ASSUME NEW w \in Workers, work[w].pc # "idle",
                 NEW pc \in {"handler", "insert", "audit", "reread"}, Enter(w, pc)
          PROVE  \E state \in Work :
                    /\ work' = [work EXCEPT ![w] = state]
                    /\ state.pc = pc /\ state.kind = work[w].kind
                    /\ state.user = work[w].user /\ state.id = work[w].id
                    /\ state.subject = work[w].subject
                    /\ state.ref = work[w].ref
  <2> DEFINE state == [work[w] EXCEPT !.pc = pc]
  <2>1. /\ state \in Work /\ state.pc = pc /\ state.kind = work[w].kind
        /\ state.user = work[w].user /\ state.id = work[w].id
        /\ state.subject = work[w].subject
        /\ state.ref = work[w].ref
    BY <1>enter, <1>type, WorkShape DEF Work
  <2>2. work' = [work EXCEPT ![w] = state]
    BY <1>enter DEF Enter
  <2>3. QED BY <2>1, <2>2
<1>1. ASSUME NEW u \in Users, DeleteUser(u) PROVE IInv'
  <2>1. deleted' = deleted \cup {u} /\ UNCHANGED <<cases, records, audit, work, lost>>
    BY <1>1 DEF DeleteUser
  <2>2. TypeOK'
    BY <1>type, <2>1 DEF TypeOK
  <2>3. Forward
    BY <2>1 DEF Forward, Exists
  <2>4. ASSUME NEW v \in Workers PROVE Grounded(v)'
    <3>1. work[v].pc \in {"handler", "insert"} /\ work[v].kind = "create" =>
             ~Exists(work[v].id)'
      BY <1>type, <2>1 DEF Grounded, Exists
    <3>2. work[v].pc = "audit" /\ work[v].kind \in RecordKinds =>
             \A e \in audit' : e.ref # work[v].ref
      BY <1>type, <2>1 DEF Grounded
    <3>3. QED BY <1>type, <2>1, <2>3, <3>1, <3>2, GroundedKept
  <2>5. \A v, w \in Workers : RowsApart(v, w)'
    BY <2>1 DEF IInv, RowsApart
  <2>6. /\ \A n \in DOMAIN records' : RecordGrounded(records[n])'
        /\ \A e \in audit' : EventGrounded(e)'
    BY <2>1, <2>3, TablesKept
  <2>7. OneEventEach' /\ BooksComplete'
    BY <2>1 DEF IInv, OneEventEach, BooksComplete, Accounted, Event, Exists
  <2>8. QED BY <2>2, <2>4, <2>5, <2>6, <2>7 DEF IInv
<1>2. ASSUME NEW w \in Workers, NEW u \in Users, NEW c \in Cases, NEW kind \in Kinds,
             NEW s \in Users \cup {NoUser}, kind = "create" => s \in Users,
             NEW b \in Bodies, Begin(w, u, kind, c, s, b)
      PROVE  IInv'
  <2> DEFINE state == [pc |-> "handler", kind |-> kind, user |-> u, id |-> c,
                       subject |-> s, body |-> b, ref |-> 0]
  <2>1. /\ work' = [work EXCEPT ![w] = state]
        /\ UNCHANGED <<cases, records, audit, deleted, lost>>
        /\ kind = "create" => FreshId(c)
        /\ HasPermission(effectivePlatformRoles(u), RoutePermission(kind))
    BY <1>2 DEF Begin
  <2>2. state \in Work
    BY <1>type DEF Work, TypeOK
  <2>3. /\ state.pc = "handler" /\ state.kind = kind /\ state.user = u
        /\ state.id = c /\ state.subject = s /\ state.ref = 0
    OBVIOUS
  <2> HIDE DEF state
  <2>4. Allowed(u, kind)
    BY <2>1 DEF Allowed, HasPermission, effectivePlatformRoles
  <2>5. work'[w] = state /\ \A v \in Workers \ {w} : work'[v] = work[v]
    BY <1>move, <2>1
  <2>6. Grounded(w)'
    BY <1>2, <2>1, <2>3, <2>4, <2>5 DEF Grounded, FreshId, Exists
  <2>7. ASSUME NEW v \in Workers \ {w} PROVE RowsApart(v, w)'
    BY <2>1, <2>3, <2>5 DEF RowsApart, FreshId
  <2>8. work[w].pc # "audit"
    BY <1>2 DEF Begin
  <2>9. QED BY <1>lost, <2>1, <2>2, <2>6, <2>7, <2>8, OneMovesAlone
<1>3. ASSUME NEW w \in Workers, CreateCheck(w) PROVE IInv'
  <2>1. /\ work[w].pc = "handler" /\ work[w].kind = "create"
        /\ UNCHANGED <<cases, records, audit, deleted, lost>>
    BY <1>3 DEF CreateCheck, Serving
  <2>2. CASE Finish(w, "invalid")
    BY <1>lost, <2>1, <2>2, <1>done DEF Replies
  <2>3. CASE SubjectExists(work[w].subject) /\ Enter(w, "insert")
    <3>1. PICK state \in Work :
             /\ work' = [work EXCEPT ![w] = state]
             /\ state.pc = "insert" /\ state.kind = work[w].kind
             /\ state.user = work[w].user /\ state.id = work[w].id
             /\ state.subject = work[w].subject
             /\ state.ref = work[w].ref
      BY <1>enter, <2>1, <2>3
    <3>2. work'[w] = state /\ \A v \in Workers \ {w} : work'[v] = work[v]
      BY <1>move, <3>1
    <3>3. "create" \notin RecordKinds
      BY DEF RecordKinds
    <3>4. Grounded(w)'
      BY <1>type, <2>1, <2>3, <3>1, <3>2, <3>3 DEF Grounded, Exists
    <3>5. \A v \in Workers \ {w} : RowsApart(v, w)'
      BY <2>1, <3>1, <3>2 DEF IInv, RowsApart
    <3>6. QED BY <1>lost, <2>1, <3>1, <3>4, <3>5, OneMovesAlone
  <2>4. QED BY <1>3, <2>2, <2>3 DEF CreateCheck
<1>4. ASSUME NEW w \in Workers, CreateRefuse(w) \/ PatchReread(w) \/ Abort(w)
      PROVE  IInv'
  <2>1. CASE CreateRefuse(w) \/ PatchReread(w)
    BY <1>lost, <1>done, <2>1 DEF CreateRefuse, PatchReread, Serving, Replies
  <2>2. CASE Abort(w)
    <3>1. /\ lost' = IF work[w].pc = "audit" THEN lost \cup {Event(w)} ELSE lost
          /\ UNCHANGED <<cases, records, audit, deleted>> /\ work[w].pc # "idle"
      BY <2>2 DEF Abort
    <3>2. /\ lost \subseteq lost' /\ lost' \subseteq AuditEvent
          /\ work[w].pc = "audit" => Event(w) \in lost'
      BY <1>lost, <1>event, <3>1
    <3>3. QED BY <1>done, <2>2, <3>1, <3>2 DEF Abort, Replies
  <2>3. QED BY <1>4, <2>1, <2>2
<1>5. ASSUME NEW w \in Workers, CreateInsert(w) PROVE IInv'
  <2>1. /\ work[w].pc = "insert" /\ work[w].kind = "create"
        /\ UNCHANGED <<records, audit, deleted, lost>>
        /\ PriorityOf(work[w].body) \in Priorities
    BY <1>5 DEF CreateInsert, Serving
  <2>2. /\ work[w].id \in Cases /\ ~Exists(work[w].id) /\ work[w].subject \in Users
        /\ work[w].user \in Users /\ work[w].ref = 0
    BY <1>type, <2>1, WorkShape DEF Grounded, RecordKinds
  <2>3. PICK c \in Cases : c = work[w].id
    BY <2>2
  <2> DEFINE new == [status |-> "open", assigned |-> NoUser,
                     priority |-> PriorityOf(work[w].body),
                     subject |-> work[w].subject, createdBy |-> work[w].user]
  <2>4. cases' = [cases EXCEPT ![c] = new]
    BY <1>5, <2>3 DEF CreateInsert
  <2>5. /\ new \in Case /\ new.subject = work[w].subject
        /\ new.createdBy = work[w].user
        /\ new.status = "open" /\ new.assigned = NoUser
    BY <2>1, <2>2 DEF Case, Statuses
  <2>6. new # NoCase
    BY DEF NoCase
  <2> HIDE DEF new
  <2>7. /\ Exists(c)' /\ cases'[c] = new
        /\ \A x \in Cases \ {c} : cases'[x] = cases[x]
    BY <1>type, <2>4, <2>6 DEF TypeOK, Exists
  <2>8. PICK state \in Work :
           /\ work' = [work EXCEPT ![w] = state]
           /\ state.pc = "audit" /\ state.kind = work[w].kind
           /\ state.user = work[w].user /\ state.id = work[w].id
           /\ state.subject = work[w].subject
           /\ state.ref = work[w].ref
    BY <1>5, <1>enter, <2>1 DEF CreateInsert
  <2>9. work'[w] = state /\ \A v \in Workers \ {w} : work'[v] = work[v]
    BY <1>move, <2>8
  <2>10. TypeOK'
    BY <1>type, <2>1, <2>2, <2>4, <2>5, <2>8 DEF TypeOK
  <2>11. Forward
    BY <2>1, <2>2, <2>3, <2>7 DEF Forward, Exists
  <2>12. "create" \notin RecordKinds
    BY DEF RecordKinds
  <2>13. Grounded(w)'
    BY <1>type, <2>1, <2>3, <2>5, <2>7, <2>8, <2>9, <2>12 DEF Grounded
  <2>14. \A v \in Workers \ {w} : RowsApart(v, w)'
    BY <2>1, <2>8, <2>9, <2>12 DEF IInv, RowsApart
  <2>15. ASSUME NEW v \in Workers \ {w}
         PROVE  /\ work[v].pc \in {"handler", "insert"} /\ work[v].kind = "create" =>
                      ~Exists(work[v].id)'
                /\ work[v].pc = "audit" /\ work[v].kind \in RecordKinds =>
                      \A e \in audit' : e.ref # work[v].ref
    <3>1. ASSUME work[v].pc \in {"handler", "insert"}, work[v].kind = "create"
          PROVE  ~Exists(work[v].id)'
      <4>1. work[v].id \in Cases \ {c} /\ ~Exists(work[v].id)
        BY <1>type, <2>1, <2>3, <3>1, WorkShape DEF IInv, RowsApart, Grounded
      <4>2. QED BY <2>7, <2>9, <4>1 DEF Exists
    <3>2. QED BY <1>type, <2>1, <3>1 DEF Grounded
  <2>16. OneEventEach'
    BY <2>1 DEF IInv, OneEventEach
  <2>17. \A x \in Cases : cases'[x] # cases[x] => CaseBooked(x)'
    <3>1. PICK e : e = [kind |-> "create", id |-> c, actor |-> work[w].user, ref |-> 0]
      OBVIOUS
    <3>2. e = Event(w)'
      BY <2>1, <2>2, <2>3, <2>8, <2>9, <3>1 DEF Event
    <3>3. Accounted(e)'
      BY <2>8, <2>9, <3>2, InHand
    <3>4. CaseBooked(c)'
      BY <2>5, <2>7, <3>1, <3>3 DEF CaseBooked
    <3>5. QED BY <2>7, <3>4
  <2>18. QED BY <2>1, <2>8, <2>10, <2>11, <2>13, <2>14, <2>15, <2>16, <2>17, OneMoves
<1>6. ASSUME NEW w \in Workers, PatchUpdate(w) PROVE IInv'
  <2>1. /\ work[w].pc = "handler" /\ work[w].kind = "patch"
        /\ UNCHANGED <<records, audit, deleted, lost>>
    BY <1>6 DEF PatchUpdate, Serving
  <2>2. work[w].id \in Cases /\ work[w].body \in Bodies
    BY <1>type, <2>1, WorkShape
  <2>3. CASE UNCHANGED cases /\ \E reply \in Replies : Finish(w, reply)
    BY <1>lost, <2>1, <2>3, <1>done
  <2>4. CASE /\ Valid(work[w].body) /\ Affected(work[w].id, work[w].body)
             /\ cases' = [cases EXCEPT ![work[w].id] = Patched(@, work[w].body)]
             /\ Enter(w, "audit")
    <3>1. PICK c \in Cases : c = work[w].id
      BY <2>2
    <3>2. Exists(c) /\ cases[c] \in Case
      BY <1>type, <2>4, <3>1, CaseShape DEF Affected
    <3>3. PICK new : new = Patched(cases[c], work[w].body)
      OBVIOUS
    <3>4. /\ new \in Case /\ new.subject = cases[c].subject
          /\ new.createdBy = cases[c].createdBy
      BY <2>2, <2>4, <3>2, <3>3, PatchedShape
    <3>5. new # NoCase
      BY <3>4 DEF Case, NoCase
    <3>6. cases' = [cases EXCEPT ![c] = new]
      BY <2>4, <3>1, <3>3
    <3>7. /\ Exists(c)' /\ cases'[c] = new
          /\ \A x \in Cases \ {c} : cases'[x] = cases[x]
      BY <1>type, <3>5, <3>6 DEF TypeOK, Exists
    <3>8. PICK state \in Work :
             /\ work' = [work EXCEPT ![w] = state]
             /\ state.pc = "audit" /\ state.kind = work[w].kind
             /\ state.user = work[w].user /\ state.id = work[w].id
             /\ state.subject = work[w].subject
             /\ state.ref = work[w].ref
      BY <1>enter, <2>1, <2>4
    <3>9. work'[w] = state /\ \A v \in Workers \ {w} : work'[v] = work[v]
      BY <1>move, <3>8
    <3>10. TypeOK'
      BY <1>type, <2>1, <3>4, <3>6, <3>8 DEF TypeOK
    <3>11. Forward
      BY <2>1, <3>2, <3>4, <3>7 DEF Forward, Exists
    <3>12. "patch" \notin RecordKinds
      BY DEF RecordKinds
    <3>13. Grounded(w)'
      BY <1>type, <2>1, <3>1, <3>7, <3>8, <3>9, <3>12 DEF Grounded
    <3>14. \A v \in Workers \ {w} : RowsApart(v, w)'
      BY <2>1, <3>8, <3>9, <3>12 DEF IInv, RowsApart
    <3>15. ASSUME NEW v \in Workers \ {w}
           PROVE  /\ work[v].pc \in {"handler", "insert"} /\ work[v].kind = "create" =>
                        ~Exists(work[v].id)'
                  /\ work[v].pc = "audit" /\ work[v].kind \in RecordKinds =>
                        \A e \in audit' : e.ref # work[v].ref
      <4>1. ASSUME work[v].pc \in {"handler", "insert"}, work[v].kind = "create"
            PROVE  ~Exists(work[v].id)'
        <5>1. work[v].id \in Cases \ {c} /\ ~Exists(work[v].id)
          BY <1>type, <3>2, <4>1, WorkShape DEF Grounded
        <5>2. QED BY <3>7, <3>9, <5>1 DEF Exists
      <4>2. QED BY <1>type, <2>1, <4>1 DEF Grounded
    <3>16. OneEventEach'
      BY <2>1 DEF IInv, OneEventEach
    <3>17. \A x \in Cases : cases'[x] # cases[x] => CaseBooked(x)'
      <4>1. work[w].user \in Users /\ work[w].ref = 0
        BY <1>type, <2>1, <3>12, WorkShape DEF Grounded
      <4>2. PICK u \in Users : u = work[w].user
        BY <4>1
      <4>3. PICK e : e = [kind |-> "patch", id |-> c, actor |-> u, ref |-> 0]
        OBVIOUS
      <4>4. e = Event(w)'
        BY <2>1, <3>1, <3>8, <3>9, <4>1, <4>2, <4>3 DEF Event
      <4>5. Accounted(e)'
        BY <3>8, <3>9, <4>4, InHand
      <4>6. PICK d : d = [kind |-> "create", id |-> c,
                          actor |-> cases[c].createdBy, ref |-> 0]
        OBVIOUS
      <4>7. Accounted(d)
        BY <3>2, <4>6 DEF IInv, BooksComplete
      <4>8. Accounted(d)'
        BY <1>type, <2>1, <3>8, <3>11, <4>7, AccountedKept
      <4>9. CaseBooked(c)'
        BY <3>4, <3>7, <4>3, <4>5, <4>6, <4>8 DEF CaseBooked
      <4>10. QED BY <3>7, <4>9
    <3>18. QED BY <2>1, <3>8, <3>10, <3>11, <3>13, <3>14, <3>15, <3>16, <3>17, OneMoves
  <2>5. QED BY <1>6, <2>3, <2>4 DEF PatchUpdate, Replies
<1>7. ASSUME NEW w \in Workers, LoadCase(w) PROVE IInv'
  <2>1. /\ work[w].pc = "handler" /\ work[w].kind \in RecordKinds
        /\ UNCHANGED <<cases, records, audit, deleted, lost>>
    BY <1>7 DEF LoadCase, Serving
  <2>2. CASE Finish(w, "not_found")
    BY <1>lost, <2>1, <2>2, <1>done DEF Replies
  <2>3. CASE /\ Exists(work[w].id)
             /\ work' = [work EXCEPT ![w].pc = "insert",
                                     ![w].subject = cases[work[w].id].subject]
    <3>1. work[w].id \in Cases /\ cases[work[w].id] \in Case
      BY <1>type, <2>1, <2>3, WorkShape, CaseShape
    <3>2. PICK s \in Users : s = cases[work[w].id].subject
      BY <3>1 DEF Case
    <3> DEFINE state == [work[w] EXCEPT !.pc = "insert", !.subject = s]
    <3>3. /\ state \in Work /\ state.pc = "insert" /\ state.kind = work[w].kind
          /\ state.user = work[w].user /\ state.id = work[w].id
          /\ state.subject = s /\ state.ref = work[w].ref
      BY <1>type, <2>1, WorkShape DEF Work
    <3>4. work' = [work EXCEPT ![w] = state]
      BY <1>type, <2>3, <3>2 DEF TypeOK
    <3> HIDE DEF state
    <3>5. work'[w] = state /\ \A v \in Workers \ {w} : work'[v] = work[v]
      BY <1>move, <3>4
    <3>6. "create" \notin RecordKinds
      BY DEF RecordKinds
    <3>7. Grounded(w)'
      BY <1>type, <2>1, <2>3, <3>2, <3>3, <3>5, <3>6 DEF Grounded, Exists
    <3>8. \A v \in Workers \ {w} : RowsApart(v, w)'
      BY <2>1, <3>3, <3>5, <3>6 DEF RowsApart
    <3>9. QED BY <1>lost, <2>1, <3>3, <3>4, <3>7, <3>8, OneMovesAlone
  <2>4. QED BY <1>7, <2>2, <2>3 DEF LoadCase
<1>8. ASSUME NEW w \in Workers, NEW kind \in RecordKinds, NEW s \in Users \cup {NoUser},
             work[w].pc = "insert", work[w].kind = kind, InsertRecord(w, s),
             kind \in {"sanction", "recovery"} => s = work[w].subject
      PROVE  IInv'
  <2>1. /\ work[w].id \in Cases /\ work[w].user \in Users
        /\ Allowed(work[w].user, kind) /\ Exists(work[w].id)
        /\ work[w].subject = cases[work[w].id].subject
    BY <1>type, <1>8, WorkShape DEF Grounded
  <2> DEFINE new == [kind |-> kind, id |-> work[w].id, actor |-> work[w].user,
                     subject |-> s]
  <2>n. PICK k \in Nat : k = Len(records) + 1
    BY <1>type DEF TypeOK
  <2>r. PICK r : r = new
    OBVIOUS
  <2>2. /\ r \in Record /\ r.kind = kind /\ r.id = work[w].id
        /\ r.actor = work[w].user /\ r.subject = s
    BY <2>1, <2>r DEF Record
  <2>3. /\ records' = Append(records, r)
        /\ work' = [work EXCEPT ![w].pc = "audit", ![w].ref = k]
        /\ UNCHANGED <<cases, audit, deleted, lost>>
    BY <1>8, <2>n, <2>r DEF InsertRecord
  <2> HIDE DEF new
  <2>4. /\ records' \in Seq(Record) /\ DOMAIN records' = DOMAIN records \cup {k}
        /\ k \notin DOMAIN records /\ records'[k] = r
        /\ \A x \in DOMAIN records : records'[x] = records[x]
    BY <1>type, <2>2, <2>3, <2>n DEF TypeOK
  <2> DEFINE state == [work[w] EXCEPT !.pc = "audit", !.ref = k]
  <2>5. /\ state \in Work /\ state.pc = "audit" /\ state.kind = kind
        /\ state.user = work[w].user /\ state.id = work[w].id /\ state.ref = k
    BY <1>type, <1>8, WorkShape DEF Work
  <2>6. work' = [work EXCEPT ![w] = state]
    BY <1>type, <2>3 DEF TypeOK
  <2> HIDE DEF state
  <2>7. work'[w] = state /\ \A v \in Workers \ {w} : work'[v] = work[v]
    BY <1>move, <2>6
  <2>8. TypeOK'
    BY <1>type, <2>3, <2>4, <2>5, <2>6 DEF TypeOK
  <2>9. Forward
    BY <2>3, <2>4 DEF Forward, Exists
  <2>10. k # 0 /\ \A e \in audit : e.ref # k
    <3>1. k # 0
      BY <2>n, <1>type DEF TypeOK
    <3>2. \A e \in audit : e.ref \in DOMAIN records \/ e.ref = 0
      BY DEF IInv, EventGrounded
    <3>3. QED BY <2>4, <3>1, <3>2
  <2>11. Grounded(w)'
    <3>1. "create" \notin RecordKinds
      BY DEF RecordKinds
    <3>2. Same(r, kind, work[w].id, work[w].user)
      BY <2>2 DEF Same
    <3>3. QED BY <1>8, <2>1, <2>3, <2>4, <2>5, <2>7, <2>10, <3>1, <3>2 DEF Grounded
  <2>12. ASSUME NEW v \in Workers \ {w} PROVE RowsApart(v, w)'
    <3>1. work[v].pc = "audit" /\ work[v].kind \in RecordKinds =>
             work[v].ref \in DOMAIN records
      BY <1>type DEF Grounded
    <3>2. kind # "create"
      BY DEF RecordKinds
    <3>3. QED BY <2>4, <2>5, <2>7, <3>1, <3>2 DEF RowsApart
  <2>13. ASSUME NEW v \in Workers \ {w}
         PROVE  /\ work[v].pc \in {"handler", "insert"} /\ work[v].kind = "create" =>
                      ~Exists(work[v].id)'
                /\ work[v].pc = "audit" /\ work[v].kind \in RecordKinds =>
                      \A e \in audit' : e.ref # work[v].ref
    BY <1>type, <2>3, <2>7 DEF Grounded, Exists
  <2>14. \A x \in DOMAIN records' : x \notin DOMAIN records => RecordGrounded(records[x])'
    <3>1. RecordGrounded(records[k])'
      <4>1. Exists(r.id)'
        BY <2>1, <2>2, <2>3 DEF Exists
      <4>2. Allowed(r.actor, r.kind)
        BY <2>1, <2>2
      <4>3. r.kind \in {"sanction", "recovery"} => r.subject = cases'[r.id].subject
        BY <1>8, <2>1, <2>2, <2>3
      <4>4. QED BY <2>4, <4>1, <4>2, <4>3 DEF RecordGrounded, Exists
    <3>2. QED BY <2>4, <3>1
  <2>15. OneEventEach'
    BY <2>3 DEF IInv, OneEventEach
  <2>16. \A x \in DOMAIN records' : x \notin DOMAIN records => RecordBooked(x)'
    <3>1. PICK e : e = [kind |-> kind, id |-> work[w].id,
                        actor |-> work[w].user, ref |-> k]
      OBVIOUS
    <3>2. e = Event(w)'
      BY <2>5, <2>7, <3>1 DEF Event
    <3>3. Accounted(e)'
      BY <2>5, <2>7, <3>2, InHand
    <3>4. RecordBooked(k)'
      BY <2>2, <2>4, <3>1, <3>3 DEF RecordBooked
    <3>5. QED BY <2>4, <3>4
  <2>17. QED
    BY <1>8, <2>16, <2>3, <2>6, <2>8, <2>9, <2>11, <2>12, <2>13, <2>14, <2>15, OneMoves
<1>9. ASSUME NEW w \in Workers,
             \/ PostOperatorCaseNote(w) \/ PostOperatorCaseSanction(w)
             \/ PostOperatorCaseRecoveryRequest(w)
             \/ PostOperatorCaseAppealResolve(w)
      PROVE  IInv'
  <2>1. work[w].pc = "insert" /\ work[w].subject \in Users \cup {NoUser}
    <3>1. work[w].pc = "insert"
      BY <1>9 DEF PostOperatorCaseNote, PostOperatorCaseSanction, Serving,
         PostOperatorCaseRecoveryRequest, PostOperatorCaseAppealResolve
    <3>2. QED BY <1>type, <3>1, WorkShape
  <2>2. QED
    BY <1>8, <1>9, <2>1
       DEF PostOperatorCaseNote, PostOperatorCaseSanction, Serving, RecordKinds,
           PostOperatorCaseRecoveryRequest, PostOperatorCaseAppealResolve
<1>10. ASSUME NEW w \in Workers, WriteAudit(w) PROVE IInv'
  <2>1. /\ work[w].pc = "audit" /\ UNCHANGED <<cases, records, deleted>>
        /\ \/ audit' = audit \cup {Event(w)} /\ lost' = lost
           \/ audit' = audit /\ lost' = lost \cup {Event(w)}
    BY <1>10 DEF WriteAudit
  <2>2. work[w] \in [pc : {"handler", "insert", "audit", "reread"}, kind : Kinds,
                     user : Users, id : Cases, subject : Users \cup {NoUser},
                     body : Bodies, ref : Nat]
    BY <1>type, <2>1, WorkShape
  <2>e. PICK e : e = Event(w)
    OBVIOUS
  <2>3. /\ e \in AuditEvent /\ e.kind = work[w].kind /\ e.id = work[w].id
        /\ e.actor = work[w].user /\ e.ref = work[w].ref
    BY <2>2, <2>e DEF AuditEvent, Event
  <2>4. /\ audit' = audit \cup {e} \/ audit' = audit
        /\ lost \subseteq lost' /\ lost' \subseteq lost \cup {e}
        /\ e \in audit' \cup lost'
    BY <2>1, <2>e
  <2>5. Forward
    BY <2>1, <2>4 DEF Forward, Exists
  <2>6. EventGrounded(e) /\ (e.ref # 0 => \A f \in audit : f.ref # e.ref)
    <3>1. CASE work[w].kind \in RecordKinds
      BY <1>type, <2>1, <2>3, <3>1 DEF Grounded, EventGrounded
    <3>2. CASE work[w].kind \notin RecordKinds
      BY <1>type, <2>1, <2>3, <3>2 DEF Grounded, EventGrounded
    <3>3. QED BY <3>1, <3>2
  <2>7. EventGrounded(e)'
    BY <2>1, <2>6 DEF EventGrounded, Exists
  <2>8. OneEventEach'
    BY <2>4, <2>6 DEF IInv, OneEventEach
  <2>10. ASSUME NEW v \in Workers \ {w}, work'[v] = work[v]
         PROVE  /\ work[v].pc \in {"handler", "insert"} /\ work[v].kind = "create" =>
                      ~Exists(work[v].id)'
                /\ work[v].pc = "audit" /\ work[v].kind \in RecordKinds =>
                      \A f \in audit' : f.ref # work[v].ref
    <3>1. work[v].pc \in {"handler", "insert"} /\ work[v].kind = "create" =>
             ~Exists(work[v].id)'
      BY <1>type, <2>1, <2>10 DEF Grounded, Exists
    <3>2. ASSUME work[v].pc = "audit", work[v].kind \in RecordKinds
          PROVE  \A f \in audit' : f.ref # work[v].ref
      <4>1. \A f \in audit : f.ref # work[v].ref
        BY <1>type, <3>2 DEF Grounded
      <4>2. work[v].ref \in DOMAIN records /\ 0 \notin DOMAIN records
        BY <1>type, <3>2 DEF Grounded, TypeOK
      <4>3. e.ref # work[v].ref
        <5>1. CASE work[w].kind \in RecordKinds
          BY <2>1, <2>3, <3>2, <5>1 DEF IInv, RowsApart
        <5>2. CASE work[w].kind \notin RecordKinds
          BY <1>type, <2>1, <2>3, <4>2, <5>2 DEF Grounded
        <5>3. QED BY <5>1, <5>2
      <4>4. QED BY <2>4, <4>1, <4>3
    <3>3. QED BY <3>1, <3>2
  <2>11. ASSUME NEW state \in Work, work' = [work EXCEPT ![w] = state],
                Grounded(w)', \A v \in Workers \ {w} : RowsApart(v, w)'
         PROVE  IInv'
    <3>1. TypeOK'
      BY <1>type, <2>1, <2>3, <2>4, <2>11 DEF TypeOK
    <3>2. \A v \in Workers \ {w} : work'[v] = work[v]
      BY <1>move, <2>11
    <3>3. \A f \in audit' : f \notin audit => EventGrounded(f)'
      BY <2>4, <2>7
    <3>4. QED BY <2>1, <2>4, <2>e, <2>5, <2>8, <2>10, <2>11, <3>1, <3>2, <3>3, OneMoves
  <2>12. CASE Finish(w, "ok")
    BY <2>11, <2>12, <1>finish DEF Replies
  <2>13. CASE work[w].kind = "patch" /\ Enter(w, "reread")
    <3>1. PICK state \in Work :
             /\ work' = [work EXCEPT ![w] = state]
             /\ state.pc = "reread" /\ state.kind = work[w].kind
             /\ state.user = work[w].user /\ state.id = work[w].id
             /\ state.subject = work[w].subject
             /\ state.ref = work[w].ref
      BY <1>enter, <2>1, <2>13
    <3>2. work'[w] = state /\ \A v \in Workers \ {w} : work'[v] = work[v]
      BY <1>move, <3>1
    <3>3. Grounded(w)'
      BY <1>type, <2>1, <3>1, <3>2 DEF Grounded
    <3>4. \A v \in Workers \ {w} : RowsApart(v, w)'
      BY <2>13, <3>1, <3>2 DEF RowsApart
    <3>5. QED BY <2>11, <3>1, <3>3, <3>4
  <2>14. QED BY <1>10, <2>12, <2>13 DEF WriteAudit
<1>11. CASE UNCHANGED vars
  <2>1. BooksComplete'
    BY <1>11 DEF vars, IInv, BooksComplete, Accounted, Event, Exists
  <2>2. QED
    BY <1>11, <2>1 DEF vars, IInv, TypeOK, Grounded, RowsApart, RecordGrounded,
       EventGrounded, OneEventEach, Exists
<1>12. ASSUME NEW w \in Workers, NEW u \in Users, NEW c \in Cases,
              \/ \E s \in Users, b \in Bodies : Begin(w, u, "create", c, s, b)
              \/ \E b \in Bodies : Begin(w, u, "patch", c, NoUser, b)
              \/ \E kind \in RecordKinds : Begin(w, u, kind, c, NoUser, NoBody)
       PROVE  IInv'
  BY <1>2, <1>12 DEF Kinds, RecordKinds, Bodies
<1>13. QED
  BY <1>1, <1>3, <1>4, <1>5, <1>6, <1>7, <1>9, <1>10, <1>11, <1>12 DEF Next

LEMMA InvHolds == Spec => []IInv
<1>1. IInv /\ [Next]_vars => IInv'
  BY InvStep
<1>2. QED BY <1>1, InvInit, PTL DEF Spec

(* Rows, events and requests keep their shape. *)
THEOREM TypeCorrect == Spec => []TypeOK
<1>1. IInv => TypeOK
  BY DEF IInv
<1>2. QED BY <1>1, InvHolds, PTL

(* The audit trail names only what is there, each row at most once, and a  *)
(* sanction or a recovery is about the subject of its case.                *)
THEOREM BooksFaithfulHolds == Spec => []BooksFaithful
<1>1. IInv => BooksFaithful
  BY DEF IInv, BooksFaithful, RecordGrounded, EventGrounded, OneEventEach, Same
<1>2. QED BY <1>1, InvHolds, PTL

(* Who only supports players never sanctions; who only administers         *)
(* security never opens, edits or annotates a case.                        *)
THEOREM CaseDutiesSeparatedHolds == Spec => []CaseDutiesSeparated
<1>1. IInv => CaseDutiesSeparated
  <2> SUFFICES ASSUME IInv PROVE CaseDutiesSeparated
    OBVIOUS
  <2>1. ASSUME NEW n \in DOMAIN records
        PROVE  records[n].kind \in Kinds /\ Allowed(records[n].actor, records[n].kind)
    <3>1. records[n] \in Record /\ RecordGrounded(records[n])
      BY DEF IInv, TypeOK
    <3>2. QED BY <3>1 DEF Record, RecordGrounded, RecordKinds, Kinds
  <2>2. ASSUME NEW e \in audit PROVE e.kind \in Kinds /\ Allowed(e.actor, e.kind)
    BY DEF IInv, TypeOK, AuditEvent, EventGrounded
  <2>3. QED BY <2>1, <2>2, Duties DEF CaseDutiesSeparated
<1>2. QED BY <1>1, InvHolds, PTL

(* Every row, and every case that was opened or edited, has its event in   *)
(* the audit trail or about to be written, or that event's INSERT failed.  *)
THEOREM BooksCompleteHolds == Spec => []BooksComplete
<1>1. IInv => BooksComplete
  BY DEF IInv
<1>2. QED BY <1>1, InvHolds, PTL
================================================================================
