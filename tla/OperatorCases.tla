----------------------------- MODULE OperatorCases -----------------------------
(***************************************************************************)
(* Operator cases: tables operator_cases, operator_case_notes and          *)
(* operator_case_actions, the store methods of                             *)
(* api/authstore/operator_cases.go and the handlers of                     *)
(* api/myhandlers/cases_handlers.go.                                       *)
(*                                                                         *)
(* No handler uses a transaction: each of its statements is a step of its  *)
(* own, between which other requests run and the subject may be deleted.   *)
(***************************************************************************)
EXTENDS PlatformRbac, Naturals, Sequences, FiniteSets

CONSTANTS
    Users,        \* platform users: operators and the subjects of cases
    NoUser,       \* SQL NULL in a user column
    RolesOf,      \* the roles of each user's operator account
    Cases,        \* rows of operator_cases; bounds their number
    Patches,      \* bodies: records over a subset of PatchFields
    Workers,      \* requests in flight at the same time
    MaxRecords    \* bound on the notes and actions

ASSUME UsersAssumption == NoUser \notin Users
ASSUME RolesAssumption == RolesOf \in [Users -> SUBSET RoleNames]
ASSUME BoundsAssumption == MaxRecords \in Nat

VARIABLES
    cases,      \* operator_cases
    records,    \* operator_case_notes and operator_case_actions (append-only)
    audit,      \* admin_audit_events (append-only)
    work,       \* the request each worker is serving
    deleted,    \* users with deleted_at set
    lost        \* the events whose INSERT failed or was never issued (history)

vars == <<cases, records, audit, work, deleted, lost>>

Statuses == {"open", "in_progress", "resolved", "closed"}
Priorities == {"low", "normal", "high", "urgent"}
PatchFields == {"status", "priority", "assigned"}

(* What a body may set; assigned_to_user_id 0 stands for NoUser, and an    *)
(* id that is no user's fails on its foreign key (Abort).                  *)
ASSUME PatchesAssumption ==
    \A b \in Patches :
       /\ DOMAIN b \subseteq PatchFields
       /\ "assigned" \in DOMAIN b => b.assigned \in Users \cup {NoUser}
NoBody == <<>>
Bodies == Patches \cup {NoBody}

Kinds == {"create", "patch", "note", "sanction", "recovery", "appeal"}
RecordKinds == {"note", "sanction", "recovery", "appeal"}

Case == [status : Statuses, priority : Priorities,
         assigned : Users \cup {NoUser}, subject : Users, createdBy : Users]
NoCase == [absent |-> TRUE]

(* subject is payload.subject_platform_user_id of sanctions and recoveries. *)
Record == [kind : RecordKinds, id : Cases, actor : Users,
           subject : Users \cup {NoUser}]

(* ref: the row the event is about, 0 for the case itself. *)
AuditEvent == [kind : Kinds, id : Cases, actor : Users, ref : Nat]

Replies == {"none", "ok", "ok_empty_row", "invalid", "not_found", "internal"}

(***************************************************************************)
(* pc: idle      reply tells how the last request ended                    *)
(*     handler   past the middleware, no statement issued yet              *)
(*     insert    what the handler checks first is there, in subject        *)
(*     audit     the mutation is durable, the audit INSERT comes next      *)
(*     reread    PATCH: the row is to be selected for the answer           *)
(***************************************************************************)
Idle(reply) == [pc |-> "idle", reply |-> reply]
Work ==
    [pc : {"idle"}, reply : Replies]
    \cup [pc : {"handler", "insert", "audit", "reread"}, kind : Kinds,
          user : Users, id : Cases, subject : Users \cup {NoUser},
          body : Bodies, ref : Nat]

TypeOK ==
    /\ cases \in [Cases -> Case \cup {NoCase}]
    /\ records \in Seq(Record)
    /\ audit \subseteq AuditEvent
    /\ work \in [Workers -> Work]
    /\ deleted \subseteq Users
    /\ lost \subseteq AuditEvent

Init ==
    /\ cases = [c \in Cases |-> NoCase]
    /\ records = <<>>
    /\ audit = {}
    /\ work = [w \in Workers |-> Idle("none")]
    /\ deleted = {}
    /\ lost = {}

--------------------------------------------------------------------------------
(* Mutant: one permission for everything that is done to a case. *)
RoutePermissionOne(kind) == "cases.write"

(* The permission each route is registered with. *)
RoutePermission(kind) ==
    CASE kind = "sanction" -> "sanctions.write"
      [] kind = "recovery" -> "recovery.write"
      [] kind = "appeal"   -> "appeals.resolve"
      [] kind \in {"create", "patch", "note"} -> "cases.write"

effectivePlatformRoles(u) == IF u \in deleted THEN {} ELSE RolesOf[u]

Exists(c) == cases[c] # NoCase
Serving(w, pc, kinds) == work[w].pc = pc /\ work[w].kind \in kinds
Enter(w, pc) == work' = [work EXCEPT ![w].pc = pc]
Finish(w, reply) == work' = [work EXCEPT ![w] = Idle(reply)]

(* AUTO_INCREMENT hands every INSERT a key of its own. *)
FreshId(c) ==
    /\ ~Exists(c)
    /\ \A v \in Workers :
          work[v].pc # "idle" => ~(work[v].kind = "create" /\ work[v].id = c)

(* Past RequirePlatformPermission and RequirePlatformActionReason.  subject *)
(* is the body's for a POST of a case.                                      *)
Begin(w, u, kind, c, subject, body) ==
    /\ work[w].pc = "idle"
    /\ HasPermission(effectivePlatformRoles(u), RoutePermission(kind))
    /\ kind = "create" => FreshId(c)
    /\ work' = [work EXCEPT ![w] =
                   [pc |-> "handler", kind |-> kind, user |-> u, id |-> c,
                    subject |-> subject, body |-> body, ref |-> 0]]
    /\ UNCHANGED <<cases, records, audit, deleted, lost>>

--------------------------------------------------------------------------------
(* SELECT id FROM users WHERE id = ? AND deleted_at IS NULL *)
SubjectExists(u) == u \notin deleted

(* PostOperatorCase: the subject is looked up ... *)
CreateCheck(w) ==
    /\ Serving(w, "handler", {"create"})
    /\ IF SubjectExists(work[w].subject) THEN Enter(w, "insert")
       ELSE Finish(w, "invalid")
    /\ UNCHANGED <<cases, records, audit, deleted, lost>>

PriorityOf(body) ==
    IF "priority" \in DOMAIN body THEN body.priority ELSE "normal"

(* ... then the priority is checked ... *)
CreateRefuse(w) ==
    /\ Serving(w, "insert", {"create"})
    /\ PriorityOf(work[w].body) \notin Priorities
    /\ Finish(w, "invalid")
    /\ UNCHANGED <<cases, records, audit, deleted, lost>>

(* ... and the case inserted, whatever has become of the subject since.    *)
CreateInsert(w) ==
    /\ Serving(w, "insert", {"create"})
    /\ PriorityOf(work[w].body) \in Priorities
    /\ cases' = [cases EXCEPT ![work[w].id] =
                    [status |-> "open", assigned |-> NoUser,
                     priority |-> PriorityOf(work[w].body),
                     subject |-> work[w].subject, createdBy |-> work[w].user]]
    /\ Enter(w, "audit")
    /\ UNCHANGED <<records, audit, deleted, lost>>

--------------------------------------------------------------------------------
(* Mutant: status and priority go to the database as they come. *)
ValidAny(body) == DOMAIN body # {}

(* Known status and priority, and something to change. *)
Valid(body) ==
    /\ DOMAIN body # {}
    /\ "status" \in DOMAIN body => body.status \in Statuses
    /\ "priority" \in DOMAIN body => body.priority \in Priorities

Patched(row, body) ==
    [f \in DOMAIN row |-> IF f \in DOMAIN body THEN body[f] ELSE row[f]]

(* The connection does not ask for found rows: MySQL counts an UPDATE that *)
(* leaves the row as it is as none.                                        *)
Affected(c, body) == Exists(c) /\ Patched(cases[c], body) # cases[c]

(* PatchOperatorCase: one UPDATE of the columns the body names.            *)
PatchUpdate(w) ==
    LET c == work[w].id
        body == work[w].body
    IN /\ Serving(w, "handler", {"patch"})
       /\ \/ /\ ~Valid(body)
             /\ Finish(w, "invalid")
             /\ UNCHANGED cases
          \/ /\ Valid(body) /\ ~Affected(c, body)
             /\ Finish(w, "not_found")
             /\ UNCHANGED cases
          \/ /\ Valid(body) /\ Affected(c, body)
             /\ cases' = [cases EXCEPT ![c] = Patched(@, body)]
             /\ Enter(w, "audit")
       /\ UNCHANGED <<records, audit, deleted, lost>>

(* GetOperatorCase for the answer; its error is dropped, and the answer is *)
(* then 200 with an empty row.                                             *)
PatchReread(w) ==
    /\ Serving(w, "reread", {"patch"})
    /\ Finish(w, "ok") \/ Finish(w, "ok_empty_row")
    /\ UNCHANGED <<cases, records, audit, deleted, lost>>

--------------------------------------------------------------------------------
(* Notes, sanctions, recovery requests and appeal resolutions: the case is *)
(* loaded, and with it its subject ...                                     *)
LoadCase(w) ==
    LET c == work[w].id
    IN /\ Serving(w, "handler", RecordKinds)
       /\ \/ ~Exists(c) /\ Finish(w, "not_found")
          \/ /\ Exists(c)
             /\ work' = [work EXCEPT ![w].pc = "insert",
                                     ![w].subject = cases[c].subject]
       /\ UNCHANGED <<cases, records, audit, deleted, lost>>

(* Mutant: the audit row is written first. *)
InsertRecordLater(w, subject) ==
    /\ audit' = audit \cup {[kind |-> work[w].kind, id |-> work[w].id,
                             actor |-> work[w].user, ref |-> Len(records) + 1]}
    /\ work' = [work EXCEPT ![w].pc = "audit", ![w].ref = Len(records) + 1]
    /\ UNCHANGED <<cases, records, deleted, lost>>

(* ... then one INSERT; subject is the one the payload names, if any. *)
InsertRecord(w, subject) ==
    /\ records' = Append(records, [kind |-> work[w].kind, id |-> work[w].id,
                                   actor |-> work[w].user, subject |-> subject])
    /\ work' = [work EXCEPT ![w].pc = "audit", ![w].ref = Len(records) + 1]
    /\ UNCHANGED <<cases, audit, deleted, lost>>

PostOperatorCaseNote(w) ==
    Serving(w, "insert", {"note"}) /\ InsertRecord(w, NoUser)

PostOperatorCaseSanction(w) ==
    Serving(w, "insert", {"sanction"}) /\ InsertRecord(w, work[w].subject)

PostOperatorCaseRecoveryRequest(w) ==
    Serving(w, "insert", {"recovery"}) /\ InsertRecord(w, work[w].subject)

PostOperatorCaseAppealResolve(w) ==
    Serving(w, "insert", {"appeal"}) /\ InsertRecord(w, NoUser)

(* The row of admin_audit_events a request writes. *)
Event(w) == [kind |-> work[w].kind, id |-> work[w].id,
             actor |-> work[w].user, ref |-> work[w].ref]

(* Mutant: opening and patching a case go unaudited. *)
WriteAuditActions(w) ==
    /\ work[w].pc = "audit"
    /\ IF work[w].kind \in RecordKinds
       THEN audit' = audit \cup {Event(w)} /\ UNCHANGED lost
       ELSE UNCHANGED <<audit, lost>>
    /\ IF work[w].kind = "patch" THEN Enter(w, "reread") ELSE Finish(w, "ok")
    /\ UNCHANGED <<cases, records, deleted>>

(* InsertAdminAuditEvent; its error is dropped. *)
WriteAudit(w) ==
    /\ work[w].pc = "audit"
    /\ \/ audit' = audit \cup {Event(w)} /\ UNCHANGED lost
       \/ lost' = lost \cup {Event(w)} /\ UNCHANGED audit
    /\ IF work[w].kind = "patch" THEN Enter(w, "reread") ELSE Finish(w, "ok")
    /\ UNCHANGED <<cases, records, deleted>>

(* A database error or a crash ends the request; what is written stays, at *)
(* "audit" too: there the answer of the statement before is what is lost.  *)
(* PATCH takes an error of its UPDATE for the client's and answers 400.    *)
Abort(w) ==
    /\ work[w].pc # "idle"
    /\ \/ Finish(w, "internal")
       \/ work[w].kind = "patch" /\ work[w].pc # "reread" /\ Finish(w, "invalid")
    /\ lost' = IF work[w].pc = "audit" THEN lost \cup {Event(w)} ELSE lost
    /\ UNCHANGED <<cases, records, audit, deleted>>

DeleteUser(u) ==
    /\ u \in Users \ deleted
    /\ deleted' = deleted \cup {u}
    /\ UNCHANGED <<cases, records, audit, work, lost>>

(* The bound on the records: those that are there or may yet be. *)
RoomForRecord ==
    Len(records) + Cardinality({w \in Workers :
                                  work[w].pc \in {"handler", "insert"}})
       < MaxRecords

Next ==
    \/ \E u \in Users : DeleteUser(u)
    \/ \E w \in Workers, u \in Users, c \in Cases :
          \/ \E s \in Users, b \in Bodies :
                /\ DOMAIN b \subseteq {"priority"}
                /\ Begin(w, u, "create", c, s, b)
          \/ \E b \in Bodies : Begin(w, u, "patch", c, NoUser, b)
          \/ /\ RoomForRecord
             /\ \E kind \in RecordKinds : Begin(w, u, kind, c, NoUser, NoBody)
    \/ \E w \in Workers :
          \/ CreateCheck(w) \/ CreateRefuse(w) \/ CreateInsert(w)
          \/ PatchUpdate(w) \/ PatchReread(w) \/ LoadCase(w)
          \/ PostOperatorCaseNote(w) \/ PostOperatorCaseSanction(w)
          \/ PostOperatorCaseRecoveryRequest(w)
          \/ PostOperatorCaseAppealResolve(w)
          \/ WriteAudit(w) \/ Abort(w)

Spec == Init /\ [][Next]_vars

--------------------------------------------------------------------------------
(* What the books say happened: an audit event, written last, names a row  *)
(* of the same kind, case and actor that is really there, or a case that   *)
(* its actor opened, and no two events name one row; a sanction or a       *)
(* recovery is about the subject of its case.                              *)
BooksFaithful ==
    /\ \A e \in audit :
          IF e.kind \in RecordKinds
          THEN /\ e.ref \in DOMAIN records
               /\ records[e.ref].kind = e.kind
               /\ records[e.ref].id = e.id
               /\ records[e.ref].actor = e.actor
          ELSE /\ Exists(e.id)
               /\ e.kind = "create" => cases[e.id].createdBy = e.actor
    /\ \A e, f \in audit : e.ref = f.ref /\ e.ref # 0 => e = f
    /\ \A n \in DOMAIN records :
          records[n].kind \in {"sanction", "recovery"} =>
             records[n].subject = cases[records[n].id].subject

(* The two halves of the case workflow stay apart however requests and    *)
(* deletions interleave: who only supports players never sanctions, and    *)
(* who only administers security never opens, edits or annotates a case.   *)
CaseDutiesSeparated ==
    /\ \A n \in DOMAIN records :
          /\ records[n].kind = "sanction" => RolesOf[records[n].actor] # {"support"}
          /\ records[n].kind \in {"note", "recovery"} =>
                RolesOf[records[n].actor] # {"security_admin"}
    /\ \A e \in audit :
          e.kind \in {"create", "patch"} => RolesOf[e.actor] # {"security_admin"}

(* An event is accounted for: written, about to be, or lost to a failure.  *)
Accounted(e) ==
    \/ e \in audit \cup lost
    \/ \E w \in Workers : work[w].pc = "audit" /\ Event(w) = e

(* The converse: nothing is done behind the auditors' back.  Every note,   *)
(* sanction, recovery, appeal and opened case, and every case that is no   *)
(* longer as it was opened, has its event with the operator who did it,    *)
(* unless the INSERT of that very event failed, whose error the handlers   *)
(* drop, or its request ended before it.                                   *)
BooksComplete ==
    /\ \A n \in DOMAIN records :
          Accounted([kind |-> records[n].kind, id |-> records[n].id,
                     actor |-> records[n].actor, ref |-> n])
    /\ \A c \in Cases : Exists(c) =>
          /\ Accounted([kind |-> "create", id |-> c,
                        actor |-> cases[c].createdBy, ref |-> 0])
          /\ cases[c].status # "open" \/ cases[c].assigned # NoUser =>
                \E u \in Users : Accounted([kind |-> "patch", id |-> c,
                                            actor |-> u, ref |-> 0])

(* cases_handlers.go:189 answers "case not found", docs/openapi.yaml:694   *)
(* 404: the client is told so only about a case that does not exist.       *)
NotFoundMeansAbsent ==
    [][\A w \in Workers :
         work[w].pc # "idle" /\ work'[w].pc = "idle"
            /\ work'[w].reply = "not_found" => ~Exists(work[w].id)]_vars
================================================================================
