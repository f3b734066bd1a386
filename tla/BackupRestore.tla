----------------------------- MODULE BackupRestore -----------------------------
(***************************************************************************)
(* The backup-restore approval workflow: table backup_restore_requests,    *)
(* the store methods of api/authstore/backup_restore.go and the handlers   *)
(* of api/myhandlers/platform_backup_restore_handlers.go.                  *)
(*                                                                         *)
(* A Worker is a goroutine serving one HTTP request after another.  Each   *)
(* of its steps is one statement (or one transaction boundary) against the *)
(* database, so the statements of concurrent requests interleave as they   *)
(* do in the program.  An approval is a transaction that holds the row's   *)
(* lock from its SELECT ... FOR UPDATE to its COMMIT; every other mutation *)
(* is one conditional UPDATE, which has to wait for that lock.             *)
(***************************************************************************)
EXTENDS PlatformRbac

CONSTANTS
    Users,      \* operators
    NoUser,     \* SQL NULL in a user column
    RolesOf,    \* the roles of each user's operator account
    Requests,   \* primary keys of backup_restore_requests
    Workers,    \* requests that can be in flight at the same time
    NoWorker    \* nobody holds the row lock

ASSUME UsersAssumption == NoUser \notin Users
ASSUME RolesAssumption == RolesOf \in [Users -> SUBSET RoleNames]
ASSUME WorkersAssumption == NoWorker \notin Workers

VARIABLES
    rows,      \* backup_restore_requests
    lock,      \* holder of each row's exclusive lock
    work,      \* the request each worker is serving
    audit,     \* admin_audit_events (append-only)
    deleted    \* users with deleted_at set; DeleteUser suspends their account

vars == <<rows, lock, work, audit, deleted>>

Statuses == {"pending", "approved", "rejected", "fulfilled", "cancelled"}
Operations == {"request", "approve", "reject", "fulfill", "cancel"}

(* The error values of the store, "ok", and "internal" for any other error. *)
Replies == {"none", "ok", "internal", "not_found", "invalid_state",
            "cannot_approve", "duplicate_slot", "already_filled",
            "not_requester"}

Row == [status : Statuses \cup {"absent"},
        requestedBy : Users \cup {NoUser},
        approval1 : Users \cup {NoUser},
        approval2 : Users \cup {NoUser}]

NoRow == [status |-> "absent", requestedBy |-> NoUser,
          approval1 |-> NoUser, approval2 |-> NoUser]

(***************************************************************************)
(* pc: idle        between requests; reply tells how the last one ended    *)
(*     handler     past the middleware, no statement issued yet            *)
(*     locked      approval transaction open, snap is the row it selected  *)
(*     reread      approval committed, the status is to be selected again  *)
(*     classify    an UPDATE matched no row, the row is to be selected     *)
(*     audit       the mutation is durable, the audit INSERT comes next    *)
(***************************************************************************)
Idle(reply) == [pc |-> "idle", reply |-> reply]

IdleWork == [pc : {"idle"}, reply : Replies]
BusyWork == [pc : {"handler", "locked", "reread", "classify", "audit"},
             op : Operations, user : Users, id : Requests, snap : Row,
             after : Statuses \cup {"none", "absent"}]

AuditEvent == [action : Operations, actor : Users, id : Requests,
               status_after : Statuses \cup {"none", "absent"}]

TypeOK ==
    /\ rows \in [Requests -> Row]
    /\ lock \in [Requests -> Workers \cup {NoWorker}]
    /\ work \in [Workers -> IdleWork \cup BusyWork]
    /\ audit \subseteq AuditEvent
    /\ deleted \subseteq Users

Init ==
    /\ rows = [id \in Requests |-> NoRow]
    /\ lock = [id \in Requests |-> NoWorker]
    /\ work = [w \in Workers |-> Idle("none")]
    /\ audit = {}
    /\ deleted = {}

--------------------------------------------------------------------------------
(* Middleware.  The permission each route is registered with. *)
RoutePermission(op) ==
    CASE op \in {"request", "cancel"} -> "backups.restore.request"
      [] op \in {"approve", "reject"} -> "backups.restore.approve"
      [] op = "fulfill"               -> "backups.restore.fulfill"

(* Roles of active operator accounts of users that are not soft-deleted. *)
effectivePlatformRoles(u) == IF u \in deleted THEN {} ELSE RolesOf[u]

(* Ends the request of worker w with a reply, everything else unchanged. *)
Finish(w, reply) == work' = [work EXCEPT ![w] = Idle(reply)]

InHandler(w, op) == work[w].pc = "handler" /\ work[w].op = op

(* AUTO_INCREMENT hands every INSERT a key of its own; Requests bounds the *)
(* number of rows.                                                         *)
FreshId(id) ==
    /\ rows[id] = NoRow
    /\ \A v \in Workers : ~(InHandler(v, "request") /\ work[v].id = id)

(* RequirePlatformPermission lets the request through to its handler.  A   *)
(* refused request never reaches the handler and changes nothing.          *)
Begin(w, u, op, id) ==
    /\ work[w].pc = "idle"
    /\ HasPermission(effectivePlatformRoles(u), RoutePermission(op))
    /\ op = "request" => FreshId(id)
    /\ work' = [work EXCEPT ![w] = [pc |-> "handler", op |-> op, user |-> u,
                                    id |-> id, snap |-> NoRow,
                                    after |-> "none"]]
    /\ UNCHANGED <<rows, lock, audit, deleted>>

(* Only the lock's holder may change a row or lock it. *)
Unlocked(id) == lock[id] = NoWorker

--------------------------------------------------------------------------------
(* CreateBackupRestoreRequest: one INSERT. *)
Create(w) ==
    /\ InHandler(w, "request")
    /\ rows' = [rows EXCEPT ![work[w].id] =
                   [NoRow EXCEPT !.status = "pending",
                                 !.requestedBy = work[w].user]]
    /\ work' = [work EXCEPT ![w].pc = "audit"]
    /\ UNCHANGED <<lock, audit, deleted>>

--------------------------------------------------------------------------------
(* ApproveBackupRestoreRequest *)

(* Mutant: a plain SELECT, which neither waits for nor takes the row lock. *)
ApproveSelectPlain(w) ==
    /\ InHandler(w, "approve")
    /\ \/ /\ rows[work[w].id].status = "absent"
          /\ Finish(w, "not_found")
       \/ /\ rows[work[w].id].status # "absent"
          /\ work' = [work EXCEPT ![w].pc = "locked",
                                  ![w].snap = rows[work[w].id]]
    /\ UNCHANGED <<rows, lock, audit, deleted>>

(* BEGIN; SELECT ... FOR UPDATE.  A missing row ends the transaction. *)
ApproveSelectForUpdate(w) ==
    /\ InHandler(w, "approve")
    /\ LET id == work[w].id IN
       /\ Unlocked(id)
       /\ \/ /\ rows[id].status = "absent"
             /\ Finish(w, "not_found")
             /\ UNCHANGED lock
          \/ /\ rows[id].status # "absent"
             /\ work' = [work EXCEPT ![w].pc = "locked", ![w].snap = rows[id]]
             /\ lock' = [lock EXCEPT ![id] = w]
    /\ UNCHANGED <<rows, audit, deleted>>

(* Mutant: the same approver may fill both slots. *)
ApproveVerdictNoDuplicateCheck(snap, approver) ==
    IF snap.status # "pending" THEN "invalid_state"
    ELSE IF snap.requestedBy = approver THEN "cannot_approve"
    ELSE IF NoUser \in {snap.approval1, snap.approval2} THEN "ok"
    ELSE "already_filled"

(* The verdict on the selected row: why the approval is refused, or "ok". *)
ApproveVerdict(snap, approver) ==
    IF snap.status # "pending" THEN "invalid_state"
    ELSE IF snap.requestedBy = approver THEN "cannot_approve"
    ELSE IF snap.approval1 = NoUser THEN "ok"
    ELSE IF snap.approval1 = approver THEN "duplicate_slot"
    ELSE IF snap.approval2 = NoUser THEN "ok"
    ELSE "already_filled"

(* Mutant: the second approval leaves the status to a later statement. *)
FillSlotStatusLater(row, snap, approver) ==
    IF snap.approval1 = NoUser
    THEN [row EXCEPT !.approval1 = approver]
    ELSE [row EXCEPT !.approval2 = approver]

(* Which slot the UPDATE fills, chosen from the selected row. *)
FillSlot(row, snap, approver) ==
    IF snap.approval1 = NoUser
    THEN [row EXCEPT !.approval1 = approver]
    ELSE [row EXCEPT !.approval2 = approver, !.status = "approved"]

(* Mutant: an early return without the deferred Rollback. *)
ApproveRefuseNoRollback(w) ==
    /\ work[w].pc = "locked"
    /\ LET verdict == ApproveVerdict(work[w].snap, work[w].user) IN
       /\ verdict # "ok"
       /\ Finish(w, verdict)
    /\ UNCHANGED <<rows, lock, audit, deleted>>

(* The early returns: the deferred Rollback releases the lock. *)
ApproveRefuse(w) ==
    /\ work[w].pc = "locked"
    /\ LET verdict == ApproveVerdict(work[w].snap, work[w].user) IN
       /\ verdict # "ok"
       /\ Finish(w, verdict)
    /\ lock' = [lock EXCEPT ![work[w].id] = NoWorker]
    /\ UNCHANGED <<rows, audit, deleted>>

(* UPDATE ... WHERE id = ? AND status = 'pending'; COMMIT.  The number of  *)
(* affected rows is not looked at.                                         *)
ApproveCommit(w) ==
    /\ work[w].pc = "locked"
    /\ LET id == work[w].id IN
       /\ ApproveVerdict(work[w].snap, work[w].user) = "ok"
       /\ rows' = IF rows[id].status = "pending"
                  THEN [rows EXCEPT ![id] = FillSlot(@, work[w].snap,
                                                     work[w].user)]
                  ELSE rows
       /\ lock' = [lock EXCEPT ![id] = NoWorker]
    /\ work' = [work EXCEPT ![w].pc = "reread", ![w].snap = NoRow]
    /\ UNCHANGED <<audit, deleted>>

(* GetBackupRestoreRequest after the commit, for status_after.  Its error  *)
(* is dropped: the zero row reports no status.                             *)
ApproveReread(w) ==
    /\ work[w].pc = "reread"
    /\ \E seen \in {rows[work[w].id].status, "absent"} :
          work' = [work EXCEPT ![w].pc = "audit", ![w].after = seen]
    /\ UNCHANGED <<rows, lock, audit, deleted>>

--------------------------------------------------------------------------------
(* Reject, cancel and fulfill: one conditional UPDATE each. *)

(* Mutant: cancelling does not ask for a pending request. *)
UpdateMatchesAnyStatus(op, row, actor) ==
    \/ op = "reject"  /\ row.status = "pending" /\ row.requestedBy # actor
    \/ op = "cancel"  /\ row.requestedBy = actor
    \/ op = "fulfill" /\ row.status = "approved"

(* The WHERE clause of the operation's UPDATE. *)
UpdateMatches(op, row, actor) ==
    \/ op = "reject"  /\ row.status = "pending" /\ row.requestedBy # actor
    \/ op = "cancel"  /\ row.status = "pending" /\ row.requestedBy = actor
    \/ op = "fulfill" /\ row.status = "approved"

(* The status each of the three writes. *)
StatusSet(op) == CASE op = "reject"  -> "rejected"
                   [] op = "cancel"  -> "cancelled"
                   [] op = "fulfill" -> "fulfilled"

(* Mutant: RowsAffected is not looked at. *)
ConditionalUpdateUnchecked(w, op) ==
    /\ InHandler(w, op)
    /\ Unlocked(work[w].id)
    /\ rows' = IF UpdateMatches(op, rows[work[w].id], work[w].user)
               THEN [rows EXCEPT ![work[w].id].status = StatusSet(op)]
               ELSE rows
    /\ work' = [work EXCEPT ![w].pc = "audit"]
    /\ UNCHANGED <<lock, audit, deleted>>

(* No row matched: fulfill gives up, the others select the row to say why. *)
ConditionalUpdate(w, op) ==
    /\ InHandler(w, op)
    /\ LET id == work[w].id IN
       /\ Unlocked(id)
       /\ \/ /\ UpdateMatches(op, rows[id], work[w].user)
             /\ rows' = [rows EXCEPT ![id].status = StatusSet(op)]
             /\ work' = [work EXCEPT ![w].pc = "audit"]
          \/ /\ ~UpdateMatches(op, rows[id], work[w].user)
             /\ IF op = "fulfill" THEN Finish(w, "invalid_state")
                ELSE work' = [work EXCEPT ![w].pc = "classify"]
             /\ UNCHANGED rows
    /\ UNCHANGED <<lock, audit, deleted>>

Reject(w) == ConditionalUpdate(w, "reject")
Cancel(w) == ConditionalUpdate(w, "cancel")
Fulfill(w) == ConditionalUpdate(w, "fulfill")

(* GetBackupRestoreRequest after an UPDATE that matched no row. *)
Classify(w) ==
    /\ work[w].pc = "classify"
    /\ LET row == rows[work[w].id]
           mine == row.requestedBy = work[w].user
       IN Finish(w, CASE row.status = "absent" -> "not_found"
                      [] row.status # "absent" /\ work[w].op = "reject" /\ mine
                           -> "cannot_approve"
                      [] row.status # "absent" /\ work[w].op = "cancel" /\ ~mine
                           -> "not_requester"
                      [] OTHER -> "invalid_state")
    /\ UNCHANGED <<rows, lock, audit, deleted>>

--------------------------------------------------------------------------------
(* InsertAdminAuditEvent: its error is dropped and the reply is 200 anyway. *)
WriteAudit(w) ==
    /\ work[w].pc = "audit"
    /\ \E stored \in BOOLEAN :
          audit' = IF stored
                   THEN audit \cup {[action |-> work[w].op,
                                     actor |-> work[w].user,
                                     id |-> work[w].id,
                                     status_after |-> work[w].after]}
                   ELSE audit
    /\ Finish(w, "ok")
    /\ UNCHANGED <<rows, lock, deleted>>

(* A database error, a cancelled request context or a crash of the process *)
(* ends the request where it stands; an open transaction is rolled back.   *)
(* A commit whose acknowledgement is lost is ApproveCommit, then this.     *)
Abort(w) ==
    /\ work[w].pc \in {"handler", "locked", "reread", "classify", "audit"}
    /\ Finish(w, "internal")
    /\ lock' = [id \in Requests |-> IF lock[id] = w THEN NoWorker ELSE lock[id]]
    /\ UNCHANGED <<rows, audit, deleted>>

(* DeleteUser's transaction as this component sees it: somebody entitled   *)
(* soft-deletes u, whose operator account is suspended with it.            *)
DeleteUser(u) ==
    /\ u \notin deleted
    /\ \E a \in Users : HasPermission(effectivePlatformRoles(a), "users.delete")
    /\ deleted' = deleted \cup {u}
    /\ UNCHANGED <<rows, lock, work, audit>>

Next ==
    \/ \E u \in Users : DeleteUser(u)
    \/ \E w \in Workers :
          \/ \E u \in Users, op \in Operations, id \in Requests :
                Begin(w, u, op, id)
          \/ Create(w)
          \/ ApproveSelectForUpdate(w) \/ ApproveRefuse(w)
          \/ ApproveCommit(w) \/ ApproveReread(w)
          \/ Reject(w) \/ Cancel(w) \/ Fulfill(w) \/ Classify(w)
          \/ WriteAudit(w) \/ Abort(w)

Spec == Init /\ [][Next]_vars

--------------------------------------------------------------------------------
Approvers(id) == {rows[id].approval1, rows[id].approval2} \ {NoUser}

(* "Two distinct approvers, neither the requester" (backup_restore.go:11): *)
(* a request is approved or fulfilled only on the word of two different    *)
(* users, neither of whom opened it, whatever approvals, rejections and    *)
(* cancellations raced each other.                                         *)
FourEyes ==
    \A id \in Requests :
       rows[id].status \in {"approved", "fulfilled"} =>
          \E a, b \in Approvers(id) :
             a # b /\ rows[id].requestedBy \notin {a, b}

(* No step overwrites or clears an approval or moves a request that was    *)
(* rejected, cancelled or fulfilled; an approved one can only be fulfilled. *)
(* A lost update between two concurrent approvals would break this.        *)
ApprovalsStand ==
    [][\A id \in Requests :
         /\ rows[id].approval1 # NoUser =>
               rows'[id].approval1 = rows[id].approval1
         /\ rows[id].approval2 # NoUser =>
               rows'[id].approval2 = rows[id].approval2
         /\ rows[id].status \in {"rejected", "cancelled", "fulfilled"} =>
               rows'[id] = rows[id]
         /\ rows[id].status = "approved" =>
               rows'[id].status \in {"approved", "fulfilled"}]_vars

(* What a caller may conclude from a 200, and a reader from an audit row. *)
Effect(action, actor, id) ==
    CASE action = "request" -> rows[id].requestedBy = actor
      [] action = "approve" -> actor \in Approvers(id)
      [] action = "reject"  -> /\ rows[id].status = "rejected"
                               /\ rows[id].requestedBy # actor
      [] action = "cancel"  -> /\ rows[id].status = "cancelled"
                               /\ rows[id].requestedBy = actor
      [] action = "fulfill" -> rows[id].status = "fulfilled"

(* Whenever a handler is about to answer 200, and for every audit row ever *)
(* written, the effect is in the table, although an approval never checks  *)
(* its row count and the audit row follows the commit as a statement of    *)
(* its own.  So no request is reported both rejected and fulfilled.        *)
AcknowledgedIsDone ==
    /\ \A e \in audit : Effect(e.action, e.actor, e.id)
    /\ \A w \in Workers :
          work[w].pc = "audit" => Effect(work[w].op, work[w].user, work[w].id)

(* status_after is read after the commit and may already show a later      *)
(* status, but never an earlier one: an approval audited as "pending" is   *)
(* the first of the two.                                                   *)
PendingMeansFirst ==
    \A e \in audit :
       e.action = "approve" /\ e.status_after = "pending" =>
          rows[e.id].approval1 = e.actor

(* ErrBackupRestoreAlreadyFilled is never returned: a request that is      *)
(* still pending has a free slot, because the second approval changes the  *)
(* status in the same UPDATE.                                              *)
SlotsNeverOverfilled ==
    \A w \in Workers : work[w] # Idle("already_filled")

(* A row is locked only by a request whose approval transaction on that    *)
(* very row is open: no early return, error or crash leaves a lock behind  *)
(* for every later approval, rejection or cancellation to wait on.         *)
NoOrphanedLock ==
    \A id \in Requests :
       lock[id] # NoWorker =>
          work[lock[id]].pc = "locked" /\ work[lock[id]].id = id

(* The table implements the abstract dual control. *)
Abstract == INSTANCE DualControl
              WITH phase <- [id \in Requests |-> rows[id].status],
                   requester <- [id \in Requests |-> rows[id].requestedBy],
                   endorsers <- [id \in Requests |-> Approvers(id)]

(* Every statement the handlers issue is a step of DualControl, or none:   *)
(* locks, transactions, retries and crashes cannot be seen from outside.   *)
ImplementsDualControl == Abstract!DCSpec
================================================================================
