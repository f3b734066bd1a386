-------------------------- MODULE BackupRestoreProofs --------------------------
(***************************************************************************)
(* Proofs about BackupRestore for any users, roles, requests and number of *)
(* concurrent workers.  None of the properties is inductive by itself: an  *)
(* approval decides on the row it selected and writes one step later, so   *)
(* the argument needs that the row lock keeps the two equal (LocksGuard),  *)
(* that a key about to be inserted is free (KeysFresh), and how status and *)
(* slots of a row belong together (RowsCoherent).                          *)
(***************************************************************************)
EXTENDS BackupRestore, TLAPS

(* How the columns of one row belong together. *)
Coherent(row) ==
    /\ row.status = "absent" => row = NoRow
    /\ row.status # "absent" => row.requestedBy \in Users
    /\ row.approval1 = NoUser => row.approval2 = NoUser
    /\ row.approval1 # NoUser => row.approval1 # row.requestedBy
    /\ row.approval2 # NoUser => row.approval2 \notin {row.requestedBy,
                                                       row.approval1}
    /\ row.approval2 # NoUser <=> row.status \in {"approved", "fulfilled"}

RowsCoherent == \A id \in Requests : Coherent(rows[id])

(* A worker inside an approval transaction holds the lock of its row, and  *)
(* the row is still the one it selected.                                   *)
LocksGuard ==
    \A w \in Workers :
       work[w].pc = "locked" =>
          /\ lock[work[w].id] = w
          /\ work[w].snap = rows[work[w].id]
          /\ rows[work[w].id].status # "absent"

(* A key handed to an INSERT is not in the table, and is handed out once. *)
KeysFresh ==
    \A w \in Workers : InHandler(w, "request") =>
       /\ rows[work[w].id] = NoRow
       /\ \A v \in Workers : InHandler(v, "request") /\ work[v].id = work[w].id
                                => v = w

IInv == TypeOK /\ RowsCoherent /\ LocksGuard /\ KeysFresh /\ SlotsNeverOverfilled

--------------------------------------------------------------------------------
(* A worker that is past the middleware carries a complete request. *)
LEMMA BusyWorker ==
    ASSUME TypeOK, NEW w \in Workers, work[w].pc # "idle"
    PROVE  work[w] \in BusyWork
BY DEF TypeOK, IdleWork

LEMMA NoRowIsRow == NoRow \in Row /\ Coherent(NoRow)
BY UsersAssumption DEF NoRow, Row, Statuses, Coherent

LEMMA FillSlotType ==
    ASSUME NEW row \in Row, NEW snap, NEW approver \in Users
    PROVE  FillSlot(row, snap, approver) \in Row
BY DEF FillSlot, Row, Statuses

(* Type correctness of Spec, one step per action. *)
LEMMA TypeInit == Init => TypeOK
BY NoRowIsRow DEF Init, TypeOK, IdleWork, Idle, Replies

LEMMA TypeStep == TypeOK /\ [Next]_vars => TypeOK'
<1> SUFFICES ASSUME TypeOK, [Next]_vars PROVE TypeOK'
  OBVIOUS
<1> USE NoRowIsRow
<1>idle. ASSUME NEW w \in Workers, NEW reply \in Replies, Finish(w, reply)
         PROVE  work' \in [Workers -> IdleWork \cup BusyWork]
  BY <1>idle DEF Finish, Idle, IdleWork, TypeOK
<1>busy. ASSUME NEW w \in Workers, NEW b \in BusyWork,
                work' = [work EXCEPT ![w] = b]
         PROVE  work' \in [Workers -> IdleWork \cup BusyWork]
  BY <1>busy DEF TypeOK
<1>1. ASSUME NEW u \in Users, DeleteUser(u) PROVE TypeOK'
  BY <1>1 DEF DeleteUser, TypeOK
<1>2. ASSUME NEW w \in Workers, NEW u \in Users, NEW op \in Operations,
             NEW id \in Requests, Begin(w, u, op, id)
      PROVE  TypeOK'
  BY <1>2, <1>busy DEF Begin, TypeOK, BusyWork
<1>3. ASSUME NEW w \in Workers, Create(w) PROVE TypeOK'
  <2>1. work[w] \in BusyWork
    BY <1>3, BusyWorker DEF Create, InHandler
  <2>2. rows' \in [Requests -> Row]
    BY <1>3, <2>1 DEF Create, TypeOK, Row, NoRow, BusyWork, Statuses
  <2>3. work' \in [Workers -> IdleWork \cup BusyWork]
    BY <1>3, <2>1 DEF Create, TypeOK, BusyWork
  <2>4. QED BY <1>3, <2>2, <2>3 DEF Create, TypeOK
<1>4. ASSUME NEW w \in Workers, ApproveSelectForUpdate(w) PROVE TypeOK'
  <2>1. work[w] \in BusyWork
    BY <1>4, BusyWorker DEF ApproveSelectForUpdate, InHandler
  <2>2. work' \in [Workers -> IdleWork \cup BusyWork]
    <3>1. CASE Finish(w, "not_found")
      BY <3>1, <1>idle DEF Replies
    <3>2. CASE work' = [work EXCEPT ![w].pc = "locked",
                                    ![w].snap = rows[work[w].id]]
      BY <3>2, <2>1 DEF TypeOK, BusyWork
    <3>3. QED BY <1>4, <3>1, <3>2 DEF ApproveSelectForUpdate
  <2>3. lock' \in [Requests -> Workers \cup {NoWorker}]
    BY <1>4, <2>1 DEF ApproveSelectForUpdate, TypeOK, BusyWork
  <2>4. QED BY <1>4, <2>2, <2>3 DEF ApproveSelectForUpdate, TypeOK
<1>5. ASSUME NEW w \in Workers, ApproveRefuse(w) PROVE TypeOK'
  <2>1. ApproveVerdict(work[w].snap, work[w].user) \in Replies
    BY DEF ApproveVerdict, Replies
  <2>2. QED BY <1>5, <1>idle, <2>1 DEF ApproveRefuse, TypeOK
<1>6. ASSUME NEW w \in Workers, ApproveCommit(w) PROVE TypeOK'
  <2>1. work[w] \in BusyWork
    BY <1>6, BusyWorker DEF ApproveCommit
  <2>2. rows' \in [Requests -> Row]
    <3>1. FillSlot(rows[work[w].id], work[w].snap, work[w].user) \in Row
      BY <2>1, FillSlotType DEF TypeOK, BusyWork
    <3>2. QED BY <1>6, <3>1 DEF ApproveCommit, TypeOK
  <2>3. work' \in [Workers -> IdleWork \cup BusyWork]
    BY <1>6, <2>1 DEF ApproveCommit, TypeOK, BusyWork
  <2>4. QED BY <1>6, <2>2, <2>3 DEF ApproveCommit, TypeOK
<1>7. ASSUME NEW w \in Workers, ApproveReread(w) PROVE TypeOK'
  <2>1. work[w] \in BusyWork
    BY <1>7, BusyWorker DEF ApproveReread
  <2>2. rows[work[w].id].status \in Statuses \cup {"absent"}
    BY <2>1 DEF TypeOK, Row, BusyWork
  <2>3. work' \in [Workers -> IdleWork \cup BusyWork]
    <3>1. PICK seen \in Statuses \cup {"absent"} :
             work' = [work EXCEPT ![w].pc = "audit", ![w].after = seen]
      BY <1>7, <2>2 DEF ApproveReread
    <3>2. QED BY <2>1, <3>1 DEF TypeOK, BusyWork
  <2>4. QED BY <1>7, <2>3 DEF ApproveReread, TypeOK
<1>8. ASSUME NEW w \in Workers, NEW op \in {"reject", "cancel", "fulfill"},
             ConditionalUpdate(w, op)
      PROVE  TypeOK'
  <2>1. work[w] \in BusyWork
    BY <1>8, BusyWorker DEF ConditionalUpdate, InHandler
  <2>2. rows' \in [Requests -> Row]
    BY <1>8, <2>1 DEF ConditionalUpdate, StatusSet, TypeOK, Row, BusyWork, Statuses
  <2>3. work' \in [Workers -> IdleWork \cup BusyWork]
    <3>1. CASE Finish(w, "invalid_state")
      BY <3>1, <1>idle DEF Replies
    <3>2. CASE \E p \in {"audit", "classify"} : work' = [work EXCEPT ![w].pc = p]
      BY <3>2, <2>1 DEF TypeOK, BusyWork
    <3>3. QED BY <1>8, <3>1, <3>2 DEF ConditionalUpdate
  <2>4. QED BY <1>8, <2>2, <2>3 DEF ConditionalUpdate, TypeOK
<1>9. ASSUME NEW w \in Workers, Classify(w) PROVE TypeOK'
  <2>1. \E reply \in Replies : Finish(w, reply)
    BY <1>9 DEF Classify, Replies
  <2>2. QED BY <1>9, <1>idle, <2>1 DEF Classify, TypeOK
<1>10. ASSUME NEW w \in Workers, WriteAudit(w) PROVE TypeOK'
  <2>1. work[w] \in BusyWork
    BY <1>10, BusyWorker DEF WriteAudit
  <2>2. audit' \subseteq AuditEvent
    BY <1>10, <2>1 DEF WriteAudit, TypeOK, AuditEvent, BusyWork
  <2>3. QED BY <1>10, <2>2, <1>idle DEF WriteAudit, TypeOK, Replies
<1>11. ASSUME NEW w \in Workers, Abort(w) PROVE TypeOK'
  BY <1>11, <1>idle DEF Abort, TypeOK, Replies
<1>12. CASE UNCHANGED vars
  BY <1>12 DEF vars, TypeOK
<1>13. QED
  BY <1>1, <1>2, <1>3, <1>4, <1>5, <1>6, <1>7, <1>8, <1>9, <1>10, <1>11, <1>12
     DEF Next, Reject, Cancel, Fulfill

(* The tables, the lock words and the requests in flight keep their types. *)
THEOREM TypeCorrect == Spec => []TypeOK
BY TypeInit, TypeStep, PTL DEF Spec

--------------------------------------------------------------------------------
(* The inductive invariant. *)
LEMMA InvInit == Init => IInv
<1> SUFFICES ASSUME Init PROVE IInv
  OBVIOUS
<1>1. TypeOK
  BY TypeInit
<1>2. RowsCoherent
  BY NoRowIsRow DEF Init, RowsCoherent
<1>3. LocksGuard /\ KeysFresh /\ SlotsNeverOverfilled
  BY DEF Init, Idle, LocksGuard, KeysFresh, InHandler, SlotsNeverOverfilled
<1>4. QED BY <1>1, <1>2, <1>3 DEF IInv

(* A step that leaves the rows alone and neither opens a transaction nor   *)
(* reserves a key keeps the invariant; so do Finish and the later steps.   *)
LEMMA QuietStep ==
    ASSUME IInv, TypeOK', NEW w \in Workers, UNCHANGED rows,
           \A v \in Workers \ {w} : work'[v] = work[v],
           work'[w].pc \notin {"locked", "handler"},
           work'[w] # Idle("already_filled"),
           \A id \in Requests : lock[id] # w => lock'[id] = lock[id]
    PROVE  IInv'
<1>1. RowsCoherent'
  BY DEF IInv, RowsCoherent
<1>2. LocksGuard'
  <2> SUFFICES ASSUME NEW v \in Workers, work'[v].pc = "locked"
               PROVE  /\ lock'[work'[v].id] = v
                      /\ work'[v].snap = rows'[work'[v].id]
                      /\ rows'[work'[v].id].status # "absent"
    BY DEF LocksGuard
  <2>1. v # w /\ work'[v] = work[v]
    OBVIOUS
  <2>2. work[v] \in BusyWork
    BY <2>1, BusyWorker DEF IInv
  <2>3. QED BY <2>1, <2>2 DEF IInv, LocksGuard, BusyWork
<1>3. KeysFresh'
  BY DEF IInv, KeysFresh, InHandler
<1>4. SlotsNeverOverfilled'
  BY DEF IInv, SlotsNeverOverfilled, Idle
<1>5. QED BY <1>1, <1>2, <1>3, <1>4 DEF IInv

(* A pending row has a free slot, so no approval is refused as overfilled. *)
LEMMA VerdictNotOverfilled ==
    ASSUME NEW row \in Row, Coherent(row), NEW approver \in Users
    PROVE  ApproveVerdict(row, approver) # "already_filled"
BY DEF ApproveVerdict, Coherent, Row

(* What a positive verdict says about the selected row. *)
LEMMA VerdictOk ==
    ASSUME NEW row, NEW approver, ApproveVerdict(row, approver) = "ok"
    PROVE  /\ row.status = "pending"
           /\ row.requestedBy # approver
           /\ row.approval1 # approver \/ row.approval1 = NoUser
BY DEF ApproveVerdict

(* Filling the slot the verdict allows keeps the row coherent. *)
LEMMA FillSlotCoherent ==
    ASSUME NEW row \in Row, Coherent(row), NEW approver \in Users,
           row.status = "pending", ApproveVerdict(row, approver) = "ok"
    PROVE  Coherent(FillSlot(row, row, approver))
<1> USE VerdictOk, UsersAssumption
<1>1. CASE row.approval1 = NoUser
  <2>1. FillSlot(row, row, approver) = [row EXCEPT !.approval1 = approver]
    BY <1>1 DEF FillSlot
  <2>2. QED BY <1>1, <2>1 DEF Coherent, Row
<1>2. CASE row.approval1 # NoUser
  <2>1. FillSlot(row, row, approver)
          = [row EXCEPT !.approval2 = approver, !.status = "approved"]
    BY <1>2 DEF FillSlot
  <2>2. QED BY <1>2, <2>1 DEF Coherent, Row
<1>3. QED BY <1>1, <1>2

(* So does a conditional UPDATE whose WHERE clause matched. *)
LEMMA UpdateCoherent ==
    ASSUME NEW row \in Row, Coherent(row), NEW actor \in Users,
           NEW op \in {"reject", "cancel", "fulfill"},
           UpdateMatches(op, row, actor)
    PROVE  Coherent([row EXCEPT !.status = StatusSet(op)])
BY DEF UpdateMatches, StatusSet, Coherent, Row

(* A write to a row whose lock is free, or held by the writer, keeps the   *)
(* invariant if the new row is coherent and no key is reserved for it.     *)
LEMMA RowWrite ==
    ASSUME IInv, TypeOK', NEW w \in Workers, NEW id \in Requests,
           lock[id] \in {w, NoWorker} \/ rows[id] = NoRow,
           NEW new, Coherent(new), rows' = [rows EXCEPT ![id] = new],
           rows[id] = NoRow => InHandler(w, "request") /\ work[w].id = id,
           \A v \in Workers \ {w} : work'[v] = work[v],
           work'[w].pc \in {"audit", "reread"},
           \A r \in Requests : lock[r] # w => lock'[r] = lock[r]
    PROVE  IInv'
<1>1. RowsCoherent'
  BY DEF IInv, RowsCoherent, TypeOK
<1>2. LocksGuard'
  <2> SUFFICES ASSUME NEW v \in Workers, work'[v].pc = "locked"
               PROVE  /\ lock'[work'[v].id] = v
                      /\ work'[v].snap = rows'[work'[v].id]
                      /\ rows'[work'[v].id].status # "absent"
    BY DEF LocksGuard
  <2>1. v # w /\ work'[v] = work[v]
    OBVIOUS
  <2>2. work[v] \in BusyWork
    BY <2>1, BusyWorker DEF IInv
  <2>3. /\ lock[work[v].id] = v
        /\ work[v].snap = rows[work[v].id]
        /\ rows[work[v].id].status # "absent"
    BY <2>1 DEF IInv, LocksGuard
  <2>4. work[v].id # id
    BY <2>1, <2>3, WorkersAssumption DEF NoRow
  <2>5. rows'[work[v].id] = rows[work[v].id]
    BY <2>2, <2>4 DEF IInv, TypeOK, BusyWork
  <2>6. QED BY <2>1, <2>2, <2>3, <2>5 DEF BusyWork
<1>3. KeysFresh'
  <2> SUFFICES ASSUME NEW v \in Workers, InHandler(v, "request")'
               PROVE  /\ rows'[work'[v].id] = NoRow
                      /\ \A u \in Workers : InHandler(u, "request")'
                            /\ work'[u].id = work'[v].id => u = v
    BY DEF KeysFresh
  <2>1. v # w /\ work'[v] = work[v]
    BY DEF InHandler
  <2>2. InHandler(v, "request")
    BY <2>1 DEF InHandler
  <2>3. work[v] \in BusyWork
    BY <2>2, BusyWorker DEF IInv, InHandler
  <2>4. work[v].id # id
    BY <2>1, <2>2 DEF IInv, KeysFresh
  <2>5. rows'[work[v].id] = rows[work[v].id]
    BY <2>3, <2>4 DEF IInv, TypeOK, BusyWork
  <2>6. \A u \in Workers : InHandler(u, "request")' => work'[u] = work[u]
    BY DEF InHandler
  <2>7. QED BY <2>1, <2>2, <2>5, <2>6 DEF IInv, KeysFresh, InHandler
<1>4. SlotsNeverOverfilled'
  BY DEF IInv, SlotsNeverOverfilled, Idle
<1>5. QED BY <1>1, <1>2, <1>3, <1>4 DEF IInv

LEMMA InvStep == IInv /\ [Next]_vars => IInv'
<1> SUFFICES ASSUME IInv, [Next]_vars PROVE IInv'
  OBVIOUS
<1>type. TypeOK'
  BY TypeStep DEF IInv
<1>work. work \in [Workers -> IdleWork \cup BusyWork]
  BY DEF IInv, TypeOK
<1>done. ASSUME NEW w \in Workers, NEW reply, reply # "already_filled",
                Finish(w, reply), UNCHANGED rows,
                \A id \in Requests : lock[id] # w => lock'[id] = lock[id]
         PROVE  IInv'
  <2>1. work'[w] = Idle(reply) /\ \A v \in Workers \ {w} : work'[v] = work[v]
    BY <1>done, <1>work DEF Finish
  <2>2. QED BY <1>done, <1>type, <2>1, QuietStep DEF Idle
<1>1. ASSUME NEW u \in Users, DeleteUser(u) PROVE IInv'
  BY <1>1, <1>type DEF DeleteUser, IInv, RowsCoherent, LocksGuard, KeysFresh,
                       InHandler, SlotsNeverOverfilled
<1>2. ASSUME NEW w \in Workers, NEW u \in Users, NEW op \in Operations,
             NEW id \in Requests, Begin(w, u, op, id)
      PROVE  IInv'
  <2>1. /\ work'[w].pc = "handler" /\ work'[w].op = op /\ work'[w].id = id
        /\ \A v \in Workers \ {w} : work'[v] = work[v]
    BY <1>2, <1>work DEF Begin
  <2>2. UNCHANGED <<rows, lock>> /\ (op = "request" => FreshId(id))
    BY <1>2 DEF Begin
  <2>3. RowsCoherent' /\ LocksGuard'
    BY <2>1, <2>2 DEF IInv, RowsCoherent, LocksGuard
  <2>4. KeysFresh'
    BY <2>1, <2>2 DEF IInv, KeysFresh, InHandler, FreshId
  <2>5. SlotsNeverOverfilled'
    BY <2>1 DEF IInv, SlotsNeverOverfilled, Idle
  <2>6. QED BY <1>type, <2>3, <2>4, <2>5 DEF IInv
<1>3. ASSUME NEW w \in Workers, Create(w) PROVE IInv'
  <2> DEFINE new == [NoRow EXCEPT !.status = "pending",
                                  !.requestedBy = work[w].user]
  <2>1. work[w] \in BusyWork /\ InHandler(w, "request")
    BY <1>3, BusyWorker DEF Create, InHandler, IInv
  <2>2. rows[work[w].id] = NoRow
    BY <2>1 DEF IInv, KeysFresh
  <2>3. Coherent(new)
    BY <2>1 DEF Coherent, NoRow, BusyWork
  <2>4. /\ work'[w].pc = "audit"
        /\ \A v \in Workers \ {w} : work'[v] = work[v]
    BY <1>3, <1>work, <2>1 DEF Create, BusyWork
  <2>5. rows' = [rows EXCEPT ![work[w].id] = new] /\ UNCHANGED lock
    BY <1>3 DEF Create
  <2>6. work[w].id \in Requests
    BY <2>1 DEF BusyWork
  <2> HIDE DEF new
  <2>7. QED BY <1>type, <2>1, <2>2, <2>3, <2>4, <2>5, <2>6, RowWrite
<1>4. ASSUME NEW w \in Workers, ApproveSelectForUpdate(w) PROVE IInv'
  <2>1. work[w] \in BusyWork
    BY <1>4, BusyWorker DEF ApproveSelectForUpdate, InHandler, IInv
  <2>2. CASE Finish(w, "not_found") /\ UNCHANGED lock
    BY <1>4, <2>2, <1>done DEF ApproveSelectForUpdate
  <2>3. CASE /\ rows[work[w].id].status # "absent"
             /\ work' = [work EXCEPT ![w].pc = "locked",
                                     ![w].snap = rows[work[w].id]]
             /\ lock' = [lock EXCEPT ![work[w].id] = w]
    <3>1. /\ work'[w].pc = "locked" /\ work'[w].id = work[w].id
          /\ work'[w].snap = rows[work[w].id]
          /\ \A v \in Workers \ {w} : work'[v] = work[v]
      BY <2>3, <2>1, <1>work DEF BusyWork
    <3>2. UNCHANGED rows /\ lock[work[w].id] = NoWorker
      BY <1>4 DEF ApproveSelectForUpdate, Unlocked
    <3>3. RowsCoherent' /\ KeysFresh'
      BY <3>1, <3>2 DEF IInv, RowsCoherent, KeysFresh, InHandler
    <3>4. LocksGuard'
      <4> SUFFICES ASSUME NEW v \in Workers, work'[v].pc = "locked"
                   PROVE  /\ lock'[work'[v].id] = v
                          /\ work'[v].snap = rows'[work'[v].id]
                          /\ rows'[work'[v].id].status # "absent"
        BY DEF LocksGuard
      <4>0. work[w].id \in Requests /\ lock \in [Requests -> Workers \cup {NoWorker}]
        BY <2>1 DEF BusyWork, IInv, TypeOK
      <4>1. CASE v = w
        BY <4>1, <4>0, <2>3, <3>1, <3>2
      <4>2. CASE v # w
        <5>1. work[v] \in BusyWork
          BY <4>2, <3>1, BusyWorker DEF IInv
        <5>2. work'[v] = work[v] /\ work[v].id \in Requests
          BY <4>2, <3>1, <5>1 DEF BusyWork
        <5>3. /\ lock[work[v].id] = v
              /\ work[v].snap = rows[work[v].id]
              /\ rows[work[v].id].status # "absent"
          BY <5>2 DEF IInv, LocksGuard
        <5>4. work[v].id # work[w].id
          BY <3>2, <5>3, WorkersAssumption
        <5>5. lock'[work[v].id] = lock[work[v].id]
          BY <2>3, <4>0, <5>2, <5>4
        <5>6. QED BY <3>2, <5>2, <5>3, <5>5
      <4>3. QED BY <4>1, <4>2
    <3>5. SlotsNeverOverfilled'
      BY <3>1 DEF IInv, SlotsNeverOverfilled, Idle
    <3>6. QED BY <1>type, <3>3, <3>4, <3>5 DEF IInv
  <2>4. QED BY <1>4, <2>2, <2>3 DEF ApproveSelectForUpdate
<1>5. ASSUME NEW w \in Workers, ApproveRefuse(w) PROVE IInv'
  <2>1. work[w] \in BusyWork
    BY <1>5, BusyWorker DEF ApproveRefuse, IInv
  <2>2. work[w].snap = rows[work[w].id] /\ lock[work[w].id] = w
    BY <1>5 DEF ApproveRefuse, IInv, LocksGuard
  <2>3. ApproveVerdict(work[w].snap, work[w].user) # "already_filled"
    BY <2>1, <2>2, VerdictNotOverfilled DEF IInv, TypeOK, RowsCoherent, BusyWork
  <2>4. \A id \in Requests : lock[id] # w => lock'[id] = lock[id]
    BY <1>5, <2>1, <2>2 DEF ApproveRefuse, IInv, TypeOK, BusyWork
  <2>5. QED BY <1>5, <2>3, <2>4, <1>done DEF ApproveRefuse
<1>6. ASSUME NEW w \in Workers, ApproveCommit(w) PROVE IInv'
  <2> DEFINE id == work[w].id
             new == FillSlot(rows[id], work[w].snap, work[w].user)
  <2>1. work[w] \in BusyWork
    BY <1>6, BusyWorker DEF ApproveCommit, IInv
  <2>2. /\ work[w].snap = rows[id] /\ lock[id] = w
        /\ rows[id].status # "absent"
    BY <1>6 DEF ApproveCommit, IInv, LocksGuard
  <2>3. id \in Requests /\ rows[id] \in Row /\ Coherent(rows[id])
        /\ work[w].user \in Users
    BY <2>1 DEF IInv, TypeOK, RowsCoherent, BusyWork
  <2>4. rows[id].status = "pending"
    BY <1>6, <2>2, VerdictOk DEF ApproveCommit
  <2>5. Coherent(new)
    BY <1>6, <2>2, <2>3, <2>4, FillSlotCoherent DEF ApproveCommit
  <2>6. rows' = [rows EXCEPT ![id] = new]
    BY <1>6, <2>4 DEF ApproveCommit
  <2>7. \A r \in Requests : lock[r] # w => lock'[r] = lock[r]
    BY <1>6, <2>2, <2>3 DEF ApproveCommit, IInv, TypeOK
  <2>8. /\ work'[w].pc = "reread"
        /\ \A v \in Workers \ {w} : work'[v] = work[v]
    BY <1>6, <1>work, <2>1 DEF ApproveCommit, BusyWork
  <2>9. rows[id] # NoRow
    BY <2>2 DEF NoRow
  <2> HIDE DEF new, id
  <2>10. QED
    BY <1>type, <2>2, <2>3, <2>5, <2>6, <2>7, <2>8, <2>9, RowWrite
<1>7. ASSUME NEW w \in Workers, ApproveReread(w) PROVE IInv'
  <2>1. work[w] \in BusyWork
    BY <1>7, BusyWorker DEF ApproveReread, IInv
  <2>2. /\ work'[w].pc = "audit"
        /\ \A v \in Workers \ {w} : work'[v] = work[v]
    BY <1>7, <1>work, <2>1 DEF ApproveReread, BusyWork
  <2>3. UNCHANGED <<rows, lock>>
    BY <1>7 DEF ApproveReread
  <2>4. work'[w] # Idle("already_filled")
    BY <2>2 DEF Idle
  <2>5. QED BY <1>type, <2>2, <2>3, <2>4, QuietStep
<1>8. ASSUME NEW w \in Workers, NEW op \in {"reject", "cancel", "fulfill"},
             ConditionalUpdate(w, op)
      PROVE  IInv'
  <2> DEFINE id == work[w].id
             new == [rows[id] EXCEPT !.status = StatusSet(op)]
  <2>1. work[w] \in BusyWork
    BY <1>8, BusyWorker DEF ConditionalUpdate, InHandler, IInv
  <2>2. id \in Requests /\ rows[id] \in Row /\ Coherent(rows[id])
        /\ work[w].user \in Users
    BY <2>1 DEF IInv, TypeOK, RowsCoherent, BusyWork
  <2>3. lock[id] = NoWorker /\ UNCHANGED lock
    BY <1>8 DEF ConditionalUpdate, Unlocked
  <2>4. CASE /\ UpdateMatches(op, rows[id], work[w].user)
             /\ rows' = [rows EXCEPT ![id].status = StatusSet(op)]
             /\ work' = [work EXCEPT ![w].pc = "audit"]
    <3>1. Coherent(new)
      BY <2>2, <2>4, UpdateCoherent
    <3>2. rows' = [rows EXCEPT ![id] = new]
      BY <2>4
    <3>3. rows[id] # NoRow
      BY <2>4 DEF UpdateMatches, NoRow
    <3>4. /\ work'[w].pc = "audit"
          /\ \A v \in Workers \ {w} : work'[v] = work[v]
      BY <2>4, <1>work, <2>1 DEF BusyWork
    <3> HIDE DEF new, id
    <3>5. QED BY <1>type, <2>2, <2>3, <3>1, <3>2, <3>3, <3>4, RowWrite
  <2>5. CASE UNCHANGED rows /\ Finish(w, "invalid_state")
    BY <2>3, <2>5, <1>done
  <2>6. CASE UNCHANGED rows /\ work' = [work EXCEPT ![w].pc = "classify"]
    <3>1. /\ work'[w].pc = "classify"
          /\ \A v \in Workers \ {w} : work'[v] = work[v]
      BY <2>6, <1>work, <2>1 DEF BusyWork
    <3>2. QED BY <2>3, <2>6, <1>type, <3>1, QuietStep DEF Idle
  <2>7. QED BY <1>8, <2>4, <2>5, <2>6 DEF ConditionalUpdate
<1>9. ASSUME NEW w \in Workers, Classify(w) PROVE IInv'
  <2>1. \E reply \in {"not_found", "cannot_approve", "not_requester",
                      "invalid_state"} : Finish(w, reply)
    BY <1>9 DEF Classify
  <2>2. QED BY <1>9, <2>1, <1>done DEF Classify
<1>10. ASSUME NEW w \in Workers, WriteAudit(w) PROVE IInv'
  BY <1>10, <1>done DEF WriteAudit
<1>11. ASSUME NEW w \in Workers, Abort(w) PROVE IInv'
  BY <1>11, <1>done DEF Abort
<1>12. CASE UNCHANGED vars
  BY <1>12, <1>type DEF vars, IInv, RowsCoherent, LocksGuard, KeysFresh,
                        InHandler, SlotsNeverOverfilled
<1>13. QED
  BY <1>1, <1>2, <1>3, <1>4, <1>5, <1>6, <1>7, <1>8, <1>9, <1>10, <1>11, <1>12
     DEF Next, Reject, Cancel, Fulfill

LEMMA InvHolds == Spec => []IInv
BY InvInit, InvStep, PTL DEF Spec

--------------------------------------------------------------------------------
(* The four-eyes rule holds in every reachable state, however many         *)
(* approvals, rejections and cancellations run at once.                    *)
THEOREM FourEyesHolds == Spec => []FourEyes
<1>1. IInv => FourEyes
  <2> SUFFICES ASSUME IInv, NEW id \in Requests,
                      rows[id].status \in {"approved", "fulfilled"}
               PROVE  \E a, b \in Approvers(id) :
                         a # b /\ rows[id].requestedBy \notin {a, b}
    BY DEF FourEyes
  <2>1. Coherent(rows[id])
    BY DEF IInv, RowsCoherent
  <2>2. /\ rows[id].approval1 \in Approvers(id)
        /\ rows[id].approval2 \in Approvers(id)
        /\ rows[id].approval1 # rows[id].approval2
        /\ rows[id].requestedBy \notin {rows[id].approval1, rows[id].approval2}
    BY <2>1 DEF Coherent, Approvers
  <2>3. QED BY <2>2
<1>2. QED BY <1>1, InvHolds, PTL

(* The store never reports a third approval of a pending request. *)
THEOREM SlotsNeverOverfilledHolds == Spec => []SlotsNeverOverfilled
<1>1. IInv => SlotsNeverOverfilled
  BY DEF IInv
<1>2. QED BY <1>1, InvHolds, PTL

--------------------------------------------------------------------------------
(* A worker other than the lock's holder gives nothing away; the holder    *)
(* leaves its transaction only by releasing the lock.                      *)
LEMMA OtherWorkers ==
    ASSUME TypeOK, NoOrphanedLock, NEW w \in Workers, UNCHANGED lock,
           work[w].pc # "locked",
           \E x : work' = [work EXCEPT ![w] = x]
    PROVE  NoOrphanedLock'
<1> SUFFICES ASSUME NEW id \in Requests, lock[id] # NoWorker
             PROVE  work'[lock[id]] = work[lock[id]]
  BY DEF NoOrphanedLock
<1>1. lock[id] \in Workers /\ lock[id] # w
  BY DEF TypeOK, NoOrphanedLock
<1>2. QED BY <1>1 DEF TypeOK

(* No early return, error or crash leaves a row lock behind: a locked row  *)
(* belongs to a request whose transaction is open.                         *)
THEOREM NoOrphanedLockHolds == Spec => []NoOrphanedLock
<1>1. Init => NoOrphanedLock
  BY DEF Init, NoOrphanedLock
<1>2. TypeOK /\ NoOrphanedLock /\ [Next]_vars => NoOrphanedLock'
  <2> SUFFICES ASSUME TypeOK, NoOrphanedLock, [Next]_vars
               PROVE  NoOrphanedLock'
    OBVIOUS
  <2>1. CASE UNCHANGED vars
    BY <2>1 DEF vars, NoOrphanedLock
  <2>2. ASSUME NEW u \in Users, DeleteUser(u) PROVE NoOrphanedLock'
    BY <2>2 DEF DeleteUser, NoOrphanedLock
  <2>3. ASSUME NEW w \in Workers, NEW u \in Users, NEW op \in Operations,
               NEW id \in Requests, Begin(w, u, op, id)
        PROVE  NoOrphanedLock'
    BY <2>3, OtherWorkers DEF Begin
  <2>4. ASSUME NEW w \in Workers,
               \/ Create(w) \/ ApproveReread(w) \/ Reject(w) \/ Cancel(w)
               \/ Fulfill(w) \/ Classify(w) \/ WriteAudit(w)
        PROVE  NoOrphanedLock'
    <3>1. work[w].pc # "locked" /\ UNCHANGED lock
      BY <2>4 DEF Create, ApproveReread, Reject, Cancel, Fulfill,
                  ConditionalUpdate, Classify, WriteAudit, InHandler
    <3>2. \E x : work' = [work EXCEPT ![w] = x]
      BY <2>4 DEF Create, ApproveReread, Reject, Cancel, Fulfill,
                  ConditionalUpdate, Classify, WriteAudit, Finish
    <3>3. QED BY <3>1, <3>2, OtherWorkers
  <2>5. ASSUME NEW w \in Workers, ApproveSelectForUpdate(w)
        PROVE  NoOrphanedLock'
    <3>1. work[w].pc = "handler" /\ work[w] \in BusyWork
      BY <2>5, BusyWorker DEF ApproveSelectForUpdate, InHandler
    <3>2. CASE UNCHANGED lock /\ Finish(w, "not_found")
      BY <3>1, <3>2, OtherWorkers DEF Finish
    <3>3. CASE /\ work' = [work EXCEPT ![w].pc = "locked",
                                       ![w].snap = rows[work[w].id]]
               /\ lock' = [lock EXCEPT ![work[w].id] = w]
      <4>1. work[w].id \in Requests
            /\ work'[w].pc = "locked" /\ work'[w].id = work[w].id
        BY <3>1, <3>3 DEF TypeOK, BusyWork
      <4>2. ASSUME NEW id \in Requests, id # work[w].id, lock[id] # NoWorker
            PROVE  lock'[id] = lock[id] /\ work'[lock[id]] = work[lock[id]]
        <5>1. lock[id] \in Workers /\ lock[id] # w
          BY <3>1, <4>2 DEF TypeOK, NoOrphanedLock
        <5>2. QED BY <3>3, <4>2, <5>1 DEF TypeOK
      <4>3. QED BY <3>3, <4>1, <4>2 DEF TypeOK, NoOrphanedLock
    <3>4. QED BY <2>5, <3>2, <3>3 DEF ApproveSelectForUpdate
  <2>6. ASSUME NEW w \in Workers, ApproveRefuse(w) \/ ApproveCommit(w)
        PROVE  NoOrphanedLock'
    <3>1. /\ work[w].pc = "locked"
          /\ lock' = [lock EXCEPT ![work[w].id] = NoWorker]
      BY <2>6 DEF ApproveRefuse, ApproveCommit
    <3>2. \E x : work' = [work EXCEPT ![w] = x]
      BY <2>6 DEF ApproveRefuse, ApproveCommit, Finish
    <3>3. ASSUME NEW id \in Requests, lock'[id] # NoWorker
          PROVE  lock'[id] = lock[id] /\ work'[lock[id]] = work[lock[id]]
      <4>1. id # work[w].id /\ lock'[id] = lock[id]
        BY <3>1, <3>3 DEF TypeOK
      <4>2. lock[id] \in Workers /\ lock[id] # w
        BY <3>3, <4>1 DEF TypeOK, NoOrphanedLock
      <4>3. QED BY <3>2, <4>1, <4>2 DEF TypeOK
    <3>4. QED BY <3>3 DEF NoOrphanedLock
  <2>7. ASSUME NEW w \in Workers, Abort(w) PROVE NoOrphanedLock'
    <3>1. ASSUME NEW id \in Requests, lock'[id] # NoWorker
          PROVE  lock'[id] = lock[id] /\ work'[lock[id]] = work[lock[id]]
      <4>1. lock[id] # w /\ lock'[id] = lock[id] /\ lock[id] \in Workers
        BY <2>7, <3>1 DEF Abort, TypeOK
      <4>2. QED BY <2>7, <4>1 DEF Abort, Finish, TypeOK
    <3>2. QED BY <3>1 DEF NoOrphanedLock
  <2>8. QED BY <2>1, <2>2, <2>3, <2>4, <2>5, <2>6, <2>7 DEF Next
<1>3. QED BY <1>1, <1>2, TypeCorrect, PTL DEF Spec

--------------------------------------------------------------------------------
(* What a step may do to the table: nothing, an INSERT under a free key,   *)
(* an approval the verdict allows on the row as it is now, or one of the   *)
(* conditional UPDATEs.                                                    *)
Insertion(id, u) ==
    /\ rows[id] = NoRow
    /\ rows' = [rows EXCEPT ![id] = [NoRow EXCEPT !.status = "pending",
                                                  !.requestedBy = u]]
Approval(id, u) ==
    /\ ApproveVerdict(rows[id], u) = "ok"
    /\ rows' = [rows EXCEPT ![id] = FillSlot(rows[id], rows[id], u)]
Settlement(id, u, op) ==
    /\ UpdateMatches(op, rows[id], u)
    /\ rows' = [rows EXCEPT ![id].status = StatusSet(op)]
TableStep ==
    \E id \in Requests, u \in Users :
       \/ Insertion(id, u)
       \/ Approval(id, u)
       \/ \E op \in {"reject", "cancel", "fulfill"} : Settlement(id, u, op)

LEMMA StepsOfTheTable == IInv /\ [Next]_vars => TableStep \/ UNCHANGED rows
<1> SUFFICES ASSUME IInv, [Next]_vars, ~UNCHANGED rows PROVE TableStep
  OBVIOUS
<1>1. PICK w \in Workers :
         \/ Create(w)
         \/ ApproveCommit(w)
         \/ \E op \in {"reject", "cancel", "fulfill"} : ConditionalUpdate(w, op)
  BY DEF Next, vars, DeleteUser, Begin, ApproveSelectForUpdate, ApproveRefuse,
         ApproveReread, Reject, Cancel, Fulfill, Classify, WriteAudit, Abort
<1>2. work[w] \in BusyWork
  BY <1>1, BusyWorker DEF IInv, Create, ApproveCommit, ConditionalUpdate, InHandler
<1>3. work[w].id \in Requests /\ work[w].user \in Users
  BY <1>2 DEF BusyWork
<1>4. CASE Create(w)
  <2>1. rows[work[w].id] = NoRow
    BY <1>4 DEF Create, IInv, KeysFresh
  <2>2. Insertion(work[w].id, work[w].user)
    BY <1>4, <2>1 DEF Create, Insertion
  <2>3. QED BY <1>3, <2>2 DEF TableStep
<1>5. CASE ApproveCommit(w)
  <2>1. work[w].snap = rows[work[w].id]
    BY <1>5 DEF ApproveCommit, IInv, LocksGuard
  <2>2. Approval(work[w].id, work[w].user)
    BY <1>5, <2>1 DEF ApproveCommit, Approval
  <2>3. QED BY <1>3, <2>2 DEF TableStep
<1>6. ASSUME NEW op \in {"reject", "cancel", "fulfill"}, ConditionalUpdate(w, op)
      PROVE  TableStep
  <2>1. Settlement(work[w].id, work[w].user, op)
    BY <1>6 DEF ConditionalUpdate, Settlement
  <2>2. QED BY <1>3, <2>1 DEF TableStep
<1>7. QED BY <1>1, <1>4, <1>5, <1>6

(* What no step does to a row that has approvals or is settled. *)
Stands(id) ==
    /\ rows[id].approval1 # NoUser => rows'[id].approval1 = rows[id].approval1
    /\ rows[id].approval2 # NoUser => rows'[id].approval2 = rows[id].approval2
    /\ rows[id].status \in {"rejected", "cancelled", "fulfilled"} =>
          rows'[id] = rows[id]
    /\ rows[id].status = "approved" =>
          rows'[id].status \in {"approved", "fulfilled"}

LEMMA RowStands ==
    ASSUME IInv, [Next]_vars, NEW id \in Requests
    PROVE  Stands(id)
<1> USE DEF Stands
<1>1. CASE UNCHANGED rows
  BY <1>1
<1>2. CASE TableStep
  <2>1. PICK r \in Requests, u \in Users :
           \/ Insertion(r, u)
           \/ Approval(r, u)
           \/ \E op \in {"reject", "cancel", "fulfill"} : Settlement(r, u, op)
    BY <1>2 DEF TableStep
  <2>2. rows \in [Requests -> Row] /\ Coherent(rows[r]) /\ rows[r] \in Row
    BY DEF IInv, TypeOK, RowsCoherent
  <2>3. CASE id # r
    BY <2>1, <2>2, <2>3 DEF Insertion, Approval, Settlement
  <2>4. CASE id = r /\ Insertion(r, u)
    BY <2>4 DEF Insertion, NoRow
  <2>5. CASE id = r /\ Approval(r, u)
    <3>1. rows'[r] = FillSlot(rows[r], rows[r], u)
      BY <2>2, <2>5 DEF Approval
    <3>2. rows[r].status = "pending"
      BY <2>5, VerdictOk DEF Approval
    <3>3. rows[r].approval2 = NoUser
      BY <2>2, <3>2 DEF Coherent
    <3>4. QED BY <2>2, <2>5, <3>1, <3>2, <3>3 DEF FillSlot, Row
  <2>6. ASSUME id = r, NEW op \in {"reject", "cancel", "fulfill"},
               Settlement(r, u, op)
        PROVE  Stands(id)
    <3>1. rows'[r] = [rows[r] EXCEPT !.status = StatusSet(op)]
      BY <2>2, <2>6 DEF Settlement
    <3>2. QED BY <2>2, <2>6, <3>1 DEF Settlement, UpdateMatches, StatusSet, Row
  <2>7. QED BY <2>1, <2>3, <2>4, <2>5, <2>6
<1>3. QED BY <1>1, <1>2, StepsOfTheTable

(* Approvals are never overwritten and settled requests never move again. *)
THEOREM ApprovalsStandHolds == Spec => ApprovalsStand
<1>1. IInv /\ [Next]_vars => [\A id \in Requests : Stands(id)]_vars
  BY RowStands
<1>2. QED BY <1>1, InvHolds, PTL DEF Spec, ApprovalsStand, Stands

--------------------------------------------------------------------------------
(* What a 200 and an audit row say stays true: the effect of a mutation is *)
(* never undone by a later step, whoever takes it.                         *)
LEMMA EffectStands ==
    ASSUME IInv, [Next]_vars, NEW id \in Requests, NEW actor \in Users,
           NEW action \in Operations, Effect(action, actor, id)
    PROVE  Effect(action, actor, id)'
<1>1. CASE UNCHANGED rows
  BY <1>1 DEF Effect, Approvers
<1>2. CASE TableStep
  <2>1. PICK r \in Requests, u \in Users :
           \/ Insertion(r, u)
           \/ Approval(r, u)
           \/ \E op \in {"reject", "cancel", "fulfill"} : Settlement(r, u, op)
    BY <1>2 DEF TableStep
  <2>2. rows \in [Requests -> Row] /\ Coherent(rows[r]) /\ rows[r] \in Row
    BY DEF IInv, TypeOK, RowsCoherent
  <2>3. CASE id # r
    <3>1. rows'[id] = rows[id]
      BY <2>1, <2>2, <2>3 DEF Insertion, Approval, Settlement
    <3>2. QED BY <3>1 DEF Effect, Approvers
  <2>4. CASE id = r /\ Insertion(r, u)
    <3>1. /\ rows[id].status = "absent" /\ rows[id].requestedBy = NoUser
          /\ Approvers(id) = {}
      BY <2>4 DEF Insertion, NoRow, Approvers
    <3>2. QED BY <3>1, UsersAssumption DEF Effect, Operations
  <2>5. CASE id = r /\ Approval(r, u)
    <3>1. rows'[r] = FillSlot(rows[r], rows[r], u)
      BY <2>2, <2>5 DEF Approval
    <3>2. rows[r].status = "pending"
      BY <2>5, VerdictOk DEF Approval
    <3>3. rows[r].approval2 = NoUser
      BY <2>2, <3>2 DEF Coherent
    <3>4. /\ rows'[r].requestedBy = rows[r].requestedBy
          /\ Approvers(r) \subseteq Approvers(r)'
      BY <2>2, <3>1, <3>3 DEF FillSlot, Row, Approvers
    <3>5. QED BY <2>5, <3>2, <3>4 DEF Effect, Operations
  <2>6. ASSUME id = r, NEW op \in {"reject", "cancel", "fulfill"},
               Settlement(r, u, op)
        PROVE  Effect(action, actor, id)'
    <3>1. rows'[r] = [rows[r] EXCEPT !.status = StatusSet(op)]
      BY <2>2, <2>6 DEF Settlement
    <3>2. /\ rows'[r].requestedBy = rows[r].requestedBy
          /\ Approvers(r)' = Approvers(r)
      BY <2>2, <3>1 DEF Row, Approvers
    <3>3. rows[r].status \notin {"rejected", "cancelled", "fulfilled"}
      BY <2>6 DEF Settlement, UpdateMatches
    <3>4. QED BY <2>6, <3>2, <3>3 DEF Effect, Operations
  <2>7. QED BY <2>1, <2>3, <2>4, <2>5, <2>6
<1>3. QED BY <1>1, <1>2, StepsOfTheTable

(* What is on record of a request in flight.  Between its commit and its   *)
(* audit row an approval stands in the table, and the status it has read   *)
(* again is pending only if it was the first of the two.                   *)
OnRecord(w) ==
    /\ work[w].pc = "audit" => Effect(work[w].op, work[w].user, work[w].id)
    /\ work[w].pc \in {"locked", "reread"} => work[w].op = "approve"
    /\ work[w].pc = "reread" => work[w].user \in Approvers(work[w].id)
    /\ work[w].pc = "audit" /\ work[w].op = "approve"
          /\ work[w].after = "pending" =>
             rows[work[w].id].approval1 = work[w].user

(* The same of an audit row. *)
Witnessed(e) ==
    /\ Effect(e.action, e.actor, e.id)
    /\ e.action = "approve" /\ e.status_after = "pending" =>
          rows[e.id].approval1 = e.actor

BooksInv == /\ \A w \in Workers : OnRecord(w)
            /\ \A e \in audit : Witnessed(e)

LEMMA BooksInit == Init => BooksInv
BY DEF Init, Idle, BooksInv, OnRecord

(* The record of a request that does not move in a step stays right. *)
LEMMA OnRecordStands ==
    ASSUME IInv, [Next]_vars, NEW v \in Workers, work'[v] = work[v], OnRecord(v)
    PROVE  OnRecord(v)'
<1> SUFFICES ASSUME work[v].pc \in {"audit", "reread"} PROVE OnRecord(v)'
  BY DEF OnRecord
<1>1. work[v] \in BusyWork
  BY BusyWorker DEF IInv
<1>2. /\ work[v].id \in Requests /\ work[v].user \in Users
      /\ work[v].op \in Operations
  BY <1>1 DEF BusyWork
<1>3. CASE work[v].pc = "audit"
  <2>1. Effect(work[v].op, work[v].user, work[v].id)'
    BY <1>2, <1>3, EffectStands DEF OnRecord
  <2>2. ASSUME work[v].op = "approve", work[v].after = "pending"
        PROVE  rows'[work[v].id].approval1 = work[v].user
    BY <1>2, <1>3, <2>2, RowStands, UsersAssumption DEF OnRecord, Stands
  <2>3. QED BY <1>3, <2>1, <2>2 DEF OnRecord
<1>4. CASE work[v].pc = "reread"
  <2>1. Effect("approve", work[v].user, work[v].id)
    BY <1>4 DEF OnRecord, Effect
  <2>2. Effect("approve", work[v].user, work[v].id)'
    BY <1>2, <2>1, EffectStands DEF Operations
  <2>3. QED BY <1>4, <2>2 DEF Effect, OnRecord
<1>5. QED BY <1>3, <1>4

(* An audit row that is right stays right. *)
LEMMA WitnessedStands ==
    ASSUME IInv, [Next]_vars, NEW e \in AuditEvent, Witnessed(e)
    PROVE  Witnessed(e)'
<1>1. e.id \in Requests /\ e.actor \in Users /\ e.action \in Operations
  BY DEF AuditEvent
<1>2. Effect(e.action, e.actor, e.id)'
  BY <1>1, EffectStands DEF Witnessed
<1>3. QED BY <1>1, <1>2, RowStands, UsersAssumption DEF Witnessed, Stands

(* So the books stay right if the request that moves is rightly recorded. *)
LEMMA BooksKept ==
    ASSUME IInv, BooksInv, [Next]_vars, NEW w \in Workers,
           \A v \in Workers \ {w} : work'[v] = work[v],
           OnRecord(w)', UNCHANGED audit
    PROVE  BooksInv'
<1>1. \A v \in Workers : OnRecord(v)'
  BY OnRecordStands DEF BooksInv
<1>2. \A e \in audit : Witnessed(e)'
  BY WitnessedStands DEF BooksInv, IInv, TypeOK
<1>3. QED BY <1>1, <1>2 DEF BooksInv

LEMMA BooksStep == IInv /\ BooksInv /\ [Next]_vars => BooksInv'
<1> SUFFICES ASSUME IInv, BooksInv, [Next]_vars PROVE BooksInv'
  OBVIOUS
<1>work. work \in [Workers -> IdleWork \cup BusyWork]
  BY DEF IInv, TypeOK
<1>done. ASSUME NEW w \in Workers, NEW reply, Finish(w, reply)
         PROVE  /\ OnRecord(w)'
                /\ \A v \in Workers \ {w} : work'[v] = work[v]
  BY <1>done, <1>work DEF Finish, Idle, OnRecord
<1>same. ASSUME UNCHANGED <<work, audit>> PROVE BooksInv'
  <2>1. \A v \in Workers : OnRecord(v)'
    BY <1>same, OnRecordStands DEF BooksInv
  <2>2. \A e \in audit : Witnessed(e)'
    BY WitnessedStands DEF BooksInv, IInv, TypeOK
  <2>3. QED BY <1>same, <2>1, <2>2 DEF BooksInv
<1>1. ASSUME NEW u \in Users, DeleteUser(u) PROVE BooksInv'
  BY <1>1, <1>same DEF DeleteUser
<1>2. ASSUME NEW w \in Workers, NEW u \in Users, NEW op \in Operations,
             NEW id \in Requests, Begin(w, u, op, id)
      PROVE  BooksInv'
  <2>1. work'[w].pc = "handler" /\ \A v \in Workers \ {w} : work'[v] = work[v]
    BY <1>2, <1>work DEF Begin
  <2>2. QED BY <1>2, <2>1, BooksKept DEF Begin, OnRecord
<1>3. ASSUME NEW w \in Workers, Create(w) PROVE BooksInv'
  <2>1. work[w] \in BusyWork /\ work[w].op = "request"
    BY <1>3, BusyWorker DEF Create, InHandler, IInv
  <2>2. /\ work'[w] = [work[w] EXCEPT !.pc = "audit"]
        /\ \A v \in Workers \ {w} : work'[v] = work[v]
    BY <1>3, <1>work DEF Create
  <2>3. rows'[work[w].id].requestedBy = work[w].user
    BY <1>3, <2>1 DEF Create, IInv, TypeOK, BusyWork, NoRow
  <2>4. OnRecord(w)'
    BY <2>1, <2>2, <2>3 DEF OnRecord, Effect, BusyWork
  <2>5. QED BY <1>3, <2>2, <2>4, BooksKept DEF Create
<1>4. ASSUME NEW w \in Workers, ApproveSelectForUpdate(w) PROVE BooksInv'
  <2>1. work[w] \in BusyWork /\ work[w].op = "approve"
    BY <1>4, BusyWorker DEF ApproveSelectForUpdate, InHandler, IInv
  <2>2. CASE Finish(w, "not_found")
    BY <1>4, <2>2, <1>done, BooksKept DEF ApproveSelectForUpdate
  <2>3. CASE work' = [work EXCEPT ![w].pc = "locked",
                                  ![w].snap = rows[work[w].id]]
    <3>1. /\ work'[w].pc = "locked" /\ work'[w].op = "approve"
          /\ \A v \in Workers \ {w} : work'[v] = work[v]
      BY <1>work, <2>1, <2>3 DEF BusyWork
    <3>2. QED BY <1>4, <3>1, BooksKept DEF ApproveSelectForUpdate, OnRecord
  <2>4. QED BY <1>4, <2>2, <2>3 DEF ApproveSelectForUpdate
<1>5. ASSUME NEW w \in Workers, ApproveRefuse(w) PROVE BooksInv'
  <2>1. Finish(w, ApproveVerdict(work[w].snap, work[w].user)) /\ UNCHANGED audit
    BY <1>5 DEF ApproveRefuse
  <2>2. QED BY <2>1, <1>done, BooksKept
<1>6. ASSUME NEW w \in Workers, ApproveCommit(w) PROVE BooksInv'
  <2>1. work[w] \in BusyWork /\ work[w].op = "approve"
    BY <1>6, BusyWorker DEF ApproveCommit, IInv, BooksInv, OnRecord
  <2>2. /\ work'[w].pc = "reread" /\ work'[w].op = "approve"
        /\ work'[w].user = work[w].user /\ work'[w].id = work[w].id
        /\ \A v \in Workers \ {w} : work'[v] = work[v]
    BY <1>6, <1>work, <2>1 DEF ApproveCommit, BusyWork
  <2>3. /\ work[w].snap = rows[work[w].id]
        /\ ApproveVerdict(work[w].snap, work[w].user) = "ok"
    BY <1>6 DEF ApproveCommit, IInv, LocksGuard
  <2>4. rows'[work[w].id] = FillSlot(rows[work[w].id], rows[work[w].id], work[w].user)
    BY <1>6, <2>1, <2>3, VerdictOk DEF ApproveCommit, IInv, TypeOK, BusyWork
  <2>5. work[w].user \in Approvers(work[w].id)'
    BY <2>1, <2>2, <2>4, UsersAssumption
       DEF Approvers, FillSlot, BusyWork, IInv, TypeOK, Row
  <2>6. OnRecord(w)'
    BY <2>2, <2>5 DEF OnRecord, Approvers
  <2>7. QED BY <1>6, <2>2, <2>6, BooksKept DEF ApproveCommit
<1>7. ASSUME NEW w \in Workers, ApproveReread(w) PROVE BooksInv'
  <2>1. work[w] \in BusyWork
    BY <1>7, BusyWorker DEF ApproveReread, IInv
  <2>2. /\ work[w].op = "approve" /\ work[w].user \in Approvers(work[w].id)
        /\ work[w].id \in Requests /\ work[w].user \in Users
    BY <1>7, <2>1 DEF ApproveReread, BooksInv, OnRecord, BusyWork
  <2>3. PICK seen \in {rows[work[w].id].status, "absent"} :
           work' = [work EXCEPT ![w].pc = "audit", ![w].after = seen]
    BY <1>7 DEF ApproveReread
  <2>4. /\ work'[w] = [work[w] EXCEPT !.pc = "audit", !.after = seen]
        /\ \A v \in Workers \ {w} : work'[v] = work[v]
    BY <1>work, <2>3
  <2>5. ASSUME seen = "pending" PROVE rows[work[w].id].approval1 = work[w].user
    <3>1. Coherent(rows[work[w].id]) /\ rows[work[w].id].status = "pending"
      BY <2>2, <2>3, <2>5 DEF IInv, RowsCoherent
    <3>2. rows[work[w].id].approval2 = NoUser
      BY <3>1 DEF Coherent
    <3>3. QED BY <2>2, <3>2 DEF Approvers
  <2>6. UNCHANGED rows
    BY <1>7 DEF ApproveReread
  <2>7. OnRecord(w)'
    BY <2>1, <2>2, <2>4, <2>5, <2>6 DEF OnRecord, Effect, Approvers, BusyWork
  <2>8. QED BY <1>7, <2>4, <2>7, BooksKept DEF ApproveReread
<1>8. ASSUME NEW w \in Workers, NEW op \in {"reject", "cancel", "fulfill"},
             ConditionalUpdate(w, op)
      PROVE  BooksInv'
  <2>1. work[w] \in BusyWork /\ work[w].op = op /\ UNCHANGED audit
    BY <1>8, BusyWorker DEF ConditionalUpdate, InHandler, IInv
  <2>2. CASE Finish(w, "invalid_state")
    BY <2>1, <2>2, <1>done, BooksKept
  <2>3. CASE work' = [work EXCEPT ![w].pc = "classify"]
    <3>1. /\ work'[w].pc = "classify"
          /\ \A v \in Workers \ {w} : work'[v] = work[v]
      BY <1>work, <2>1, <2>3 DEF BusyWork
    <3>2. QED BY <2>1, <3>1, BooksKept DEF OnRecord
  <2>4. CASE /\ UpdateMatches(op, rows[work[w].id], work[w].user)
             /\ rows' = [rows EXCEPT ![work[w].id].status = StatusSet(op)]
             /\ work' = [work EXCEPT ![w].pc = "audit"]
    <3>1. /\ work'[w] = [work[w] EXCEPT !.pc = "audit"]
          /\ \A v \in Workers \ {w} : work'[v] = work[v]
      BY <1>work, <2>4
    <3>2. rows'[work[w].id] = [rows[work[w].id] EXCEPT !.status = StatusSet(op)]
          /\ rows[work[w].id] \in Row
      BY <2>1, <2>4 DEF IInv, TypeOK, BusyWork
    <3>3. /\ rows'[work[w].id].status = StatusSet(op)
          /\ rows'[work[w].id].requestedBy = rows[work[w].id].requestedBy
      BY <3>2 DEF Row
    <3>4. /\ work'[w].pc = "audit" /\ work'[w].op = op
          /\ work'[w].user = work[w].user /\ work'[w].id = work[w].id
      BY <2>1, <3>1 DEF BusyWork
    <3>5. /\ op = "reject" => /\ rows'[work[w].id].status = "rejected"
                              /\ rows'[work[w].id].requestedBy # work[w].user
          /\ op = "cancel" => /\ rows'[work[w].id].status = "cancelled"
                              /\ rows'[work[w].id].requestedBy = work[w].user
          /\ op = "fulfill" => rows'[work[w].id].status = "fulfilled"
      BY <2>4, <3>3 DEF UpdateMatches, StatusSet
    <3>6. OnRecord(w)'
      BY <3>4, <3>5 DEF OnRecord, Effect
    <3>7. QED BY <2>1, <3>1, <3>6, BooksKept
  <2>5. QED BY <1>8, <2>2, <2>3, <2>4 DEF ConditionalUpdate
<1>9. ASSUME NEW w \in Workers, Classify(w) PROVE BooksInv'
  <2>1. \E reply : Finish(w, reply)
    BY <1>9 DEF Classify
  <2>2. QED BY <1>9, <2>1, <1>done, BooksKept DEF Classify
<1>10. ASSUME NEW w \in Workers, WriteAudit(w) PROVE BooksInv'
  <2> DEFINE e == [action |-> work[w].op, actor |-> work[w].user,
                   id |-> work[w].id, status_after |-> work[w].after]
  <2>1. work[w] \in BusyWork /\ UNCHANGED rows
    BY <1>10, BusyWorker DEF WriteAudit, IInv
  <2>2. OnRecord(w)' /\ \A v \in Workers \ {w} : work'[v] = work[v]
    BY <1>10, <1>done DEF WriteAudit
  <2>3. \A v \in Workers : OnRecord(v)'
    BY <2>2, OnRecordStands DEF BooksInv
  <2>4. Witnessed(e) /\ e \in AuditEvent
    BY <1>10, <2>1
       DEF WriteAudit, BooksInv, OnRecord, Witnessed, AuditEvent, BusyWork
  <2>5. audit' \subseteq audit \cup {e} /\ audit \cup {e} \subseteq AuditEvent
    BY <1>10, <2>4 DEF WriteAudit, IInv, TypeOK
  <2> HIDE DEF e
  <2>6. \A f \in audit' : Witnessed(f)'
    BY <2>4, <2>5, WitnessedStands DEF BooksInv
  <2>7. QED BY <2>3, <2>6 DEF BooksInv
<1>11. ASSUME NEW w \in Workers, Abort(w) PROVE BooksInv'
  BY <1>11, <1>done, BooksKept DEF Abort
<1>12. CASE UNCHANGED vars
  BY <1>12, <1>same DEF vars
<1>13. QED
  BY <1>1, <1>2, <1>3, <1>4, <1>5, <1>6, <1>7, <1>8, <1>9, <1>10, <1>11, <1>12
     DEF Next, Reject, Cancel, Fulfill

(* A 200 and an audit row never speak of something that did not happen or  *)
(* did not last: the approval that never checks its row count, the three   *)
(* conditional UPDATEs and the request itself are in the table from the    *)
(* moment they are reported on.                                            *)
THEOREM AcknowledgedIsDoneHolds == Spec => []AcknowledgedIsDone
<1>1. BooksInv => AcknowledgedIsDone
  BY DEF BooksInv, OnRecord, Witnessed, AcknowledgedIsDone
<1>2. QED BY <1>1, BooksInit, BooksStep, InvHolds, PTL DEF Spec

(* The status an approval reads again after its commit may be later than   *)
(* its own, never earlier: reported as pending, it is the first of two.    *)
THEOREM PendingMeansFirstHolds == Spec => []PendingMeansFirst
<1>1. BooksInv => PendingMeansFirst
  BY DEF BooksInv, Witnessed, PendingMeansFirst
<1>2. QED BY <1>1, BooksInit, BooksStep, InvHolds, PTL DEF Spec

--------------------------------------------------------------------------------
(* The table implements the abstract dual control: every statement of the  *)
(* handlers is a step of DualControl or changes nothing it can see.        *)
THEOREM ImplementsDualControlHolds == Spec => ImplementsDualControl
<1> DEFINE Phase == [id \in Requests |-> rows[id].status]
           Requester == [id \in Requests |-> rows[id].requestedBy]
           Endorsers == [id \in Requests |-> Approvers(id)]
<1>1. Init => Abstract!DCInit
  BY DEF Init, Abstract!DCInit, NoRow, Approvers
<1>2. IInv /\ [Next]_vars => [Abstract!DCNext]_(Abstract!dcVars)
  <2> SUFFICES ASSUME IInv, [Next]_vars
               PROVE  Abstract!DCNext \/ UNCHANGED Abstract!dcVars
    OBVIOUS
  <2>1. CASE UNCHANGED rows
    BY <2>1 DEF Abstract!dcVars, Approvers
  <2>2. CASE TableStep
    <3>1. PICK r \in Requests, u \in Users :
             \/ Insertion(r, u)
             \/ Approval(r, u)
             \/ \E op \in {"reject", "cancel", "fulfill"} : Settlement(r, u, op)
      BY <2>2 DEF TableStep
    <3>2. rows \in [Requests -> Row] /\ Coherent(rows[r]) /\ rows[r] \in Row
      BY DEF IInv, TypeOK, RowsCoherent
    <3>3. ASSUME NEW new, rows' = [rows EXCEPT ![r] = new]
          PROVE  /\ Phase' = [Phase EXCEPT ![r] = new.status]
                 /\ Requester' = [Requester EXCEPT ![r] = new.requestedBy]
                 /\ Endorsers' = [Endorsers EXCEPT ![r] =
                                    {new.approval1, new.approval2} \ {NoUser}]
      BY <3>2, <3>3 DEF Approvers
    <3>4. CASE Insertion(r, u)
      <4> DEFINE new == [NoRow EXCEPT !.status = "pending", !.requestedBy = u]
      <4>1. /\ new.status = "pending" /\ new.requestedBy = u
            /\ {new.approval1, new.approval2} \ {NoUser} = {}
        BY DEF NoRow
      <4>2. rows' = [rows EXCEPT ![r] = new]
        BY <3>4 DEF Insertion
      <4> HIDE DEF new
      <4>3. /\ Phase' = [Phase EXCEPT ![r] = new.status]
            /\ Requester' = [Requester EXCEPT ![r] = new.requestedBy]
            /\ Endorsers' = [Endorsers EXCEPT ![r] =
                               {new.approval1, new.approval2} \ {NoUser}]
        BY <3>3, <4>2
      <4>4. Endorsers[r] = {} /\ Phase[r] = "absent"
        BY <3>4 DEF Insertion, NoRow, Approvers
      <4>5. Endorsers' = Endorsers
        BY <4>1, <4>3, <4>4
      <4>6. Abstract!Open(r, u)
        BY <4>1, <4>3, <4>4, <4>5 DEF Abstract!Open
      <4>7. QED BY <4>6 DEF Abstract!DCNext
    <3>5. CASE Approval(r, u)
      <4> DEFINE new == FillSlot(rows[r], rows[r], u)
      <4>1. /\ rows[r].status = "pending" /\ u # rows[r].requestedBy
            /\ rows[r].approval1 # u \/ rows[r].approval1 = NoUser
        BY <3>5, VerdictOk DEF Approval
      <4>2. rows[r].approval2 = NoUser /\ u # NoUser
        BY <3>2, <4>1, UsersAssumption DEF Coherent
      <4>3. /\ new.requestedBy = rows[r].requestedBy
            /\ new.status = IF Approvers(r) = {} THEN "pending" ELSE "approved"
            /\ {new.approval1, new.approval2} \ {NoUser} = Approvers(r) \cup {u}
        <5>1. CASE rows[r].approval1 = NoUser
          <6>1. new = [rows[r] EXCEPT !.approval1 = u]
            BY <5>1 DEF FillSlot
          <6>2. Approvers(r) = {}
            BY <5>1, <4>2 DEF Approvers
          <6>3. QED BY <3>2, <4>1, <4>2, <6>1, <6>2 DEF Row
        <5>2. CASE rows[r].approval1 # NoUser
          <6>1. new = [rows[r] EXCEPT !.approval2 = u, !.status = "approved"]
            BY <5>2 DEF FillSlot
          <6>2. Approvers(r) = {rows[r].approval1}
            BY <5>2, <4>2 DEF Approvers
          <6>3. QED BY <3>2, <4>2, <5>2, <6>1, <6>2 DEF Row
        <5>3. QED BY <5>1, <5>2
      <4>4. u \notin Approvers(r)
        BY <4>1, <4>2 DEF Approvers
      <4>5. /\ Phase' = [Phase EXCEPT ![r] = new.status]
            /\ Requester' = [Requester EXCEPT ![r] = new.requestedBy]
            /\ Endorsers' = [Endorsers EXCEPT ![r] =
                               {new.approval1, new.approval2} \ {NoUser}]
        BY <3>3, <3>5 DEF Approval
      <4> HIDE DEF new
      <4>6. Requester' = Requester
        BY <4>3, <4>5
      <4>7. /\ Phase' = [Phase EXCEPT ![r] = IF Endorsers[r] = {} THEN "pending"
                                             ELSE "approved"]
            /\ Endorsers' = [Endorsers EXCEPT ![r] = @ \cup {u}]
        BY <4>3, <4>5
      <4>8. Abstract!Endorse(r, u)
        BY <4>1, <4>4, <4>6, <4>7 DEF Abstract!Endorse
      <4>9. QED BY <4>8 DEF Abstract!DCNext
    <3>6. ASSUME NEW op \in {"reject", "cancel", "fulfill"}, Settlement(r, u, op)
          PROVE  Abstract!DCNext
      <4> DEFINE new == [rows[r] EXCEPT !.status = StatusSet(op)]
      <4>1. rows' = [rows EXCEPT ![r] = new]
        BY <3>6 DEF Settlement
      <4>2. /\ new.status = StatusSet(op)
            /\ new.requestedBy = rows[r].requestedBy
            /\ {new.approval1, new.approval2} \ {NoUser} = Approvers(r)
        BY <3>2 DEF Row, Approvers
      <4> HIDE DEF new
      <4>3. /\ Phase' = [Phase EXCEPT ![r] = StatusSet(op)]
            /\ Requester' = Requester
            /\ Endorsers' = Endorsers
        <5>1. /\ Phase' = [Phase EXCEPT ![r] = new.status]
              /\ Requester' = [Requester EXCEPT ![r] = new.requestedBy]
              /\ Endorsers' = [Endorsers EXCEPT ![r] =
                                 {new.approval1, new.approval2} \ {NoUser}]
          BY <3>3, <4>1
        <5>2. QED BY <4>2, <5>1
      <4>4. CASE op = "reject"
        <5>1. Abstract!Veto(r, u)
          BY <3>6, <4>3, <4>4
             DEF Abstract!Veto, Settlement, UpdateMatches, StatusSet
        <5>2. QED BY <5>1 DEF Abstract!DCNext
      <4>5. CASE op = "cancel"
        <5>1. Abstract!Withdraw(r, u)
          BY <3>6, <4>3, <4>5
             DEF Abstract!Withdraw, Settlement, UpdateMatches, StatusSet
        <5>2. QED BY <5>1 DEF Abstract!DCNext
      <4>6. CASE op = "fulfill"
        <5>1. Abstract!CarryOut(r)
          BY <3>6, <4>3, <4>6
             DEF Abstract!CarryOut, Settlement, UpdateMatches, StatusSet
        <5>2. QED BY <5>1 DEF Abstract!DCNext
      <4>7. QED BY <4>4, <4>5, <4>6
    <3>7. QED BY <3>1, <3>4, <3>5, <3>6
  <2>3. QED BY <2>1, <2>2, StepsOfTheTable
<1>3. QED
  BY <1>1, <1>2, InvHolds, PTL DEF Spec, ImplementsDualControl, Abstract!DCSpec
================================================================================
