-------------------------- MODULE LoginThrottleProofs --------------------------
(***************************************************************************)
(* Proofs about the two limits on the way to a login: the throttle, for    *)
(* any number of requests in flight, any limit, lockout and time to live,  *)
(* and any number of faults; and the rate limiter, for any limit, window,  *)
(* delay and time to live that outlasts them.                              *)
(***************************************************************************)
EXTENDS LoginThrottle, RateLimiter, FiniteSetTheorems, TLAPS

LocalPcs == {"check", "record"}
RedisPcs == {"expire", "set", "del"}

(* A request records its failure where it was checked: Redis or not is     *)
(* decided once per process.                                               *)
Backend ==
    \A w \in Workers : work[w].pc \notin (IF rdb THEN LocalPcs ELSE RedisPcs)

--------------------------------------------------------------------------------
(* Without Redis.  A guess since the count started anew has been counted   *)
(* in the entry's state, or its request is still on the way there.         *)

Failed == IF entry = 0 THEN 0 ELSE heap[entry].failures

(* Such requests have loaded the state that is the entry now. *)
FreshAtEntry ==
    \A w \in fresh : work[w].pc \in LocalPcs => work[w].ptr = entry

(* While the entry is locked no request since has got past the check. *)
LockStops ==
    entry # 0 /\ LockedState(entry) =>
        \A w \in fresh : work[w].pc \notin {"passed", "wrong", "record"}

BelowLimit == \A p \in DOMAIN heap : heap[p].failures < MaxFailures

Recording == {w \in fresh : work[w].pc \in {"wrong", "record"}}

LocalBound == guesses <= Failed + Cardinality(Recording)

LocalParts == FreshAtEntry /\ LockStops /\ BelowLimit /\ LocalBound

LocalInv == ~rdb => LocalParts

--------------------------------------------------------------------------------
(* With Redis.  A guess has been counted in the failKey, or its request    *)
(* has yet to count it, or has yet to set the block it led to; and every   *)
(* request that is not about to delete the count may have deleted one that *)
(* was below the limit.                                                    *)

Recorded == IF failKey.count < MaxFailures THEN failKey.count ELSE MaxFailures - 1

Pending == {w \in Workers : \/ work[w].pc \in {"wrong", "set"}
                            \/ work[w].pc = "expire" /\ Reached(work[w].n)}

NotDeleting == {w \in Workers : work[w].pc # "del"}

RedisBound ==
    /\ NotDeleting = {} => guesses = 0
    /\ NotDeleting # {} =>
          guesses + (MaxFailures - 1) <=
             (MaxFailures - 1) * Cardinality(NotDeleting)
                + Recorded + Cardinality(Pending)

RedisInv == rdb /\ ~dropped => RedisBound

IInv == TypeOK /\ FailCountExpires /\ Backend /\ LocalInv /\ RedisInv

--------------------------------------------------------------------------------
(* Worker w goes on to state s, and the others stay where they are. *)
Moved(w, s) ==
    /\ s \in Work
    /\ work' \in [Workers -> Work]
    /\ work'[w] = s
    /\ \A v \in Workers \ {w} : work'[v] = work[v]

LEMMA BecomeMoves ==
    ASSUME work \in [Workers -> Work], NEW w \in Workers, NEW s \in Work, Become(w, s)
    PROVE  Moved(w, s)
BY DEF Become, Moved

LEMMA PlainWork ==
    ASSUME NEW pc \in {"idle", "passed", "wrong", "right", "set", "del"}
    PROVE  [pc |-> pc] \in Work /\ [pc |-> pc].pc = pc
BY DEF Work

LEMMA PointedWork ==
    ASSUME NEW pc \in LocalPcs, NEW p \in Nat \ {0}
    PROVE  [pc |-> pc, ptr |-> p] \in Work
BY DEF Work, LocalPcs

LEMMA EnterMoves ==
    ASSUME work \in [Workers -> Work], NEW w \in Workers,
           NEW pc \in {"idle", "passed", "wrong", "right", "set", "del"}, Enter(w, pc)
    PROVE  \E s \in Work : Moved(w, s) /\ s.pc = pc
<1>1. PICK s : s = [pc |-> pc]
  OBVIOUS
<1>2. s \in Work /\ s.pc = pc
  BY <1>1, PlainWork
<1>3. Become(w, s)
  BY <1>1 DEF Enter
<1>4. QED BY <1>2, <1>3, BecomeMoves

LEMMA IdleMoves ==
    ASSUME work \in [Workers -> Work], NEW w \in Workers, Become(w, Idle)
    PROVE  \E s \in Work : Moved(w, s) /\ s.pc = "idle"
<1>1. Enter(w, "idle")
  BY DEF Enter, Idle
<1>2. QED BY <1>1, EnterMoves

LEMMA AfterExpireMoves ==
    ASSUME work \in [Workers -> Work], NEW w \in Workers, NEW n, AfterExpire(w, n)
    PROVE  /\ \E s \in Work : Moved(w, s) /\ s.pc = IF Reached(n) THEN "set" ELSE "idle"
           /\ fresh' \subseteq fresh
<1>1. CASE Reached(n)
  BY <1>1, EnterMoves DEF AfterExpire
<1>2. CASE ~Reached(n)
  BY <1>2, IdleMoves DEF AfterExpire, Finish
<1>3. QED BY <1>1, <1>2

(* What each step of a request makes of it. *)
LEMMA RequestMoves ==
    ASSUME TypeOK, NEW w \in Workers
    PROVE  /\ CheckLoad(w) =>
                \E s \in Work : Moved(w, s) /\ (IF entry = 0 THEN s.pc = "passed"
                                                ELSE s.pc = "check" /\ s.ptr = entry)
           /\ CheckLock(w) =>
                \E s \in Work : Moved(w, s) /\ s.pc \in {"idle", "passed"}
           /\ VerifyWrong(w) => \E s \in Work : Moved(w, s) /\ s.pc = "wrong"
           /\ VerifyRight(w) => \E s \in Work : Moved(w, s) /\ s.pc = "right"
           /\ RecordLoad(w) =>
                \E s \in Work : Moved(w, s) /\ s.pc = "record" /\ s.ptr = entry'
           /\ RecordUpdate(w) \/ Clear(w) \/ Abort(w) \/ RedisDel(w) \/ RedisClear(w)
                 \/ Crash(w) =>
                \E s \in Work : Moved(w, s) /\ s.pc = "idle"
           /\ RedisExpire(w) =>
                \E s \in Work : Moved(w, s) /\ s.pc = IF Reached(work[w].n) THEN "set" ELSE "idle"
           /\ RedisSet(w) => \E s \in Work : Moved(w, s) /\ s.pc = "del"
<1>t. /\ work \in [Workers -> Work] /\ entry \in 0..Len(heap) /\ heap \in Seq(State)
  BY DEF TypeOK
<1>1. ASSUME CheckLoad(w)
      PROVE  \E s \in Work : Moved(w, s) /\ (IF entry = 0 THEN s.pc = "passed"
                                             ELSE s.pc = "check" /\ s.ptr = entry)
  <2>1. PICK s : s = IF entry = 0 THEN [pc |-> "passed"] ELSE [pc |-> "check", ptr |-> entry]
    OBVIOUS
  <2>2. s \in Work /\ IF entry = 0 THEN s.pc = "passed" ELSE s.pc = "check" /\ s.ptr = entry
    BY <1>t, <2>1, PlainWork, PointedWork DEF LocalPcs
  <2>3. Become(w, s)
    BY <1>1, <2>1 DEF CheckLoad
  <2>4. QED BY <1>t, <2>2, <2>3, BecomeMoves
<1>2. ASSUME CheckLock(w)
      PROVE  \E s \in Work : Moved(w, s) /\ s.pc \in {"idle", "passed"}
  BY <1>t, <1>2, IdleMoves, EnterMoves DEF CheckLock, Finish
<1>3. ASSUME VerifyWrong(w) PROVE \E s \in Work : Moved(w, s) /\ s.pc = "wrong"
  BY <1>t, <1>3, EnterMoves DEF VerifyWrong
<1>4. ASSUME VerifyRight(w) PROVE \E s \in Work : Moved(w, s) /\ s.pc = "right"
  BY <1>t, <1>4, EnterMoves DEF VerifyRight
<1>5. ASSUME RecordLoad(w)
      PROVE  \E s \in Work : Moved(w, s) /\ s.pc = "record" /\ s.ptr = entry'
  <2>1. entry' \in Nat \ {0}
    BY <1>t, <1>5 DEF RecordLoad
  <2>2. PICK s : s = [pc |-> "record", ptr |-> entry']
    OBVIOUS
  <2>3. s \in Work /\ s.pc = "record" /\ s.ptr = entry'
    BY <2>1, <2>2, PointedWork DEF LocalPcs
  <2>4. Become(w, s)
    BY <1>5, <2>2 DEF RecordLoad
  <2>5. QED BY <1>t, <2>3, <2>4, BecomeMoves
<1>6. ASSUME RecordUpdate(w) \/ Clear(w) \/ Abort(w) \/ RedisDel(w) \/ RedisClear(w) \/ Crash(w)
      PROVE  \E s \in Work : Moved(w, s) /\ s.pc = "idle"
  <2>1. Become(w, Idle)
    BY <1>6 DEF RecordUpdate, Clear, Abort, RedisDel, RedisClear, Crash, Finish
  <2>2. QED BY <1>t, <2>1, IdleMoves
<1>7. ASSUME RedisExpire(w)
      PROVE  \E s \in Work : Moved(w, s) /\ s.pc = IF Reached(work[w].n) THEN "set" ELSE "idle"
  BY <1>t, <1>7, AfterExpireMoves DEF RedisExpire
<1>8. ASSUME RedisSet(w) PROVE \E s \in Work : Moved(w, s) /\ s.pc = "del"
  BY <1>t, <1>8, EnterMoves DEF RedisSet
<1>9. QED BY <1>1, <1>2, <1>3, <1>4, <1>5, <1>6, <1>7, <1>8

(* The four ways of an INCR: Redis has counted and the answer came, it     *)
(* has counted and the answer was lost, it has counted twice, or not.      *)
IncrWay(w, s, n) ==
    \/ /\ failKey' = [failKey EXCEPT !.count = n] /\ UNCHANGED <<dropped, unexpired>>
       /\ IF n = 1 THEN s.pc = "expire" /\ s.n = 1
          ELSE s.pc = IF Reached(n) THEN "set" ELSE "idle"
    \/ /\ failKey' = [failKey EXCEPT !.count = n] /\ dropped'
       /\ unexpired' = (n = 1 \/ unexpired) /\ s.pc = "idle"
    \/ /\ failKey' = [failKey EXCEPT !.count = n + 1] /\ UNCHANGED dropped
       /\ unexpired' = (n = 1 \/ unexpired)
       /\ s.pc = IF Reached(n + 1) THEN "set" ELSE "idle"
    \/ /\ UNCHANGED <<failKey, unexpired>> /\ dropped' /\ s.pc = "idle"

LEMMA IncrMoves ==
    ASSUME TypeOK, NEW w \in Workers, RedisIncr(w)
    PROVE  \E s \in Work : Moved(w, s) /\ IncrWay(w, s, failKey.count + 1)
<1>t. work \in [Workers -> Work]
  BY DEF TypeOK
<1>n. PICK n : n = failKey.count + 1
  OBVIOUS
<1>1. CASE /\ failKey' = [failKey EXCEPT !.count = n]
           /\ IF n = 1 THEN Become(w, [pc |-> "expire", n |-> n]) ELSE AfterExpire(w, n)
           /\ UNCHANGED <<dropped, unexpired>>
  <2>1. CASE n = 1
    <3>1. PICK s : s = [pc |-> "expire", n |-> n]
      OBVIOUS
    <3>2. s \in Work /\ s.pc = "expire" /\ s.n = 1
      BY <2>1, <3>1 DEF Work
    <3>3. Moved(w, s)
      BY <1>t, <1>1, <2>1, <3>1, <3>2, BecomeMoves
    <3>4. QED BY <1>n, <1>1, <2>1, <3>2, <3>3 DEF IncrWay
  <2>2. CASE n # 1
    <3>1. PICK s \in Work : Moved(w, s) /\ s.pc = IF Reached(n) THEN "set" ELSE "idle"
      BY <1>t, <1>1, <2>2, AfterExpireMoves
    <3>2. QED BY <1>n, <1>1, <2>2, <3>1 DEF IncrWay
  <2>3. QED BY <2>1, <2>2
<1>2. CASE /\ failKey' = [failKey EXCEPT !.count = n]
           /\ unexpired' = (n = 1 \/ unexpired) /\ Become(w, Idle) /\ dropped'
  BY <1>t, <1>n, <1>2, IdleMoves DEF IncrWay
<1>3. CASE /\ failKey' = [failKey EXCEPT !.count = n + 1]
           /\ unexpired' = (n = 1 \/ unexpired)
           /\ AfterExpire(w, n + 1) /\ UNCHANGED dropped
  <2>1. PICK s \in Work : Moved(w, s) /\ s.pc = IF Reached(n + 1) THEN "set" ELSE "idle"
    BY <1>t, <1>3, AfterExpireMoves
  <2>2. QED BY <1>n, <1>3, <2>1 DEF IncrWay
<1>4. CASE Become(w, Idle) /\ dropped' /\ UNCHANGED <<failKey, unexpired>>
  BY <1>t, <1>n, <1>4, IdleMoves DEF IncrWay
<1>5. QED BY <1>n, <1>1, <1>2, <1>3, <1>4 DEF RedisIncr, Finish, FailOpen

--------------------------------------------------------------------------------
(* The three parts of TypeOK that a step can disturb in different ways. *)
KeyOK ==
    /\ clock \in Nat
    /\ failKey \in FailKey
    /\ failKey.expires # 0 => failKey.count > 0 /\ clock < failKey.expires

HeapOK == heap \in Seq(State) /\ entry \in 0..Len(heap)

WorkOK ==
    /\ work \in [Workers -> Work]
    /\ \A w \in Workers :
          work[w].pc \in {"check", "record"} => work[w].ptr \in 1..Len(heap)

LEMMA KeyStep ==
    ASSUME TypeOK, [Next]_vars
    PROVE  KeyOK'
<1>t. /\ clock \in Nat /\ failKey \in FailKey
      /\ failKey.expires # 0 => failKey.count > 0 /\ clock < failKey.expires
  BY DEF TypeOK
<1>1. CASE UNCHANGED <<clock, failKey>>
  BY <1>t, <1>1 DEF KeyOK
<1>2. CASE UNCHANGED clock /\ failKey' = NoKey
  BY <1>t, <1>2 DEF KeyOK, NoKey, FailKey
<1>3. CASE Tick
  <2>1. clock' = clock + 1 /\ failKey' \in {failKey, NoKey}
        /\ (failKey' = failKey => failKey.expires # clock')
    <3>1. clock + 1 # 0
      BY <1>t
    <3>2. NoKey.expires = 0
      BY DEF NoKey
    <3>3. QED BY <1>3, <3>1, <3>2 DEF Tick
  <2>2. CASE failKey' = NoKey
    BY <1>t, <2>1, <2>2 DEF KeyOK, NoKey, FailKey
  <2>3. CASE failKey' = failKey
    BY <1>t, <2>1, <2>3 DEF KeyOK, FailKey
  <2>4. QED BY <2>1, <2>2, <2>3
<1>4. ASSUME NEW w \in Workers, RedisIncr(w) PROVE KeyOK'
  <2>1. failKey.count + 1 \in Nat \ {0} /\ failKey.count + 2 \in Nat \ {0}
    BY <1>t DEF FailKey
  <2>2. UNCHANGED clock /\ \E n \in Nat \ {0} : failKey' \in {failKey, [failKey EXCEPT !.count = n]}
    BY <1>4, <2>1 DEF RedisIncr
  <2>3. PICK n \in Nat \ {0} : failKey' \in {failKey, [failKey EXCEPT !.count = n]}
    BY <2>2
  <2>4. QED BY <1>t, <2>2, <2>3 DEF KeyOK, FailKey
<1>5. ASSUME NEW w \in Workers, RedisExpire(w) PROVE KeyOK'
  <2>1. CASE UNCHANGED failKey
    BY <1>1, <1>5, <2>1 DEF RedisExpire
  <2>2. CASE failKey # NoKey /\ failKey' = [failKey EXCEPT !.expires = clock + FailTTL]
    <3>1. failKey.count > 0
      <4>1. CASE failKey.expires = 0
        BY <1>t, <2>2, <4>1 DEF FailKey, NoKey
      <4>2. CASE failKey.expires # 0
        BY <1>t, <4>2
      <4>3. QED BY <4>1, <4>2
    <3>2. clock' = clock /\ clock + FailTTL \in Nat /\ clock < clock + FailTTL
      BY <1>t, <1>5, ThrottleAssumption DEF RedisExpire
    <3>3. QED BY <1>t, <2>2, <3>1, <3>2 DEF KeyOK, FailKey
  <2>3. CASE failKey' = NoKey
    BY <1>2, <1>5, <2>3 DEF RedisExpire
  <2>4. QED BY <1>5, <2>1, <2>2, <2>3 DEF RedisExpire
<1>6. ASSUME NEW w \in Workers, RedisDel(w) \/ RedisClear(w) \/ RedisDelAgain(w)
      PROVE  KeyOK'
  <2>1. UNCHANGED clock /\ failKey' \in {failKey, NoKey}
    BY <1>6 DEF RedisDel, RedisClear, RedisDelAgain, keys
  <2>2. QED BY <1>1, <1>2, <2>1
<1>7. ASSUME NEW w \in Workers,
             \/ CheckLoad(w) \/ CheckLock(w) \/ VerifyWrong(w) \/ VerifyRight(w)
             \/ RecordLoad(w) \/ RecordUpdate(w) \/ Clear(w) \/ Abort(w)
             \/ RedisCheck(w) \/ RedisSet(w) \/ Crash(w)
      PROVE  KeyOK'
  BY <1>1, <1>7 DEF CheckLoad, CheckLock, VerifyWrong, VerifyRight, RecordLoad,
       RecordUpdate, Clear, Abort, RedisCheck, RedisSet, Crash, keys
<1>8. CASE Restart \/ UNCHANGED vars
  BY <1>1, <1>8 DEF Restart, vars, keys
<1>9. QED BY <1>3, <1>4, <1>5, <1>6, <1>7, <1>8 DEF Next

(* Only a restart forgets states; they are otherwise kept at their place. *)
LEMMA HeapStep ==
    ASSUME TypeOK, [Next]_vars
    PROVE  HeapOK' /\ (~Restart => Len(heap) <= Len(heap'))
<1>t. HeapOK /\ clock \in Nat /\ WorkOK
  BY DEF TypeOK, HeapOK, WorkOK
<1>1. CASE UNCHANGED memory
  BY <1>t, <1>1 DEF HeapOK, memory
<1>2. CASE Restart
  BY <1>2 DEF Restart, HeapOK
<1>3. ASSUME NEW w \in Workers, RecordLoad(w) PROVE HeapOK' /\ Len(heap) <= Len(heap')
  <2>1. NewState \in State
    BY DEF NewState, State
  <2>2. CASE entry = 0
    <3>1. heap' = Append(heap, NewState) /\ entry' = Len(heap) + 1
      BY <1>3, <2>2 DEF RecordLoad
    <3>2. QED BY <1>t, <2>1, <3>1 DEF HeapOK
  <2>3. CASE entry # 0
    BY <1>t, <1>3, <2>3 DEF RecordLoad, HeapOK
  <2>4. QED BY <2>2, <2>3
<1>4. ASSUME NEW w \in Workers, RecordUpdate(w) PROVE HeapOK' /\ Len(heap) <= Len(heap')
  <2>1. work[w].ptr \in 1..Len(heap)
    BY <1>t, <1>4 DEF RecordUpdate, WorkOK
  <2>2. PICK p \in 1..Len(heap) : p = work[w].ptr
    BY <2>1
  <2>3. heap \in Seq(State) /\ heap[p] \in State
    BY <1>t, <2>2 DEF HeapOK
  <2>4. /\ UNCHANGED entry
        /\ \/ UNCHANGED heap
           \/ heap' = [heap EXCEPT ![p].failures = heap[p].failures + 1]
           \/ heap' = [heap EXCEPT ![p] = [failures |-> 0, lockedUntil |-> clock + Lockout]]
    BY <1>4, <2>2 DEF RecordUpdate
  <2>5. CASE UNCHANGED heap
    BY <1>1, <2>4, <2>5, <1>t DEF memory, HeapOK
  <2>6. CASE heap' = [heap EXCEPT ![p].failures = heap[p].failures + 1]
    <3>1. PICK e : e = [heap[p] EXCEPT !.failures = heap[p].failures + 1]
      OBVIOUS
    <3>2. e \in State
      BY <2>3, <3>1 DEF State
    <3>3. heap' = [heap EXCEPT ![p] = e]
      BY <2>6, <3>1
    <3>4. heap' \in Seq(State) /\ Len(heap') = Len(heap)
      BY <2>3, <3>2, <3>3
    <3>5. QED BY <1>t, <2>4, <3>4 DEF HeapOK
  <2>7. CASE heap' = [heap EXCEPT ![p] = [failures |-> 0, lockedUntil |-> clock + Lockout]]
    <3>1. PICK e : e = [failures |-> 0, lockedUntil |-> clock + Lockout]
      OBVIOUS
    <3>2. e \in State
      BY <1>t, <3>1, ThrottleAssumption DEF State
    <3>3. heap' \in Seq(State) /\ Len(heap') = Len(heap)
      BY <2>3, <2>7, <3>1, <3>2
    <3>4. QED BY <1>t, <2>4, <3>3 DEF HeapOK
  <2>8. QED BY <2>4, <2>5, <2>6, <2>7
<1>5. ASSUME NEW w \in Workers, Clear(w) PROVE HeapOK' /\ Len(heap) <= Len(heap')
  BY <1>t, <1>5 DEF Clear, HeapOK
<1>6. ASSUME NEW w \in Workers,
             \/ CheckLoad(w) \/ CheckLock(w) \/ VerifyWrong(w) \/ VerifyRight(w)
             \/ Abort(w) \/ RedisCheck(w) \/ RedisIncr(w) \/ RedisExpire(w) \/ RedisSet(w)
             \/ RedisDel(w) \/ RedisClear(w) \/ RedisDelAgain(w) \/ Crash(w)
      PROVE  UNCHANGED memory
  BY <1>6 DEF CheckLoad, CheckLock, VerifyWrong, VerifyRight, Abort, RedisCheck,
       RedisIncr, RedisExpire, RedisSet, RedisDel, RedisClear, RedisDelAgain, Crash
<1>7. CASE Tick \/ UNCHANGED vars
  <2>1. UNCHANGED memory
    BY <1>7 DEF Tick, vars
  <2>2. QED BY <1>t, <1>1, <2>1 DEF memory, HeapOK
<1>8. Len(heap) \in Nat
  BY <1>t DEF HeapOK
<1>9. UNCHANGED memory => Len(heap) <= Len(heap')
  BY <1>8 DEF memory
<1>10. QED BY <1>1, <1>2, <1>3, <1>4, <1>5, <1>6, <1>7, <1>9 DEF Next

LEMMA WorkStep ==
    ASSUME TypeOK, [Next]_vars
    PROVE  WorkOK'
<1>t. HeapOK /\ WorkOK /\ work \in [Workers -> Work]
  BY DEF TypeOK, HeapOK, WorkOK
<1>h. HeapOK' /\ (~Restart => Len(heap) <= Len(heap'))
  BY HeapStep
<1>l. Len(heap) \in Nat /\ Len(heap') \in Nat
  BY <1>t, <1>h DEF HeapOK
<1>1. CASE Restart
  <2>1. work' = [w \in Workers |-> Idle]
    BY <1>1 DEF Restart
  <2>2. Idle \in Work /\ Idle.pc = "idle"
    BY PlainWork DEF Idle
  <2>3. QED BY <2>1, <2>2 DEF WorkOK
<1>2. CASE UNCHANGED work /\ ~Restart
  BY <1>t, <1>h, <1>l, <1>2 DEF WorkOK
<1>3. ASSUME ~Restart, NEW w \in Workers, NEW s \in Work, Moved(w, s),
             s.pc \in LocalPcs => s.ptr \in 1..Len(heap')
      PROVE  WorkOK'
  <2>1. work' \in [Workers -> Work]
    BY <1>3 DEF Moved
  <2>2. ASSUME NEW v \in Workers, work'[v].pc \in {"check", "record"}
        PROVE  work'[v].ptr \in 1..Len(heap')
    <3>1. CASE v = w
      BY <1>3, <2>2, <3>1 DEF Moved, LocalPcs
    <3>2. CASE v # w
      <4>1. work'[v] = work[v]
        BY <1>3, <3>2 DEF Moved
      <4>2. work[v].ptr \in 1..Len(heap)
        BY <1>t, <2>2, <4>1 DEF WorkOK
      <4>3. QED BY <1>3, <1>h, <1>l, <4>1, <4>2
    <3>3. QED BY <3>1, <3>2
  <2>3. QED BY <2>1, <2>2 DEF WorkOK
<1>4. ASSUME ~Restart, NEW w \in Workers, CheckLoad(w) PROVE WorkOK'
  <2>1. PICK s \in Work : Moved(w, s) /\ (IF entry = 0 THEN s.pc = "passed"
                                          ELSE s.pc = "check" /\ s.ptr = entry)
    BY <1>4, RequestMoves
  <2>2. s.pc \in LocalPcs => s.ptr \in 1..Len(heap')
    BY <1>t, <1>h, <1>l, <1>4, <2>1 DEF HeapOK, LocalPcs
  <2>3. QED BY <1>3, <1>4, <2>1, <2>2
<1>5. ASSUME ~Restart, NEW w \in Workers, RecordLoad(w) PROVE WorkOK'
  <2>1. PICK s \in Work : Moved(w, s) /\ s.pc = "record" /\ s.ptr = entry'
    BY <1>5, RequestMoves
  <2>2. entry' # 0
    BY <1>5, <1>l DEF RecordLoad
  <2>3. s.ptr \in 1..Len(heap')
    BY <1>h, <1>l, <2>1, <2>2 DEF HeapOK
  <2>4. QED BY <1>3, <1>5, <2>1, <2>3
<1>6. ASSUME ~Restart, NEW w \in Workers,
             \/ CheckLock(w) \/ VerifyWrong(w) \/ VerifyRight(w)
             \/ RecordUpdate(w) \/ Clear(w) \/ Abort(w)
             \/ RedisExpire(w) \/ RedisSet(w)
             \/ RedisDel(w) \/ RedisClear(w) \/ Crash(w)
      PROVE  WorkOK'
  <2>1. PICK s \in Work : Moved(w, s) /\ s.pc \notin LocalPcs
    BY <1>6, RequestMoves DEF LocalPcs
  <2>2. QED BY <1>3, <1>6, <2>1
<1>7. ASSUME ~Restart, NEW w \in Workers, RedisIncr(w) PROVE WorkOK'
  <2>1. PICK s \in Work : Moved(w, s) /\ s.pc \notin LocalPcs
    BY <1>7, IncrMoves DEF LocalPcs, IncrWay
  <2>2. QED BY <1>3, <1>7, <2>1
<1>8. ASSUME ~Restart, NEW w \in Workers, RedisCheck(w) PROVE WorkOK'
  <2>1. CASE UNCHANGED work
    BY <1>2, <1>8, <2>1
  <2>2. CASE Enter(w, "passed")
    <3>1. PICK s \in Work : Moved(w, s) /\ s.pc = "passed"
      BY <1>t, <2>2, EnterMoves
    <3>2. QED BY <1>3, <1>8, <3>1 DEF LocalPcs
  <2>3. QED BY <1>8, <2>1, <2>2 DEF RedisCheck
<1>9. CASE ~Restart /\ (Tick \/ UNCHANGED vars)
  BY <1>2, <1>9 DEF Tick, vars
<1>10. ASSUME ~Restart, NEW w \in Workers, RedisDelAgain(w) PROVE WorkOK'
  BY <1>2, <1>10 DEF RedisDelAgain
<1>11. QED BY <1>1, <1>4, <1>5, <1>6, <1>7, <1>8, <1>9, <1>10 DEF Next

(* The history variables and the counters. *)
LEMMA RestStep ==
    ASSUME TypeOK, [Next]_vars
    PROVE  /\ rdb' \in BOOLEAN /\ lockKey' \in Nat /\ events' \in Nat
           /\ fresh' \subseteq Workers /\ guesses' \in Nat
           /\ dropped' \in BOOLEAN /\ unexpired' \in BOOLEAN
<1>t. /\ rdb \in BOOLEAN /\ lockKey \in Nat /\ events \in Nat
      /\ fresh \subseteq Workers /\ guesses \in Nat
      /\ dropped \in BOOLEAN /\ unexpired \in BOOLEAN /\ clock \in Nat
  BY DEF TypeOK
<1>b. clock + Lockout \in Nat /\ events + 1 \in Nat /\ guesses + 1 \in Nat /\ 0 \in Nat
  BY <1>t, ThrottleAssumption
<1>1. CASE Tick \/ Restart \/ UNCHANGED vars
  BY <1>t, <1>b, <1>1 DEF Tick, Restart, vars, keys, CountAnew
<1>2. ASSUME NEW w \in Workers,
             \/ CheckLoad(w) \/ CheckLock(w) \/ VerifyWrong(w) \/ VerifyRight(w)
      PROVE  /\ UNCHANGED <<rdb, lockKey, dropped, unexpired>>
             /\ events' \in {events, events + 1} /\ guesses' \in {guesses, guesses + 1}
             /\ fresh' \subseteq fresh \cup {w}
  BY <1>2 DEF CheckLoad, CheckLock, VerifyWrong, VerifyRight, Finish, keys
<1>3. ASSUME NEW w \in Workers,
             RecordLoad(w) \/ RecordUpdate(w) \/ Clear(w) \/ Abort(w)
      PROVE  /\ UNCHANGED <<rdb, lockKey, events, unexpired>>
             /\ dropped' \in {dropped, FALSE} /\ guesses' \in {guesses, 0}
             /\ fresh' \subseteq fresh
  BY <1>3 DEF RecordLoad, RecordUpdate, Clear, Abort, Finish, CountAnew, keys
<1>4. ASSUME NEW w \in Workers,
             \/ RedisCheck(w) \/ RedisSet(w) \/ RedisDel(w) \/ RedisClear(w)
             \/ RedisDelAgain(w)
      PROVE  /\ UNCHANGED rdb /\ lockKey' \in {lockKey, 0, clock + Lockout}
             /\ events' \in {events, events + 1} /\ guesses' \in {guesses, 0}
             /\ dropped' \in {dropped, TRUE, FALSE} /\ unexpired' \in {unexpired, FALSE}
             /\ fresh' \subseteq fresh \cup {w}
  BY <1>4 DEF RedisCheck, RedisSet, RedisDel, RedisClear, RedisDelAgain, FailOpen, Fault, Finish,
       CountAnew, keys
<1>5. ASSUME NEW w \in Workers, RedisIncr(w) \/ RedisExpire(w) \/ Crash(w)
      PROVE  /\ UNCHANGED <<rdb, lockKey, guesses>>
             /\ events' \in {events, events + 1}
             /\ dropped' \in {dropped, TRUE}
             /\ fresh' \subseteq fresh
  BY <1>5 DEF RedisIncr, RedisExpire, Crash, FailOpen, Fault, Finish, AfterExpire
<1>6. ASSUME NEW w \in Workers, RedisIncr(w) \/ RedisExpire(w) \/ Crash(w)
      PROVE  unexpired' \in BOOLEAN
  BY <1>t, <1>6 DEF RedisIncr, RedisExpire, Crash
<1>7. QED BY <1>t, <1>b, <1>1, <1>2, <1>3, <1>4, <1>5, <1>6 DEF Next

LEMMA TypeStep ==
    ASSUME TypeOK, [Next]_vars
    PROVE  TypeOK'
BY KeyStep, HeapStep, WorkStep, RestStep DEF KeyOK, HeapOK, WorkOK, TypeOK

LEMMA TypeInit == Init => TypeOK
<1>1. Idle \in Work /\ Idle.pc = "idle"
  BY PlainWork DEF Idle
<1>2. NoKey \in FailKey /\ NoKey.expires = 0
  BY DEF NoKey, FailKey
<1> SUFFICES ASSUME Init PROVE TypeOK
  OBVIOUS
<1>3. /\ clock \in Nat /\ heap \in Seq(State) /\ entry \in 0..Len(heap)
      /\ failKey \in FailKey /\ failKey.expires = 0 /\ lockKey \in Nat
      /\ events \in Nat /\ guesses \in Nat /\ fresh \subseteq Workers
  BY <1>2 DEF Init
<1>4. /\ work \in [Workers -> Work]
      /\ \A w \in Workers : work[w].pc = "idle"
  BY <1>1 DEF Init
<1>5. rdb \in BOOLEAN /\ dropped \in BOOLEAN /\ unexpired \in BOOLEAN
  BY DEF Init
<1>6. QED BY <1>3, <1>4, <1>5 DEF TypeOK

--------------------------------------------------------------------------------
(* A count without a time to live has an EXPIRE under way or lost. *)
LEMMA ExpiryStep ==
    ASSUME TypeOK, FailCountExpires, [Next]_vars
    PROVE  FailCountExpires'
<1>t. /\ work \in [Workers -> Work] /\ failKey \in FailKey /\ clock \in Nat
      /\ failKey.expires # 0 => failKey.count > 0
  BY DEF TypeOK
<1>none. ASSUME failKey' = NoKey PROVE FailCountExpires'
  BY <1>none DEF FailCountExpires, Lasting, NoKey
<1>lost. ASSUME unexpired' PROVE FailCountExpires'
  BY <1>lost DEF FailCountExpires
(* A step of another request than those that are about to send EXPIRE. *)
<1>other. ASSUME NEW w \in Workers, NEW s \in Work, Moved(w, s), work[w].pc # "expire",
                 Lasting' => Lasting, unexpired => unexpired'
          PROVE  FailCountExpires'
  <2>1. ASSUME NEW v \in Workers, work[v].pc = "expire" PROVE work'[v].pc = "expire"
    BY <1>other, <2>1 DEF Moved
  <2>2. QED BY <1>other, <2>1 DEF FailCountExpires
<1>1. CASE Tick
  <2>1. CASE failKey' = NoKey
    BY <1>none, <2>1
  <2>2. CASE UNCHANGED failKey
    BY <1>1, <2>2 DEF Tick, FailCountExpires, Lasting
  <2>3. QED BY <1>1, <2>1, <2>2 DEF Tick
<1>2. CASE Restart
  BY <1>2 DEF Restart, FailCountExpires, Lasting
<1>3. ASSUME NEW w \in Workers,
             \/ CheckLoad(w) \/ CheckLock(w) \/ VerifyWrong(w) \/ VerifyRight(w)
             \/ RecordLoad(w) \/ RecordUpdate(w) \/ Clear(w) \/ Abort(w) \/ RedisSet(w)
      PROVE  FailCountExpires'
  <2>1. UNCHANGED <<failKey, unexpired>>
    BY <1>3 DEF CheckLoad, CheckLock, VerifyWrong, VerifyRight, RecordLoad,
         RecordUpdate, Clear, Abort, RedisSet, keys
  <2>2. Idle.pc = "idle"
    BY DEF Idle
  <2>3. work[w].pc # "expire"
    BY <1>3, <2>2 DEF CheckLoad, CheckLock, VerifyWrong, VerifyRight, RecordLoad,
         RecordUpdate, Clear, Abort, RedisSet
  <2>4. \E s \in Work : Moved(w, s)
    BY <1>3, RequestMoves
  <2>5. QED BY <1>other, <2>1, <2>3, <2>4 DEF Lasting
<1>4. ASSUME NEW w \in Workers, RedisCheck(w) PROVE FailCountExpires'
  <2>1. UNCHANGED <<failKey, unexpired>> /\ work[w].pc = "idle"
    BY <1>4 DEF RedisCheck, keys, Idle
  <2>2. CASE UNCHANGED work
    BY <2>1, <2>2 DEF FailCountExpires, Lasting
  <2>3. CASE Enter(w, "passed")
    BY <1>t, <1>other, <2>1, <2>3, EnterMoves DEF Lasting
  <2>4. QED BY <1>4, <2>2, <2>3 DEF RedisCheck
<1>5. ASSUME NEW w \in Workers, RedisIncr(w) PROVE FailCountExpires'
  <2>0. work[w].pc = "wrong"
    BY <1>5 DEF RedisIncr
  <2>1. PICK s \in Work : Moved(w, s) /\ IncrWay(w, s, failKey.count + 1)
    BY <1>5, IncrMoves
  <2>2. CASE failKey.count = 0
    <3>0. failKey.count + 1 = 1
      BY <2>2
    <3>1. CASE UNCHANGED failKey
      BY <2>2, <3>1 DEF FailCountExpires, Lasting
    <3>2. CASE unexpired'
      BY <1>lost, <3>2
    <3>3. CASE s.pc = "expire"
      BY <2>1, <3>3 DEF FailCountExpires, Moved
    <3>4. QED BY <2>1, <3>0, <3>1, <3>2, <3>3 DEF IncrWay
  <2>3. CASE failKey.count # 0
    <3>1. failKey'.expires = failKey.expires /\ failKey.count > 0
      BY <1>t, <2>1, <2>3 DEF IncrWay, FailKey
    <3>2. unexpired => unexpired'
      BY <2>1 DEF IncrWay
    <3>3. QED BY <1>other, <2>0, <2>1, <3>1, <3>2 DEF Lasting
  <2>4. QED BY <2>2, <2>3
<1>6. ASSUME NEW w \in Workers, RedisExpire(w) PROVE FailCountExpires'
  <2>1. CASE failKey' = NoKey
    BY <1>none, <2>1
  <2>2. CASE failKey' = [failKey EXCEPT !.expires = clock + FailTTL]
    <3>1. failKey'.expires # 0
      BY <1>t, <2>2, ThrottleAssumption DEF FailKey
    <3>2. QED BY <3>1 DEF FailCountExpires, Lasting
  <2>3. CASE UNCHANGED failKey /\ unexpired' = (Lasting \/ unexpired)
    BY <2>3 DEF FailCountExpires, Lasting
  <2>4. QED BY <1>6, <2>1, <2>2, <2>3 DEF RedisExpire
<1>7. ASSUME NEW w \in Workers, RedisDel(w) \/ RedisClear(w) PROVE FailCountExpires'
  <2>1. \E s \in Work : Moved(w, s)
    BY <1>7, RequestMoves
  <2>2. work[w].pc # "expire"
    BY <1>7 DEF RedisDel, RedisClear
  <2>3. CASE failKey' = NoKey
    BY <1>none, <2>3
  <2>4. CASE UNCHANGED <<failKey, unexpired>>
    BY <1>other, <2>1, <2>2, <2>4 DEF Lasting
  <2>5. QED BY <1>7, <2>3, <2>4 DEF RedisDel, RedisClear, keys
<1>8. ASSUME NEW w \in Workers, Crash(w) PROVE FailCountExpires'
  <2>1. /\ UNCHANGED failKey
        /\ unexpired' = (unexpired \/ (work[w].pc = "expire" /\ Lasting))
    BY <1>8 DEF Crash
  <2>2. CASE work[w].pc = "expire"
    BY <2>1, <2>2 DEF FailCountExpires, Lasting
  <2>3. CASE work[w].pc # "expire"
    <3>1. \E s \in Work : Moved(w, s)
      BY <1>8, RequestMoves
    <3>2. QED BY <1>other, <2>1, <2>3, <3>1 DEF Lasting
  <2>4. QED BY <2>2, <2>3
<1>9. CASE UNCHANGED vars
  BY <1>9 DEF vars, keys, FailCountExpires, Lasting
<1>10. ASSUME NEW w \in Workers, RedisDelAgain(w) PROVE FailCountExpires'
  BY <1>10, <1>none DEF RedisDelAgain
<1>11. QED
  BY <1>1, <1>2, <1>3, <1>4, <1>5, <1>6, <1>7, <1>8, <1>9, <1>10 DEF Next

LEMMA BackendStep ==
    ASSUME TypeOK, Backend, [Next]_vars
    PROVE  Backend'
<1>t. work \in [Workers -> Work] /\ rdb \in BOOLEAN
  BY DEF TypeOK
<1>1. CASE Restart
  <2>1. \A w \in Workers : work'[w].pc = "idle"
    BY <1>1 DEF Restart, Idle
  <2>2. QED BY <2>1 DEF Backend, LocalPcs, RedisPcs
<1>2. CASE UNCHANGED <<work, rdb>>
  BY <1>2 DEF Backend
<1>3. ASSUME NEW w \in Workers, NEW s \in Work, Moved(w, s), UNCHANGED rdb,
             s.pc \notin (IF rdb THEN LocalPcs ELSE RedisPcs)
      PROVE  Backend'
  <2>1. ASSUME NEW v \in Workers
        PROVE  work'[v].pc \notin (IF rdb THEN LocalPcs ELSE RedisPcs)
    <3>1. CASE v = w
      BY <1>3, <3>1 DEF Moved
    <3>2. CASE v # w
      BY <1>3, <3>2 DEF Moved, Backend
    <3>3. QED BY <3>1, <3>2
  <2>2. QED BY <1>3, <2>1 DEF Backend
<1>4. ASSUME NEW w \in Workers, CheckLoad(w) \/ RecordLoad(w) PROVE Backend'
  <2>1. ~rdb /\ UNCHANGED rdb
    BY <1>4 DEF CheckLoad, RecordLoad
  <2>2. \E s \in Work : Moved(w, s) /\ s.pc \notin RedisPcs
    BY <1>4, RequestMoves DEF RedisPcs
  <2>3. QED BY <1>3, <2>1, <2>2
<1>5. ASSUME NEW w \in Workers,
             \/ CheckLock(w) \/ VerifyWrong(w) \/ VerifyRight(w)
             \/ RecordUpdate(w) \/ Clear(w) \/ Abort(w)
             \/ RedisDel(w) \/ RedisClear(w) \/ Crash(w)
      PROVE  Backend'
  <2>1. UNCHANGED rdb
    BY <1>5 DEF CheckLock, VerifyWrong, VerifyRight, RecordUpdate, Clear, Abort,
         RedisDel, RedisClear, Crash
  <2>2. \E s \in Work : Moved(w, s) /\ s.pc \notin LocalPcs /\ s.pc \notin RedisPcs
    BY <1>5, RequestMoves DEF LocalPcs, RedisPcs
  <2>3. QED BY <1>3, <2>1, <2>2
<1>6. ASSUME NEW w \in Workers, RedisExpire(w) \/ RedisSet(w) PROVE Backend'
  <2>1. rdb /\ UNCHANGED rdb
    BY <1>6 DEF RedisExpire, RedisSet, Backend, RedisPcs
  <2>2. \E s \in Work : Moved(w, s) /\ s.pc \notin LocalPcs
    BY <1>6, RequestMoves DEF LocalPcs
  <2>3. QED BY <1>3, <2>1, <2>2
<1>7. ASSUME NEW w \in Workers, RedisIncr(w) PROVE Backend'
  <2>1. rdb /\ UNCHANGED rdb
    BY <1>7 DEF RedisIncr
  <2>2. \E s \in Work : Moved(w, s) /\ s.pc \notin LocalPcs
    BY <1>7, IncrMoves DEF LocalPcs, IncrWay
  <2>3. QED BY <1>3, <2>1, <2>2
<1>8. ASSUME NEW w \in Workers, RedisCheck(w) PROVE Backend'
  <2>1. rdb /\ UNCHANGED rdb
    BY <1>8 DEF RedisCheck
  <2>2. CASE UNCHANGED work
    BY <1>2, <2>1, <2>2
  <2>3. CASE Enter(w, "passed")
    <3>1. \E s \in Work : Moved(w, s) /\ s.pc \notin LocalPcs
      BY <1>t, <2>3, EnterMoves DEF LocalPcs
    <3>2. QED BY <1>3, <2>1, <3>1
  <2>4. QED BY <1>8, <2>2, <2>3 DEF RedisCheck
<1>9. CASE Tick \/ UNCHANGED vars
  BY <1>2, <1>9 DEF Tick, vars
<1>10. ASSUME NEW w \in Workers, RedisDelAgain(w) PROVE Backend'
  BY <1>2, <1>10 DEF RedisDelAgain
<1>11. QED BY <1>1, <1>4, <1>5, <1>6, <1>7, <1>8, <1>9, <1>10 DEF Next

--------------------------------------------------------------------------------
(* The count in the process. *)

(* The three outcomes of recordLoginFailureKnownUser for the state p. *)
LEMMA RecordOutcomes ==
    ASSUME TypeOK, NEW w \in Workers, RecordUpdate(w)
    PROVE  \E p \in 1..Len(heap) :
              /\ p = work[w].ptr
              /\ DOMAIN heap' = DOMAIN heap
              /\ \A q \in DOMAIN heap : q # p => heap'[q] = heap[q]
              /\ \/ /\ LockedState(p) /\ UNCHANGED heap /\ Finish(w)
                    /\ UNCHANGED <<guesses, dropped>>
                 \/ /\ ~LockedState(p) /\ heap[p].failures + 1 < MaxFailures
                    /\ heap'[p].failures = heap[p].failures + 1
                    /\ heap'[p].lockedUntil = heap[p].lockedUntil
                    /\ Finish(w) /\ UNCHANGED <<guesses, dropped>>
                 \/ /\ ~LockedState(p) /\ heap'[p].failures = 0
                    /\ IF p = entry THEN CountAnew
                       ELSE Finish(w) /\ UNCHANGED <<guesses, dropped>>
<1>t. HeapOK /\ WorkOK /\ clock \in Nat
  BY DEF TypeOK, HeapOK, WorkOK
<1>1. work[w].ptr \in 1..Len(heap)
  BY <1>t DEF RecordUpdate, WorkOK
<1>2. PICK p \in 1..Len(heap) : p = work[w].ptr
  BY <1>1
<1>3. heap \in Seq(State) /\ heap[p] \in State /\ DOMAIN heap = 1..Len(heap)
  BY <1>t, <1>2 DEF HeapOK
<1>4. heap[p].failures \in Nat
  BY <1>3 DEF State
<1>5. CASE LockedState(p) /\ UNCHANGED heap /\ Finish(w) /\ UNCHANGED <<guesses, dropped>>
  BY <1>2, <1>5
<1>6. CASE /\ ~LockedState(p) /\ ~Reached(heap[p].failures + 1)
           /\ heap' = [heap EXCEPT ![p].failures = heap[p].failures + 1]
           /\ Finish(w) /\ UNCHANGED <<guesses, dropped>>
  <2>1. heap[p].failures + 1 < MaxFailures
    BY <1>4, <1>6, ThrottleAssumption DEF Reached
  <2>2. PICK e : e = [heap[p] EXCEPT !.failures = heap[p].failures + 1]
    OBVIOUS
  <2>3. e.failures = heap[p].failures + 1 /\ e.lockedUntil = heap[p].lockedUntil
    BY <1>3, <2>2 DEF State
  <2>4. heap' = [heap EXCEPT ![p] = e]
    BY <1>6, <2>2
  <2>5. DOMAIN heap' = DOMAIN heap /\ heap'[p] = e
        /\ \A q \in DOMAIN heap : q # p => heap'[q] = heap[q]
    BY <1>3, <2>4
  <2>6. QED BY <1>2, <1>6, <2>1, <2>3, <2>5
<1>7. CASE /\ ~LockedState(p)
           /\ heap' = [heap EXCEPT ![p] = [failures |-> 0, lockedUntil |-> clock + Lockout]]
           /\ IF p = entry THEN CountAnew ELSE Finish(w) /\ UNCHANGED <<guesses, dropped>>
  <2>1. PICK e : e = [failures |-> 0, lockedUntil |-> clock + Lockout]
    OBVIOUS
  <2>2. e.failures = 0
    BY <2>1
  <2>3. DOMAIN heap' = DOMAIN heap /\ heap'[p] = e
        /\ \A q \in DOMAIN heap : q # p => heap'[q] = heap[q]
    BY <1>3, <1>7, <2>1
  <2>4. QED BY <1>2, <1>7, <2>2, <2>3
<1>8. QED BY <1>2, <1>5, <1>6, <1>7 DEF RecordUpdate

(* A failure is counted where there is no lock, so a lock stays as it is. *)
LEMMA LockedUntouched ==
    ASSUME TypeOK, [Next]_vars, NEW p \in DOMAIN heap, LockedState(p), p \in DOMAIN heap'
    PROVE  heap'[p] = heap[p]
<1>t. HeapOK
  BY DEF TypeOK, HeapOK
<1>1. CASE Restart
  BY <1>1 DEF Restart
<1>2. ASSUME NEW w \in Workers, RecordLoad(w) PROVE heap'[p] = heap[p]
  <2>1. heap' \in {heap, Append(heap, NewState)}
    BY <1>2 DEF RecordLoad
  <2>2. QED BY <1>t, <2>1 DEF HeapOK
<1>3. ASSUME NEW w \in Workers, RecordUpdate(w) PROVE heap'[p] = heap[p]
  BY <1>3, RecordOutcomes
<1>4. ASSUME NEW w \in Workers,
             \/ CheckLoad(w) \/ CheckLock(w) \/ VerifyWrong(w) \/ VerifyRight(w)
             \/ Clear(w) \/ Abort(w) \/ RedisCheck(w) \/ RedisIncr(w) \/ RedisExpire(w)
             \/ RedisSet(w) \/ RedisDel(w) \/ RedisClear(w) \/ RedisDelAgain(w)
             \/ Crash(w)
      PROVE  UNCHANGED heap
  BY <1>4 DEF CheckLoad, CheckLock, VerifyWrong, VerifyRight, Clear, Abort, RedisCheck,
       RedisIncr, RedisExpire, RedisSet, RedisDel, RedisClear, RedisDelAgain, Crash, memory
<1>5. CASE Tick \/ UNCHANGED vars
  BY <1>5 DEF Tick, vars, memory
<1>6. QED BY <1>1, <1>2, <1>3, <1>4, <1>5 DEF Next

LEMMA RecordingFinite ==
    ASSUME TypeOK
    PROVE  /\ IsFiniteSet(Recording) /\ Cardinality(Recording) \in Nat
           /\ Cardinality(Recording) <= Cardinality(Workers)
           /\ Cardinality(Workers) \in Nat
<1>1. Recording \in SUBSET Workers
  BY DEF TypeOK, Recording
<1>2. QED BY <1>1, WorkersAssumption, FS_Subset, FS_CardinalityType

LEMMA FailedType ==
    (HeapOK => Failed \in Nat) /\ (HeapOK' => Failed' \in Nat)
<1>1. HeapOK => (entry # 0 => heap[entry] \in State)
  BY DEF HeapOK
<1>2. HeapOK' => (entry' # 0 => heap'[entry'] \in State)
  BY DEF HeapOK
<1>3. QED BY <1>1, <1>2 DEF Failed, State

(* Steps of a process without Redis. *)
LEMMA LocalActions ==
    ASSUME TypeOK, Backend, ~rdb, [Next]_vars
    PROVE  \/ Tick \/ Restart \/ UNCHANGED vars
           \/ \E w \in Workers :
                 \/ CheckLoad(w) \/ CheckLock(w) \/ VerifyWrong(w) \/ VerifyRight(w)
                 \/ RecordLoad(w) \/ RecordUpdate(w) \/ Clear(w) \/ Abort(w)
<1>1. ASSUME NEW w \in Workers,
             RedisCheck(w) \/ RedisIncr(w) \/ RedisClear(w) \/ Crash(w)
      PROVE  FALSE
  BY <1>1 DEF RedisCheck, RedisIncr, RedisClear, Crash
<1>2. ASSUME NEW w \in Workers,
             RedisExpire(w) \/ RedisSet(w) \/ RedisDel(w) \/ RedisDelAgain(w)
      PROVE  FALSE
  BY <1>2 DEF RedisExpire, RedisSet, RedisDel, RedisDelAgain, Backend, RedisPcs
<1>3. QED BY <1>1, <1>2 DEF Next

(* Where the count starts anew there is nothing to bound. *)
LEMMA LocalAnew ==
    ASSUME TypeOK', fresh' = {}, guesses' = 0, BelowLimit'
    PROVE  LocalParts'
<1>1. HeapOK'
  BY DEF TypeOK, HeapOK
<1>2. Failed' \in Nat
  BY <1>1, FailedType
<1>3. Recording' = {}
  BY DEF Recording
<1>4. LocalBound'
  BY <1>2, <1>3, FS_EmptySet DEF LocalBound
<1>5. FreshAtEntry' /\ LockStops'
  BY DEF FreshAtEntry, LockStops
<1>6. QED BY <1>4, <1>5 DEF LocalParts

(* A step that leaves the states alone and moves one request on. *)
LEMMA LocalMove ==
    ASSUME TypeOK, TypeOK', LocalParts, UNCHANGED <<clock, heap, entry>>,
           NEW w \in Workers, NEW s \in Work, Moved(w, s),
           fresh' \subseteq fresh \cup {w}, fresh \ {w} \subseteq fresh',
           w \in fresh' /\ s.pc \in LocalPcs => s.ptr = entry,
           w \in fresh' /\ s.pc \in {"passed", "wrong", "record"} =>
              entry = 0 \/ ~LockedState(entry),
           \/ guesses' <= guesses /\ Recording' = Recording
           \/ guesses' <= guesses + 1 /\ Recording' = Recording \cup {w} /\ w \notin Recording
    PROVE  LocalParts'
<1>t. HeapOK /\ guesses \in Nat /\ guesses' \in Nat /\ fresh \subseteq Workers
      /\ fresh' \subseteq Workers
  BY DEF TypeOK, HeapOK
<1>1. FreshAtEntry'
  BY <1>t DEF LocalParts, FreshAtEntry, Moved
<1>2. LockStops'
  <2>1. LockedState(entry)' <=> LockedState(entry)
    BY DEF LockedState
  <2>2. SUFFICES ASSUME entry # 0, LockedState(entry), NEW v \in fresh'
                 PROVE  work'[v].pc \notin {"passed", "wrong", "record"}
    BY <2>1 DEF LockStops
  <2>3. CASE v = w
    BY <2>2, <2>3 DEF Moved
  <2>4. CASE v # w
    <3>1. v \in fresh /\ work'[v] = work[v]
      BY <1>t, <2>4 DEF Moved
    <3>2. QED BY <2>2, <3>1 DEF LocalParts, LockStops
  <2>5. QED BY <2>3, <2>4
<1>3. BelowLimit'
  BY DEF LocalParts, BelowLimit
<1>4. LocalBound'
  <2>1. Failed' = Failed /\ Failed \in Nat
    BY <1>t, FailedType DEF Failed
  <2>2. IsFiniteSet(Recording) /\ Cardinality(Recording) \in Nat
    BY RecordingFinite
  <2>3. guesses <= Failed + Cardinality(Recording)
    BY DEF LocalParts, LocalBound
  <2>4. CASE guesses' <= guesses /\ Recording' = Recording
    BY <1>t, <2>1, <2>2, <2>3, <2>4 DEF LocalBound
  <2>5. CASE guesses' <= guesses + 1 /\ Recording' = Recording \cup {w} /\ w \notin Recording
    <3>1. Cardinality(Recording') = Cardinality(Recording) + 1
      BY <2>2, <2>5, FS_AddElement
    <3>2. QED BY <1>t, <2>1, <2>2, <2>3, <2>5, <3>1 DEF LocalBound
  <2>6. QED BY <2>4, <2>5
<1>5. QED BY <1>1, <1>2, <1>3, <1>4 DEF LocalParts

(* The recording set after a move of w. *)
LEMMA RecordingMove ==
    ASSUME TypeOK, NEW w \in Workers, NEW s \in Work, Moved(w, s),
           fresh' \subseteq fresh \cup {w}, fresh \ {w} \subseteq fresh'
    PROVE  /\ w \in fresh' /\ s.pc \in {"wrong", "record"} => Recording' = Recording \cup {w}
           /\ ~(w \in fresh' /\ s.pc \in {"wrong", "record"}) => Recording' = Recording \ {w}
           /\ w \in Recording <=> w \in fresh /\ work[w].pc \in {"wrong", "record"}
<1>1. fresh \subseteq Workers
  BY DEF TypeOK
<1>2. \A v \in Workers : v # w => (v \in Recording' <=> v \in Recording)
  BY <1>1 DEF Recording, Moved
<1>3. w \in Recording' <=> w \in fresh' /\ s.pc \in {"wrong", "record"}
  BY DEF Recording, Moved
<1>4. w \in Recording <=> w \in fresh /\ work[w].pc \in {"wrong", "record"}
  BY DEF Recording
<1>5. Recording \subseteq Workers /\ Recording' \subseteq Workers
  BY <1>1 DEF Recording
<1>6. QED BY <1>2, <1>3, <1>4, <1>5

LEMMA LocalStep ==
    ASSUME TypeOK, TypeOK', Backend, ~rdb, ~rdb', LocalParts, [Next]_vars
    PROVE  LocalParts'
<1>t. /\ HeapOK /\ WorkOK /\ guesses \in Nat /\ fresh \subseteq Workers /\ clock \in Nat
      /\ HeapOK' /\ dropped \in BOOLEAN /\ work \in [Workers -> Work]
  BY DEF TypeOK, HeapOK, WorkOK
<1>i. FreshAtEntry /\ LockStops /\ BelowLimit /\ LocalBound
  BY DEF LocalParts
<1>u. ASSUME UNCHANGED <<heap, entry, work, fresh, guesses>>, clock' \in {clock, clock + 1}
      PROVE  LocalParts'
  <2>1. Recording' = Recording /\ Failed' = Failed
    BY <1>u DEF Recording, Failed
  <2>a. entry # 0 => heap[entry] \in State
    BY <1>t DEF HeapOK
  <2>2. entry # 0 => heap[entry].lockedUntil \in Nat
    BY <2>a DEF State
  <2>3. entry # 0 /\ LockedState(entry)' => LockedState(entry)
    BY <1>t, <1>u, <2>2 DEF LockedState
  <2>4. LockStops'
    BY <1>i, <1>u, <2>3 DEF LockStops
  <2>5. FreshAtEntry' /\ BelowLimit'
    BY <1>i, <1>u DEF FreshAtEntry, BelowLimit
  <2>6. LocalBound'
    BY <1>i, <1>u, <2>1 DEF LocalBound
  <2>7. QED BY <2>4, <2>5, <2>6 DEF LocalParts
<1>1. CASE Tick
  <2>1. UNCHANGED <<heap, entry, work>> /\ clock' = clock + 1
    BY <1>1 DEF Tick, memory
  <2>2. CASE CountAnew
    <3>1. BelowLimit'
      BY <1>i, <2>1 DEF BelowLimit
    <3>2. QED BY <2>2, <3>1, LocalAnew DEF CountAnew
  <2>3. CASE UNCHANGED <<fresh, guesses>>
    BY <1>u, <2>1, <2>3
  <2>4. QED BY <1>1, <2>2, <2>3 DEF Tick
<1>2. CASE Restart
  <2>1. BelowLimit' /\ fresh' = {} /\ guesses' = 0
    BY <1>2 DEF Restart, BelowLimit, CountAnew
  <2>2. QED BY <2>1, LocalAnew
<1>3. ASSUME NEW w \in Workers, CheckLoad(w) PROVE LocalParts'
  <2>1. PICK s \in Work : Moved(w, s) /\ (IF entry = 0 THEN s.pc = "passed"
                                          ELSE s.pc = "check" /\ s.ptr = entry)
    BY <1>3, RequestMoves
  <2>2. /\ fresh' = fresh \cup {w} /\ UNCHANGED <<clock, heap, entry, guesses>>
        /\ work[w].pc = "idle"
    BY <1>3 DEF CheckLoad, memory, Idle
  <2>3. Recording' = Recording
    BY <2>1, <2>2, RecordingMove
  <2>4. QED BY <1>t, <2>1, <2>2, <2>3, LocalMove DEF LocalPcs
<1>4. ASSUME NEW w \in Workers, CheckLock(w) PROVE LocalParts'
  <2>1. UNCHANGED <<clock, heap, entry, guesses>> /\ work[w].pc = "check"
    BY <1>4 DEF CheckLock, memory
  <2>2. CASE Finish(w)
    <3>1. PICK s \in Work : Moved(w, s) /\ s.pc = "idle"
      BY <1>t, <2>2, IdleMoves DEF Finish
    <3>2. fresh' = fresh \ {w}
      BY <2>2 DEF Finish
    <3>3. Recording' = Recording
      BY <2>1, <3>1, <3>2, RecordingMove
    <3>4. QED BY <1>t, <2>1, <3>1, <3>2, <3>3, LocalMove DEF LocalPcs
  <2>3. CASE ~LockedState(work[w].ptr) /\ Enter(w, "passed") /\ UNCHANGED fresh
    <3>1. PICK s \in Work : Moved(w, s) /\ s.pc = "passed"
      BY <1>t, <2>3, EnterMoves
    <3>2. Recording' = Recording
      BY <2>1, <2>3, <3>1, RecordingMove
    <3>3. w \in fresh => ~LockedState(entry)
      BY <1>i, <2>1, <2>3 DEF FreshAtEntry, LocalPcs
    <3>4. QED BY <1>t, <2>1, <2>3, <3>1, <3>2, <3>3, LocalMove DEF LocalPcs
  <2>4. QED BY <1>4, <2>2, <2>3 DEF CheckLock
<1>5. ASSUME NEW w \in Workers, VerifyWrong(w) PROVE LocalParts'
  <2>1. PICK s \in Work : Moved(w, s) /\ s.pc = "wrong"
    BY <1>5, RequestMoves
  <2>2. /\ UNCHANGED <<clock, heap, entry, fresh>> /\ work[w].pc = "passed"
        /\ guesses' = IF w \in fresh /\ ~dropped THEN guesses + 1 ELSE guesses
    BY <1>5 DEF VerifyWrong, memory
  <2>3. w \in fresh => entry = 0 \/ ~LockedState(entry)
    BY <1>i, <2>2 DEF LockStops
  <2>4. w \notin Recording /\ Recording' = IF w \in fresh THEN Recording \cup {w} ELSE Recording
    BY <2>1, <2>2, RecordingMove
  <2>5. CASE w \in fresh
    <3>1. guesses' <= guesses + 1
      BY <1>t, <2>2
    <3>2. QED BY <2>1, <2>2, <2>3, <2>4, <2>5, <3>1, LocalMove DEF LocalPcs
  <2>6. CASE w \notin fresh
    <3>1. guesses' <= guesses
      BY <1>t, <2>2, <2>6
    <3>2. QED BY <2>1, <2>2, <2>3, <2>4, <2>6, <3>1, LocalMove DEF LocalPcs
  <2>7. QED BY <2>5, <2>6
<1>6. ASSUME NEW w \in Workers, VerifyRight(w) \/ Abort(w) PROVE LocalParts'
  <2>1. PICK s \in Work : Moved(w, s) /\ s.pc \in {"right", "idle"}
    BY <1>6, RequestMoves
  <2>2. /\ UNCHANGED <<clock, heap, entry, guesses>> /\ work[w].pc = "passed"
        /\ fresh' \in {fresh, fresh \ {w}}
    BY <1>6 DEF VerifyRight, Abort, Finish, memory
  <2>3. Recording' = Recording
    BY <2>1, <2>2, RecordingMove
  <2>4. QED BY <1>t, <2>1, <2>2, <2>3, LocalMove DEF LocalPcs
<1>7. ASSUME NEW w \in Workers, Clear(w) PROVE LocalParts'
  <2>1. fresh' = {} /\ guesses' = 0 /\ UNCHANGED heap
    BY <1>7 DEF Clear, CountAnew
  <2>2. BelowLimit'
    BY <1>i, <2>1 DEF BelowLimit
  <2>3. QED BY <2>1, <2>2, LocalAnew
<1>8. CASE UNCHANGED vars
  BY <1>t, <1>u, <1>8 DEF vars, memory
(* LoadOrStore: a new state is neither locked nor anybody's. *)
<1>9. ASSUME NEW w \in Workers, RecordLoad(w) PROVE LocalParts'
  <2>1. PICK s \in Work : Moved(w, s) /\ s.pc = "record" /\ s.ptr = entry'
    BY <1>9, RequestMoves
  <2>2. /\ UNCHANGED <<clock, fresh, guesses>> /\ work[w].pc = "wrong"
        /\ heap' = IF entry = 0 THEN Append(heap, NewState) ELSE heap
        /\ entry' = IF entry = 0 THEN Len(heap) + 1 ELSE entry
    BY <1>9 DEF RecordLoad
  <2>3. Recording' = Recording
    BY <2>1, <2>2, RecordingMove
  <2>4. CASE entry # 0
    <3>1. w \in fresh => ~LockedState(entry)
      BY <1>i, <2>2, <2>4 DEF LockStops
    <3>2. QED BY <1>t, <2>1, <2>2, <2>3, <2>4, <3>1, LocalMove DEF LocalPcs
  <2>5. CASE entry = 0
    <3>0. Len(heap) \in Nat /\ NewState \in State /\ heap \in Seq(State)
      BY <1>t DEF HeapOK, NewState, State
    <3>1. /\ heap' = Append(heap, NewState) /\ entry' = Len(heap) + 1
          /\ heap'[entry'] = NewState /\ DOMAIN heap' = DOMAIN heap \cup {entry'}
          /\ \A q \in DOMAIN heap : heap'[q] = heap[q]
      BY <2>2, <2>5, <3>0
    <3>2. NewState.failures = 0 /\ NewState.lockedUntil = 0
      BY DEF NewState
    <3>3. BelowLimit'
      BY <1>i, <3>1, <3>2, ThrottleAssumption DEF BelowLimit
    <3>4. Failed' = 0 /\ Failed = 0
      BY <2>5, <3>0, <3>1, <3>2 DEF Failed
    <3>5. LocalBound'
      BY <1>i, <2>2, <2>3, <3>4 DEF LocalBound
    <3>6. ~LockedState(entry)'
      BY <1>t, <2>2, <3>1, <3>2 DEF LockedState
    <3>7. LockStops'
      BY <3>6 DEF LockStops
    <3>8. FreshAtEntry'
      <4>1. SUFFICES ASSUME NEW v \in fresh', work'[v].pc \in LocalPcs
                     PROVE  work'[v].ptr = entry'
        BY DEF FreshAtEntry
      <4>2. CASE v = w
        BY <2>1, <4>2 DEF Moved
      <4>3. CASE v # w
        <5>1. v \in fresh /\ v \in Workers /\ work'[v] = work[v]
          BY <1>t, <2>1, <2>2, <4>3 DEF Moved
        <5>2. work[v].ptr = 0
          BY <1>i, <2>5, <4>1, <5>1 DEF FreshAtEntry
        <5>3. work[v].ptr \in 1..Len(heap)
          BY <1>t, <4>1, <5>1 DEF WorkOK, LocalPcs
        <5>4. QED BY <3>0, <5>2, <5>3
      <4>4. QED BY <4>2, <4>3
    <3>9. QED BY <3>3, <3>5, <3>7, <3>8 DEF LocalParts
  <2>6. QED BY <2>4, <2>5
<1>10. ASSUME NEW w \in Workers, RecordUpdate(w) PROVE LocalParts'
  <2>1. PICK s \in Work : Moved(w, s) /\ s.pc = "idle"
    BY <1>10, RequestMoves
  <2>2. PICK p \in 1..Len(heap) :
              /\ p = work[w].ptr
              /\ DOMAIN heap' = DOMAIN heap
              /\ \A q \in DOMAIN heap : q # p => heap'[q] = heap[q]
              /\ \/ /\ LockedState(p) /\ UNCHANGED heap /\ Finish(w)
                    /\ UNCHANGED <<guesses, dropped>>
                 \/ /\ ~LockedState(p) /\ heap[p].failures + 1 < MaxFailures
                    /\ heap'[p].failures = heap[p].failures + 1
                    /\ heap'[p].lockedUntil = heap[p].lockedUntil
                    /\ Finish(w) /\ UNCHANGED <<guesses, dropped>>
                 \/ /\ ~LockedState(p) /\ heap'[p].failures = 0
                    /\ IF p = entry THEN CountAnew
                       ELSE Finish(w) /\ UNCHANGED <<guesses, dropped>>
    BY <1>10, RecordOutcomes
  <2>3. UNCHANGED <<clock, entry>> /\ work[w].pc = "record" /\ DOMAIN heap = 1..Len(heap)
    BY <1>10, <1>t DEF RecordUpdate, HeapOK
  <2>4. w \in fresh => p = entry
    BY <1>i, <2>2, <2>3 DEF FreshAtEntry, LocalPcs
  <2>5. BelowLimit'
    BY <1>i, <2>2, <2>3, ThrottleAssumption DEF BelowLimit
  <2>6. CASE CountAnew
    BY <2>5, <2>6, LocalAnew DEF CountAnew
  <2>7. CASE /\ Finish(w) /\ UNCHANGED guesses
             /\ entry # 0 => heap'[entry].lockedUntil = heap[entry].lockedUntil
             /\ IF w \in fresh THEN Failed' = Failed + 1 ELSE Failed' >= Failed
    <3>1. fresh' = fresh \ {w}
      BY <2>7 DEF Finish
    <3>2. FreshAtEntry'
      BY <1>i, <1>t, <2>1, <2>3, <3>1 DEF FreshAtEntry, Moved
    <3>3. LockStops'
      <4>1. entry # 0 => (LockedState(entry)' <=> LockedState(entry))
        BY <2>3, <2>7 DEF LockedState
      <4>2. QED BY <1>i, <1>t, <2>1, <2>3, <3>1, <4>1 DEF LockStops, Moved
    <3>4. Recording' = Recording \ {w} /\ (w \in Recording <=> w \in fresh)
      BY <2>1, <2>3, <3>1, RecordingMove
    <3>5. IsFiniteSet(Recording) /\ Cardinality(Recording) \in Nat
      BY RecordingFinite
    <3>6. Cardinality(Recording') = IF w \in fresh THEN Cardinality(Recording) - 1
                                    ELSE Cardinality(Recording)
      BY <3>4, <3>5, FS_RemoveElement
    <3>7. Failed \in Nat /\ Failed' \in Nat
      BY <1>t, FailedType
    <3>8. LocalBound'
      BY <1>i, <1>t, <2>7, <3>5, <3>6, <3>7 DEF LocalBound
    <3>9. QED BY <2>5, <3>2, <3>3, <3>8 DEF LocalParts
  <2>8. Failed \in Nat
    BY <1>t, FailedType
  <2>e. entry # 0 => entry \in DOMAIN heap
    BY <1>t, <2>3 DEF HeapOK
  <2>9. CASE LockedState(p) /\ UNCHANGED heap /\ Finish(w) /\ UNCHANGED guesses
    <3>1. w \notin fresh
      BY <1>i, <2>3, <2>4, <2>9, <2>2 DEF LockStops
    <3>2. Failed' = Failed
      BY <2>3, <2>9 DEF Failed
    <3>3. QED BY <2>7, <2>8, <2>9, <3>1, <3>2
  <2>10. CASE /\ heap'[p].failures = heap[p].failures + 1
              /\ heap'[p].lockedUntil = heap[p].lockedUntil
              /\ Finish(w) /\ UNCHANGED guesses
    <3>1. CASE p = entry
      <4>1. Failed' = Failed + 1 /\ heap'[entry].lockedUntil = heap[entry].lockedUntil
        BY <2>2, <2>3, <2>10, <3>1 DEF Failed
      <4>2. QED BY <2>7, <2>8, <2>10, <4>1
    <3>2. CASE p # entry
      <4>1. /\ Failed' = Failed
            /\ entry # 0 => heap'[entry].lockedUntil = heap[entry].lockedUntil
        BY <2>2, <2>3, <2>e, <3>2 DEF Failed
      <4>2. QED BY <2>4, <2>7, <2>8, <2>10, <3>2, <4>1
    <3>3. QED BY <3>1, <3>2
  <2>11. CASE p # entry /\ Finish(w) /\ UNCHANGED guesses
    <3>1. /\ Failed' = Failed
          /\ entry # 0 => heap'[entry].lockedUntil = heap[entry].lockedUntil
      BY <2>2, <2>3, <2>e, <2>11 DEF Failed
    <3>2. QED BY <2>4, <2>7, <2>8, <2>11, <3>1
  <2>12. QED BY <2>2, <2>6, <2>9, <2>10, <2>11
<1>11. QED BY <1>1, <1>2, <1>3, <1>4, <1>5, <1>6, <1>7, <1>8, <1>9, <1>10, LocalActions

--------------------------------------------------------------------------------
(* The count in Redis. *)

LEMMA Products ==
    ASSUME NEW m \in Nat, NEW c \in Nat
    PROVE  /\ m * c \in Nat
           /\ m * (c + 1) = m * c + m
           /\ c # 0 => m <= m * c
<1>1. m * c \in Nat /\ m * (c + 1) = m * c + m
  OBVIOUS
<1>2. ASSUME c # 0 PROVE m <= m * c
  <2>1. PICK d \in Nat : c = d + 1
    <3>1. c - 1 \in Nat /\ c = (c - 1) + 1
      BY <1>2
    <3>2. QED BY <3>1
  <2>2. m * c = m * d + m /\ m * d \in Nat
    BY <2>1
  <2>3. QED BY <2>2
<1>3. QED BY <1>1, <1>2

LEMMA RecordedType ==
    /\ failKey \in FailKey => Recorded \in 0..(MaxFailures - 1)
    /\ failKey' \in FailKey => Recorded' \in 0..(MaxFailures - 1)
<1>1. failKey \in FailKey => failKey.count \in Nat
  BY DEF FailKey
<1>2. failKey' \in FailKey => failKey'.count \in Nat
  BY DEF FailKey
<1>3. QED BY <1>1, <1>2, ThrottleAssumption DEF Recorded

LEMMA RedisFinite ==
    /\ IsFiniteSet(Pending) /\ Cardinality(Pending) \in Nat
    /\ IsFiniteSet(NotDeleting) /\ Cardinality(NotDeleting) \in Nat
    /\ IsFiniteSet(Pending') /\ Cardinality(Pending') \in Nat
    /\ IsFiniteSet(NotDeleting') /\ Cardinality(NotDeleting') \in Nat
    /\ NotDeleting = {} <=> Cardinality(NotDeleting) = 0
    /\ NotDeleting' = {} <=> Cardinality(NotDeleting') = 0
<1>1. /\ Pending \in SUBSET Workers /\ NotDeleting \in SUBSET Workers
      /\ Pending' \in SUBSET Workers /\ NotDeleting' \in SUBSET Workers
  BY DEF Pending, NotDeleting
<1>2. /\ IsFiniteSet(Pending) /\ IsFiniteSet(NotDeleting)
      /\ IsFiniteSet(Pending') /\ IsFiniteSet(NotDeleting')
  BY <1>1, WorkersAssumption, FS_Subset
<1>3. QED BY <1>2, FS_CardinalityType, FS_EmptySet

(* Where the count starts anew there is nothing to bound. *)
LEMMA RedisAnew ==
    ASSUME TypeOK', guesses' = 0
    PROVE  RedisBound'
<1>1. Recorded' \in 0..(MaxFailures - 1)
  BY RecordedType DEF TypeOK
<1>2. /\ Cardinality(Pending') \in Nat /\ Cardinality(NotDeleting') \in Nat
      /\ NotDeleting' = {} <=> Cardinality(NotDeleting') = 0
  BY RedisFinite
<1>3. PICK m \in Nat : m = MaxFailures - 1
  BY ThrottleAssumption
<1>4. PICK c \in Nat : c = Cardinality(NotDeleting')
  BY <1>2
<1>5. c # 0 => m <= m * c
  BY Products
<1>6. m * c \in Nat
  BY Products
<1>7. NotDeleting' # {} =>
         guesses' + m <= m * c + Recorded' + Cardinality(Pending')
  BY <1>1, <1>2, <1>4, <1>5, <1>6
<1>8. QED BY <1>3, <1>4, <1>7 DEF RedisBound

PendingState(st) == st.pc \in {"wrong", "set"} \/ (st.pc = "expire" /\ Reached(st.n))

(* A pending request counts for one guess. *)
Weight(st) == IF PendingState(st) THEN 1 ELSE 0

LEMMA PendingMove ==
    ASSUME NEW w \in Workers, NEW s \in Work, Moved(w, s)
    PROVE  /\ Pending' = IF PendingState(s) THEN Pending \cup {w} ELSE Pending \ {w}
           /\ w \in Pending <=> PendingState(work[w])
           /\ NotDeleting' = IF s.pc # "del" THEN NotDeleting \cup {w} ELSE NotDeleting \ {w}
           /\ w \in NotDeleting <=> work[w].pc # "del"
<1>1. \A v \in Workers : v \in Pending <=> PendingState(work[v])
  BY DEF Pending, PendingState
<1>2. \A v \in Workers : v \in Pending' <=> PendingState(work'[v])
  BY DEF Pending, PendingState, Reached
<1>3. Pending \subseteq Workers /\ Pending' \subseteq Workers
  BY DEF Pending
<1>4. \A v \in Workers : v \in NotDeleting <=> work[v].pc # "del"
  BY DEF NotDeleting
<1>5. \A v \in Workers : v \in NotDeleting' <=> work'[v].pc # "del"
  BY DEF NotDeleting
<1>6. NotDeleting \subseteq Workers /\ NotDeleting' \subseteq Workers
  BY DEF NotDeleting
<1>7. /\ \A v \in Workers : v # w => (v \in Pending' <=> v \in Pending)
      /\ w \in Pending' <=> PendingState(s)
  BY <1>1, <1>2 DEF Moved
<1>8. /\ \A v \in Workers : v # w => (v \in NotDeleting' <=> v \in NotDeleting)
      /\ w \in NotDeleting' <=> s.pc # "del"
  BY <1>4, <1>5 DEF Moved
<1>9. Pending' = IF PendingState(s) THEN Pending \cup {w} ELSE Pending \ {w}
  BY <1>3, <1>7
<1>10. NotDeleting' = IF s.pc # "del" THEN NotDeleting \cup {w} ELSE NotDeleting \ {w}
  BY <1>6, <1>8
<1>11. QED BY <1>1, <1>4, <1>9, <1>10

(* A step of a request that does not begin or end with its DEL: a guess    *)
(* it adds, or a request it takes from the pending ones, is accounted for. *)
LEMMA RedisMove ==
    ASSUME TypeOK, TypeOK', RedisBound, NEW w \in Workers, NEW s \in Work, Moved(w, s),
           work[w].pc # "del", s.pc # "del",
           guesses' + Recorded + Weight(work[w])
              <= guesses + Recorded' + Weight(s)
    PROVE  RedisBound'
<1>1. NotDeleting' = NotDeleting /\ NotDeleting # {}
  BY PendingMove
<1>2. /\ Pending' = IF PendingState(s) THEN Pending \cup {w} ELSE Pending \ {w}
      /\ w \in Pending <=> PendingState(work[w])
  BY PendingMove
<1>3. IsFiniteSet(Pending) /\ Cardinality(Pending) \in Nat /\ Cardinality(NotDeleting) \in Nat
  BY RedisFinite
<1>a. PICK b : b = Weight(work[w])
  OBVIOUS
<1>b. PICK d : d = Weight(s)
  OBVIOUS
<1>c. b \in {0, 1} /\ d \in {0, 1} /\ b = IF w \in Pending THEN 1 ELSE 0
  BY <1>2, <1>a, <1>b DEF Weight
<1>d. guesses' + Recorded + b <= guesses + Recorded' + d
  BY <1>a, <1>b
<1>4. Cardinality(Pending') = Cardinality(Pending) - b + d
  <2>1. CASE PendingState(s)
    <3>1. Pending' = Pending \cup {w} /\ d = 1
      BY <1>2, <1>b, <2>1 DEF Weight
    <3>2. Cardinality(Pending \cup {w}) =
             IF w \in Pending THEN Cardinality(Pending) ELSE Cardinality(Pending) + 1
      BY <1>3, FS_AddElement
    <3>3. QED BY <1>3, <1>c, <3>1, <3>2
  <2>2. CASE ~PendingState(s)
    <3>1. Pending' = Pending \ {w} /\ d = 0
      BY <1>2, <1>b, <2>2 DEF Weight
    <3>2. Cardinality(Pending \ {w}) =
             IF w \in Pending THEN Cardinality(Pending) - 1 ELSE Cardinality(Pending)
      BY <1>3, FS_RemoveElement
    <3>3. QED BY <1>3, <1>c, <3>1, <3>2
  <2>3. QED BY <2>1, <2>2
<1>5. PICK m \in Nat : m = MaxFailures - 1
  BY ThrottleAssumption
<1>6. PICK k \in Nat : k = m * Cardinality(NotDeleting)
  BY <1>3, Products
<1>7. Recorded \in Nat /\ Recorded' \in Nat /\ guesses \in Nat /\ guesses' \in Nat
  BY RecordedType DEF TypeOK
<1>8. guesses + m <= k + Recorded + Cardinality(Pending)
  BY <1>1, <1>5, <1>6 DEF RedisBound
<1>9. guesses' + m <= k + Recorded' + Cardinality(Pending')
  <2>1. PICK x \in Nat, y \in Nat, g \in Nat, h \in Nat, p \in Nat :
           x = Recorded /\ y = Recorded' /\ g = guesses /\ h = guesses'
           /\ p = Cardinality(Pending)
    BY <1>3, <1>7
  <2>2. PICK q : q = Cardinality(Pending')
    OBVIOUS
  <2>3. q = p - b + d /\ h + x + b <= g + y + d /\ g + m <= k + x + p
    BY <1>4, <1>8, <1>d, <2>1, <2>2
  <2>4. h + m <= k + y + q
    BY <1>c, <2>3
  <2>5. QED BY <2>1, <2>2, <2>4
<1>10. QED BY <1>1, <1>5, <1>6, <1>9 DEF RedisBound

LEMMA RedisActions ==
    ASSUME TypeOK, Backend, rdb, [Next]_vars
    PROVE  \/ Tick \/ Restart \/ UNCHANGED vars
           \/ \E w \in Workers :
                 \/ VerifyWrong(w) \/ VerifyRight(w) \/ Abort(w) \/ RedisCheck(w)
                 \/ RedisIncr(w) \/ RedisExpire(w) \/ RedisSet(w) \/ RedisDel(w)
                 \/ RedisClear(w) \/ RedisDelAgain(w) \/ Crash(w)
<1>1. ASSUME NEW w \in Workers, CheckLoad(w) \/ RecordLoad(w) \/ Clear(w)
      PROVE  FALSE
  BY <1>1 DEF CheckLoad, RecordLoad, Clear
<1>2. ASSUME NEW w \in Workers, CheckLock(w) \/ RecordUpdate(w)
      PROVE  FALSE
  BY <1>2 DEF CheckLock, RecordUpdate, Backend, LocalPcs
<1>3. QED BY <1>1, <1>2 DEF Next

LEMMA RedisStep ==
    ASSUME TypeOK, TypeOK', Backend, rdb, RedisInv, ~dropped', [Next]_vars
    PROVE  RedisBound'
<1>t. /\ work \in [Workers -> Work] /\ guesses \in Nat /\ failKey \in FailKey
      /\ failKey' \in FailKey /\ guesses' \in Nat
  BY DEF TypeOK
<1>r. /\ Recorded \in 0..(MaxFailures - 1) /\ Recorded' \in 0..(MaxFailures - 1)
      /\ Recorded \in Nat /\ Recorded' \in Nat
      /\ failKey.count \in Nat /\ failKey'.count \in Nat
  BY <1>t, RecordedType DEF FailKey
<1>p. PICK x \in Nat, y \in Nat, g \in Nat, h \in Nat :
         x = Recorded /\ y = Recorded' /\ g = guesses /\ h = guesses'
  BY <1>t, <1>r
<1>w. ASSUME NEW w \in Workers, NEW s \in Work, NEW b \in {0, 1}, NEW d \in {0, 1},
             Weight(work[w]) = b, Weight(s) = d, h + x + b <= g + y + d
      PROVE  guesses' + Recorded + Weight(work[w]) <= guesses + Recorded' + Weight(s)
  BY <1>p, <1>w
<1>i. UNCHANGED dropped => RedisBound
  BY DEF RedisInv
<1>s. failKey'.count = failKey.count => Recorded' = Recorded
  BY DEF Recorded
<1>u. ASSUME UNCHANGED <<work, failKey, guesses, dropped>> PROVE RedisBound'
  <2>1. Pending' = Pending /\ NotDeleting' = NotDeleting /\ Recorded' = Recorded
    BY <1>u DEF Pending, NotDeleting, Recorded, Reached
  <2>2. QED BY <1>i, <1>u, <2>1 DEF RedisBound
(* A move between states that are not pending, with the same count. *)
<1>m. ASSUME NEW w \in Workers, NEW s \in Work, Moved(w, s), work[w].pc # "del",
             s.pc # "del", UNCHANGED <<guesses, dropped>>, failKey'.count = failKey.count,
             PendingState(work[w]) <=> PendingState(s)
      PROVE  RedisBound'
  <2>1. guesses' + Recorded + Weight(work[w])
              <= guesses + Recorded' + Weight(s)
    <3>1. Weight(work[w]) = Weight(s) /\ Weight(s) \in {0, 1}
      BY <1>m DEF Weight
    <3>2. QED BY <1>m, <1>s, <1>t, <1>r, <3>1
  <2>2. QED BY <1>i, <1>m, <2>1, RedisMove
<1>1. CASE Tick
  <2>1. CASE CountAnew
    BY <2>1, RedisAnew DEF CountAnew
  <2>2. CASE UNCHANGED <<failKey, dropped, guesses>>
    BY <1>1, <1>u, <2>2 DEF Tick
  <2>3. QED BY <1>1, <2>1, <2>2 DEF Tick
<1>2. CASE Restart
  BY <1>2, RedisAnew DEF Restart, CountAnew
<1>3. ASSUME NEW w \in Workers, VerifyWrong(w) PROVE RedisBound'
  <2>1. PICK s \in Work : Moved(w, s) /\ s.pc = "wrong"
    BY <1>3, RequestMoves
  <2>2. /\ work[w].pc = "passed" /\ UNCHANGED <<failKey, dropped>>
        /\ guesses' = IF w \in fresh /\ ~dropped THEN guesses + 1 ELSE guesses
    BY <1>3 DEF VerifyWrong, keys
  <2>3. ~PendingState(work[w]) /\ PendingState(s) /\ Recorded' = Recorded
    BY <1>s, <2>1, <2>2 DEF PendingState
  <2>4. guesses' <= guesses + 1
    BY <1>t, <2>2
  <2>5. guesses' + Recorded + Weight(work[w])
              <= guesses + Recorded' + Weight(s)
    <3>1. Weight(work[w]) = 0 /\ Weight(s) = 1
      BY <2>3 DEF Weight
    <3>2. h <= g + 1 /\ y = x
      BY <1>p, <2>3, <2>4
    <3>3. QED BY <1>w, <3>1, <3>2
  <2>6. QED BY <1>i, <2>1, <2>2, <2>5, RedisMove
<1>4. ASSUME NEW w \in Workers, VerifyRight(w) \/ Abort(w) PROVE RedisBound'
  <2>1. PICK s \in Work : Moved(w, s) /\ s.pc \in {"right", "idle"}
    BY <1>4, RequestMoves
  <2>2. work[w].pc = "passed" /\ UNCHANGED <<failKey, dropped, guesses>>
    BY <1>4 DEF VerifyRight, Abort, keys
  <2>3. ~PendingState(work[w]) /\ ~PendingState(s)
    BY <2>1, <2>2 DEF PendingState
  <2>4. QED BY <1>m, <2>1, <2>2, <2>3
<1>5. ASSUME NEW w \in Workers, RedisCheck(w) PROVE RedisBound'
  <2>1. work[w].pc = "idle" /\ UNCHANGED <<failKey, guesses, dropped>>
    BY <1>5 DEF RedisCheck, keys, Idle, FailOpen
  <2>2. CASE UNCHANGED work
    BY <1>u, <2>1, <2>2
  <2>3. CASE Enter(w, "passed")
    <3>1. PICK s \in Work : Moved(w, s) /\ s.pc = "passed"
      BY <1>t, <2>3, EnterMoves
    <3>2. ~PendingState(work[w]) /\ ~PendingState(s)
      BY <2>1, <3>1 DEF PendingState
    <3>3. QED BY <1>m, <2>1, <3>1, <3>2
  <2>4. QED BY <1>5, <2>2, <2>3 DEF RedisCheck
(* A failure that was counted is in the count, or led to a block. *)
<1>6. ASSUME NEW w \in Workers, RedisIncr(w) PROVE RedisBound'
  <2>1. PICK s \in Work : Moved(w, s) /\ IncrWay(w, s, failKey.count + 1)
    BY <1>6, IncrMoves
  <2>2. work[w].pc = "wrong" /\ UNCHANGED guesses
    BY <1>6 DEF RedisIncr
  <2>3. PICK n \in {failKey.count + 1, failKey.count + 2} :
           /\ failKey' = [failKey EXCEPT !.count = n] /\ UNCHANGED dropped
           /\ \/ s.pc = "expire" /\ s.n = n
              \/ s.pc = IF Reached(n) THEN "set" ELSE "idle"
    <3>1. (failKey.count + 1) + 1 = failKey.count + 2
      BY <1>r
    <3>2. QED BY <2>1, <3>1 DEF IncrWay
  <2>4. failKey'.count = n
    BY <1>t, <2>3 DEF FailKey
  <2>5. PendingState(work[w]) /\ (PendingState(s) <=> Reached(n)) /\ s.pc # "del"
    BY <2>2, <2>3 DEF PendingState
  <2>6. Recorded' >= Recorded /\ (~Reached(n) => Recorded' >= Recorded + 1)
    BY <1>r, <2>3, <2>4, ThrottleAssumption DEF Recorded, Reached
  <2>7. guesses' + Recorded + Weight(work[w])
              <= guesses + Recorded' + Weight(s)
    <3>0. Weight(work[w]) = 1
      BY <2>5 DEF Weight
    <3>1. CASE Reached(n)
      <4>1. Weight(s) = 1
        BY <2>5, <3>1 DEF Weight
      <4>2. h = g /\ y >= x
        BY <1>p, <2>2, <2>6
      <4>3. QED BY <1>w, <3>0, <4>1, <4>2
    <3>2. CASE ~Reached(n)
      <4>1. Weight(s) = 0 /\ Recorded' >= Recorded + 1
        BY <2>5, <2>6, <3>2 DEF Weight
      <4>2. h = g /\ y >= x + 1
        BY <1>p, <2>2, <4>1
      <4>3. QED BY <1>w, <3>0, <4>1, <4>2
    <3>3. QED BY <3>1, <3>2
  <2>8. QED BY <1>i, <2>1, <2>2, <2>3, <2>5, <2>7, RedisMove
<1>7. ASSUME NEW w \in Workers, RedisExpire(w) PROVE RedisBound'
  <2>1. PICK s \in Work : Moved(w, s) /\ s.pc = IF Reached(work[w].n) THEN "set" ELSE "idle"
    BY <1>7, RequestMoves
  <2>2. work[w].pc = "expire" /\ UNCHANGED <<dropped, guesses>>
    BY <1>7 DEF RedisExpire
  <2>3. failKey'.count = failKey.count
    <3>1. failKey' \in {failKey, [failKey EXCEPT !.expires = clock + FailTTL]}
      BY <1>7 DEF RedisExpire
    <3>2. QED BY <1>t, <3>1 DEF FailKey
  <2>4. PendingState(work[w]) <=> PendingState(s)
    BY <2>1, <2>2 DEF PendingState
  <2>5. QED BY <1>m, <2>1, <2>2, <2>3, <2>4
<1>8. ASSUME NEW w \in Workers, RedisSet(w) PROVE RedisBound'
  BY <1>8, RedisAnew DEF RedisSet, FailOpen, CountAnew
(* A DEL takes away a count below the limit, and its request with it. *)
<1>9. ASSUME NEW w \in Workers, RedisDel(w) PROVE RedisBound'
  <2>1. PICK s \in Work : Moved(w, s) /\ s.pc = "idle"
    BY <1>9, RequestMoves
  <2>2. work[w].pc = "del" /\ UNCHANGED <<dropped, guesses>>
    BY <1>9 DEF RedisDel
  <2>3. NotDeleting' = NotDeleting \cup {w} /\ w \notin NotDeleting
    BY <2>1, <2>2, PendingMove
  <2>4. Pending' = Pending
    <3>1. ~PendingState(work[w]) /\ ~PendingState(s)
      BY <2>1, <2>2 DEF PendingState
    <3>2. QED BY <2>1, <3>1, PendingMove
  <2>5. /\ IsFiniteSet(NotDeleting) /\ Cardinality(NotDeleting) \in Nat
        /\ Cardinality(Pending) \in Nat
    BY RedisFinite
  <2>6. PICK c \in Nat : c = Cardinality(NotDeleting)
    BY <2>5
  <2>7. Cardinality(NotDeleting') = c + 1
    BY <2>3, <2>5, <2>6, FS_AddElement
  <2>8. PICK m \in Nat : m = MaxFailures - 1
    BY ThrottleAssumption
  <2>9. PICK k \in Nat : k = m * c
    BY Products
  <2>10. m * (c + 1) = k + m
    BY <2>9, Products
  <2>11. CASE NotDeleting = {}
    BY <1>i, <2>2, <2>11, RedisAnew DEF RedisBound
  <2>12. CASE NotDeleting # {}
    <3>1. guesses + m <= k + Recorded + Cardinality(Pending)
      BY <1>i, <2>2, <2>6, <2>8, <2>9, <2>12 DEF RedisBound
    <3>2. guesses + m <= (k + m) + Recorded' + Cardinality(Pending)
      BY <1>r, <1>t, <2>5, <2>8, <3>1
    <3>3. guesses' + m <= m * (c + 1) + Recorded' + Cardinality(Pending')
      BY <2>2, <2>4, <2>10, <3>2
    <3>4. NotDeleting' # {}
      BY <2>3
    <3>5. QED BY <2>7, <2>8, <3>3, <3>4 DEF RedisBound
  <2>13. QED BY <2>11, <2>12
<1>10. ASSUME NEW w \in Workers, RedisClear(w) PROVE RedisBound'
  <2>1. CASE CountAnew
    BY <2>1, RedisAnew DEF CountAnew
  <2>2. CASE UNCHANGED <<failKey, guesses, dropped>>
    <3>1. PICK s \in Work : Moved(w, s) /\ s.pc = "idle"
      BY <1>10, RequestMoves
    <3>2. work[w].pc = "right"
      BY <1>10 DEF RedisClear
    <3>3. ~PendingState(work[w]) /\ ~PendingState(s)
      BY <3>1, <3>2 DEF PendingState
    <3>4. QED BY <1>m, <2>2, <3>1, <3>2, <3>3
  <2>3. QED BY <1>10, <2>1, <2>2 DEF RedisClear, keys
<1>11. ASSUME NEW w \in Workers, Crash(w) \/ RedisDelAgain(w) PROVE RedisBound'
  BY <1>11 DEF Crash, RedisDelAgain, FailOpen
<1>12. CASE UNCHANGED vars
  BY <1>12, <1>u DEF vars, keys
<1>13. QED BY <1>1, <1>2, <1>3, <1>4, <1>5, <1>6, <1>7, <1>8, <1>9, <1>10, <1>11,
              <1>12, RedisActions

--------------------------------------------------------------------------------
LEMMA InvInit ==
    ASSUME Init
    PROVE  IInv
<1>1. TypeOK
  BY TypeInit
<1>2. FailCountExpires
  BY DEF Init, FailCountExpires, Lasting, NoKey
<1>3. \A w \in Workers : work[w].pc = "idle"
  BY DEF Init, Idle
<1>4. Backend
  BY <1>3 DEF Backend, LocalPcs, RedisPcs
<1>5. LocalParts
  <2>1. fresh = {} /\ guesses = 0 /\ entry = 0 /\ heap = <<>>
    BY DEF Init
  <2>2. FreshAtEntry /\ LockStops /\ BelowLimit
    BY <2>1 DEF FreshAtEntry, LockStops, BelowLimit
  <2>3. Failed = 0 /\ Recording = {}
    BY <2>1 DEF Failed, Recording
  <2>4. QED BY <2>1, <2>2, <2>3, FS_EmptySet DEF LocalParts, LocalBound
<1>6. RedisBound
  <2>1. Pending = {} /\ guesses = 0
    BY <1>3 DEF Init, Pending
  <2>2. Recorded = 0
    BY ThrottleAssumption DEF Init, Recorded, NoKey
  <2>3. PICK c \in Nat : c = Cardinality(NotDeleting)
    BY RedisFinite
  <2>4. NotDeleting # {} => c # 0
    BY <2>3, RedisFinite
  <2>5. PICK m \in Nat : m = MaxFailures - 1
    BY ThrottleAssumption
  <2>6. (c # 0 => m <= m * c) /\ m * c \in Nat
    BY Products
  <2>7. Cardinality(Pending) = 0
    BY <2>1, FS_EmptySet
  <2>8. NotDeleting # {} => guesses + m <= m * c + Recorded + Cardinality(Pending)
    BY <2>1, <2>2, <2>4, <2>6, <2>7
  <2>9. QED BY <2>1, <2>3, <2>5, <2>8 DEF RedisBound
<1>7. QED BY <1>1, <1>2, <1>4, <1>5, <1>6 DEF IInv, LocalInv, RedisInv

LEMMA InvStep ==
    ASSUME IInv, [Next]_vars
    PROVE  IInv'
<1>1. TypeOK /\ FailCountExpires /\ Backend /\ LocalInv /\ RedisInv
  BY DEF IInv
<1>2. TypeOK'
  BY <1>1, TypeStep
<1>3. FailCountExpires'
  BY <1>1, ExpiryStep
<1>4. Backend'
  BY <1>1, BackendStep
(* Only a restart changes over between memory and Redis. *)
<1>5. UNCHANGED rdb \/ Restart
  BY DEF Next, Tick, CheckLoad, CheckLock, VerifyWrong, VerifyRight, RecordLoad,
       RecordUpdate, Clear, Abort, RedisCheck, RedisIncr, RedisExpire, RedisSet,
       RedisDel, RedisClear, RedisDelAgain, Crash, vars
<1>6. ASSUME Restart PROVE LocalParts' /\ RedisBound'
  <2>1. fresh' = {} /\ guesses' = 0 /\ heap' = <<>>
    BY <1>6 DEF Restart, CountAnew
  <2>2. BelowLimit'
    BY <2>1 DEF BelowLimit
  <2>3. QED BY <1>2, <2>1, <2>2, LocalAnew, RedisAnew
<1>7. ASSUME ~rdb' PROVE LocalParts'
  <2>1. CASE Restart
    BY <1>6, <2>1
  <2>2. CASE UNCHANGED rdb
    <3>1. ~rdb /\ LocalParts
      BY <1>1, <1>7, <2>2 DEF LocalInv
    <3>2. QED BY <1>1, <1>2, <1>7, <3>1, LocalStep
  <2>3. QED BY <1>5, <2>1, <2>2
<1>8. ASSUME rdb', ~dropped' PROVE RedisBound'
  <2>1. CASE Restart
    BY <1>6, <2>1
  <2>2. CASE UNCHANGED rdb
    <3>1. rdb
      BY <1>8, <2>2
    <3>2. QED BY <1>1, <1>2, <1>8, <3>1, RedisStep
  <2>3. QED BY <1>5, <2>1, <2>2
<1>9. QED BY <1>2, <1>3, <1>4, <1>7, <1>8 DEF IInv, LocalInv, RedisInv

LEMMA InvHolds == Spec => []IInv
<1>1. IInv /\ [Next]_vars => IInv'
  BY InvStep
<1>2. Init => IInv
  BY InvInit
<1>3. QED BY <1>1, <1>2, PTL DEF Spec

(* What the bookkeeping says of the number of guesses. *)
LEMMA InvBounds ==
    ASSUME IInv
    PROVE  GuessesBounded
<1>t. TypeOK /\ LocalInv /\ RedisInv
  BY DEF IInv
<1>n. PICK N \in Nat : N = Cardinality(Workers)
  BY WorkersAssumption, FS_CardinalityType
<1>m. PICK m \in Nat : m = MaxFailures - 1 /\ MaxFailures = m + 1
  BY ThrottleAssumption
<1>g. guesses \in Nat
  BY <1>t DEF TypeOK
<1>1. ASSUME ~rdb PROVE guesses <= MaxFailures - 1 + N
  <2>1. BelowLimit /\ LocalBound
    BY <1>t, <1>1 DEF LocalInv, LocalParts
  <2>2. HeapOK
    BY <1>t DEF TypeOK, HeapOK
  <2>3. Failed \in Nat
    BY <2>2, FailedType
  <2>4. Failed <= m
    <3>1. entry # 0 => entry \in DOMAIN heap
      BY <2>2 DEF HeapOK
    <3>2. entry # 0 => Failed < MaxFailures
      BY <2>1, <3>1 DEF BelowLimit, Failed
    <3>3. entry = 0 => Failed = 0
      BY DEF Failed
    <3>4. QED BY <1>m, <2>3, <3>2, <3>3
  <2>5. PICK r \in Nat : r = Cardinality(Recording) /\ r <= N
    BY <1>t, <1>n, RecordingFinite
  <2>6. guesses <= Failed + r
    BY <2>1, <2>5 DEF LocalBound
  <2>7. QED BY <1>g, <1>m, <2>3, <2>4, <2>5, <2>6
<1>2. ASSUME rdb, ~dropped PROVE guesses <= MaxFailures * N
  <2>1. RedisBound
    BY <1>t, <1>2 DEF RedisInv
  <2>2. PICK c \in Nat : c = Cardinality(NotDeleting)
    BY RedisFinite
  <2>3. PICK p \in Nat : p = Cardinality(Pending)
    BY RedisFinite
  <2>4. Pending \in SUBSET NotDeleting /\ NotDeleting \in SUBSET Workers
    BY DEF Pending, NotDeleting
  <2>5. IsFiniteSet(NotDeleting)
    BY RedisFinite
  <2>6. p <= c
    BY <2>2, <2>3, <2>4, <2>5, FS_Subset
  <2>7. c <= N
    BY <1>n, <2>2, <2>4, WorkersAssumption, FS_Subset
  <2>8. CASE NotDeleting = {}
    <3>1. guesses = 0
      BY <2>1, <2>8 DEF RedisBound
    <3>2. MaxFailures * N \in Nat
      BY <1>m, Products
    <3>3. QED BY <3>1, <3>2
  <2>9. CASE NotDeleting # {}
    <3>1. PICK x \in Nat : x = Recorded /\ x <= m
      BY <1>t, <1>m, RecordedType DEF TypeOK
    <3>2. PICK k \in Nat : k = m * c
      BY Products
    <3>3. guesses + m <= k + x + p
      BY <1>m, <2>1, <2>2, <2>3, <2>9, <3>1, <3>2 DEF RedisBound
    <3>4. guesses <= k + c
      BY <1>g, <2>6, <3>1, <3>3
    <3>5. (m + 1) * N = m * N + N
      OBVIOUS
    <3>6. PICK d \in Nat : N = c + d
      <4>1. N - c \in Nat /\ N = c + (N - c)
        BY <2>7
      <4>2. QED BY <4>1
    <3>7. m * N = k + m * d /\ m * d \in Nat
      BY <3>2, <3>6
    <3>8. k <= m * N
      BY <3>7
    <3>9. PICK z \in Nat : z = m * N
      BY Products
    <3>10. guesses <= z + N
      BY <1>g, <2>7, <3>4, <3>8, <3>9
    <3>11. QED BY <1>m, <3>5, <3>9, <3>10
  <2>10. QED BY <2>8, <2>9
<1>3. QED BY <1>1, <1>2, <1>n DEF GuessesBounded

--------------------------------------------------------------------------------
(* Keys, states and requests keep their shape: a request points at a state *)
(* that exists, and a count with a time to live has not outlived it.       *)
THEOREM TypeCorrect == Spec => []TypeOK
<1>1. IInv => TypeOK
  BY DEF IInv
<1>2. QED BY <1>1, InvHolds, PTL

(* Between two blocks no more passwords are tried than the limit plus what *)
(* the concurrent requests add, in the process and in Redis, for any limit *)
(* and any number of requests.                                             *)
THEOREM GuessesBoundedHolds == Spec => []GuessesBounded
<1>1. IInv => GuessesBounded
  BY InvBounds
<1>2. QED BY <1>1, InvHolds, PTL

(* Only an EXPIRE that was lost leaves a count that does not expire. *)
THEOREM FailCountExpiresHolds == Spec => []FailCountExpires
<1>1. IInv => FailCountExpires
  BY DEF IInv
<1>2. QED BY <1>1, InvHolds, PTL

(* A failure recorded during a block of the process leaves it as it is. *)
THEOREM BlocksNotExtendedHolds == Spec => BlocksNotExtended
<1>1. TypeOK /\ [Next]_vars =>
         [\A p \in DOMAIN heap :
             LockedState(p) /\ p \in DOMAIN heap' => heap'[p] = heap[p]]_vars
  BY LockedUntouched
<1>2. QED BY <1>1, TypeCorrect, PTL DEF Spec, BlocksNotExtended

--------------------------------------------------------------------------------
(* The other limit on the way to a login, the fixed-window rate limiter    *)
(* (module RateLimiter), for any limit, window and delay.                  *)

HasWindow == window # NoWindow

WindowInPast ==
    /\ time <= LastTime
    /\ HasWindow => window.start <= time /\ window.count <= Rpm

(* What has been let in after the window started for certain, the delay    *)
(* taken into account, is in its count; ...                                *)
CountedSince ==
    HasWindow => \A a \in Ages :
        time - a > window.start + Lag => since[a] <= window.count

(* ... what came in the window's length before it was counted by the one   *)
(* before, ...                                                             *)
CountedBefore ==
    HasWindow => \A a \in Ages :
        time - a > window.start - Win + Lag => since[a] <= window.count + Rpm

(* ... and what it has counted has been let in since it started. *)
CountIsRecent ==
    HasWindow => \A a \in Ages :
        a >= time - window.start => since[a] >= window.count

(* A window that was dropped was over for long. *)
DroppedLate ==
    ~HasWindow => \A a \in Ages : a < Win => since[a] <= Rpm

WindowInv ==
    WindowInPast /\ CountedSince /\ CountedBefore /\ CountIsRecent /\ DroppedLate

(* The counter has counted at least what it let in, ... *)
CountedShared ==
    \A s \in Slots : shared[s] <= counter[s].n /\ shared[s] <= Rpm

(* ... a replica sets the time to live of a slot that has begun, ... *)
SlotsBegun == \A s \in expiring : s * Win <= time

(* ... so that the key outlives the last request that may count in it. *)
KeysOutlive ==
    \A s \in Slots :
        counter[s].expires # 0 => counter[s].expires >= (s + 1) * Win + Lag

CounterInv == CountedShared /\ SlotsBegun /\ KeysOutlive

LimiterInv == LimiterTypeOK /\ WindowInv /\ CounterInv

(* Integer division by the length of a window. *)
LEMMA SlotBounds ==
    ASSUME NEW t \in Nat, t <= LastTime
    PROVE  /\ Slot(t) \in Slots
           /\ Slot(t) \in Nat
           /\ Slot(t) * Win <= t
<1>1. LastTime \in Nat /\ Win \in Nat \ {0}
  BY WindowAssumption, CountAssumption
<1>2. t \div Win \in Nat /\ LastTime \div Win \in Nat /\ t \div Win <= LastTime \div Win
  BY <1>1
<1>3. (t \div Win) * Win <= t
  BY <1>1
<1> QED
  BY <1>2, <1>3 DEF Slot, Slots

LEMMA SlotsNat ==
    /\ Slots \subseteq Nat
    /\ \A s \in Slots : s * Win \in Nat /\ (s + 1) * Win = s * Win + Win
<1>1. LastTime \in Nat /\ Win \in Nat \ {0}
  BY WindowAssumption, CountAssumption
<1>2. \A s \in Nat : s * Win \in Nat /\ (s + 1) * Win = s * Win + Win
  BY <1>1
<1>3. LastTime \div Win \in Nat
  BY <1>1
<1> QED
  BY <1>2, <1>3 DEF Slots

LEMMA WindowFields ==
    ASSUME LimiterTypeOK, HasWindow
    PROVE  window \in Window /\ window.start \in Nat /\ window.count \in Nat
BY DEF LimiterTypeOK, HasWindow, Window

(* The window a request is counted in is the one there was, still open, or *)
(* a new one when there was none or the old one is over.                   *)
LEMMA CurrentWindow ==
    ASSUME LimiterTypeOK, NEW now \in Nows
    PROVE  \/ /\ HasWindow
              /\ Current(now) = window
              /\ now - window.start < Win
           \/ /\ Current(now) = [start |-> now, count |-> 0]
              /\ HasWindow => now - window.start >= Win
<1>1. now \in Nat /\ Win \in Nat /\ SweepAge \in Nat /\ SweepAge >= Win
  BY WindowAssumption DEF Nows, LimiterTypeOK
<1>2. CASE ~HasWindow
  BY <1>2 DEF HasWindow, Current, Swept
<1>3. CASE HasWindow
  <2>1. window.start \in Nat
    BY <1>3, WindowFields
  <2>2. CASE Swept(now) = window
    BY <1>1, <1>3, <2>1, <2>2 DEF HasWindow, Current
  <2>3. CASE Swept(now) = NoWindow /\ now - window.start >= SweepAge
    BY <1>1, <2>1, <2>3 DEF Current
  <2> QED
    BY <2>2, <2>3 DEF Swept
<1> QED
  BY <1>2, <1>3

(* A request that only sets off the sweep: the window stays, or was over   *)
(* for longer than the delay.                                              *)
LEMMA SweptWindow ==
    ASSUME LimiterTypeOK, NEW now \in Nows
    PROVE  \/ Swept(now) = window
           \/ /\ HasWindow
              /\ Swept(now) = NoWindow
              /\ now - window.start >= Win + Lag
<1>1. now \in Nat /\ Win \in Nat /\ Lag \in Nat /\ SweepAge \in Nat /\ SweepAge >= Win + Lag
  BY WindowAssumption DEF Nows, LimiterTypeOK
<1>2. CASE Swept(now) = window
  BY <1>2
<1>3. CASE HasWindow /\ Swept(now) = NoWindow /\ now - window.start >= SweepAge
  <2>1. window.start \in Nat
    BY <1>3, WindowFields
  <2> QED
    BY <1>1, <1>3, <2>1
<1> QED
  BY <1>2, <1>3 DEF Swept, HasWindow

LEMMA LimiterTypes ==
    ASSUME LimiterTypeOK
    PROVE  /\ Rpm \in Nat \ {0} /\ Win \in Nat \ {0} /\ Lag \in Nat
           /\ KeyTTL \in Nat /\ KeyTTL >= Win + Lag /\ LastTime \in Nat
           /\ time \in Nat
           /\ Ages = 0..(Win + Lag - 1) /\ Ages \subseteq Nat
           /\ \A a \in Ages : since[a] \in Nat
           /\ \A now \in Nows : now \in Nat /\ now <= time /\ now >= time - Lag
BY WindowAssumption, CountAssumption DEF
       LimiterTypeOK, Ages, Nows

LEMMA LimiterInvInit == LimiterInit => LimiterInv
<1> SUFFICES ASSUME LimiterInit PROVE LimiterInv
  OBVIOUS
<1>1. LimiterTypeOK
  BY WindowAssumption, CountAssumption DEF LimiterInit,
         LimiterTypeOK, Window, NoWindow, Counter, NoCounter
<1>2. WindowInv
  BY <1>1, LimiterTypes DEF LimiterInit, WindowInv, WindowInPast, CountedSince,
         CountedBefore, CountIsRecent, DroppedLate, HasWindow
<1>3. CounterInv
  BY <1>1, LimiterTypes DEF LimiterInit, CounterInv, CountedShared, SlotsBegun, KeysOutlive,
         NoCounter
<1> QED
  BY <1>1, <1>2, <1>3 DEF LimiterInv

(* A request judged by the replica's own window. *)
LEMMA LocalAllowKeeps ==
    ASSUME LimiterTypeOK, WindowInv,
           NEW now \in Nows, LocalAllow(now)
    PROVE  /\ WindowInv'
           /\ window' \in Window /\ since' \in [Ages -> Nat]
           /\ lastSweep' \in 0..time'
<1> DEFINE w == Current(now)
<1>1. lastSweep' \in 0..time' /\ time' = time
  BY LimiterTypes DEF LimiterTypeOK, LocalAllow, Sweep
<1>2. CASE HasWindow /\ w = window /\ now - window.start < Win
  <2>1. window \in Window /\ window.start \in Nat /\ window.count \in Nat
    BY <1>2, WindowFields
  <2>2. CASE w.count < Rpm
    <3>1. /\ window' = [window EXCEPT !.count = @ + 1]
          /\ since' = [a \in Ages |-> since[a] + 1]
      BY <1>2, <2>1, <2>2, LimiterTypes DEF LocalAllow
    <3>2. /\ window' \in Window
          /\ window'.start = window.start /\ window'.count = window.count + 1
      BY <2>1, <3>1 DEF Window
    <3>3. HasWindow'
      BY <3>2, <2>1 DEF HasWindow, NoWindow
    <3>4. since' \in [Ages -> Nat] /\ \A a \in Ages : since'[a] = since[a] + 1
      BY <3>1, LimiterTypes
    <3>5. ASSUME NEW a \in Ages
          PROVE  /\ time - a > window.start + Lag => since'[a] <= window'.count
                 /\ time - a > window.start - Win + Lag => since'[a] <= window'.count + Rpm
                 /\ a >= time - window.start => since'[a] >= window'.count
      <4>1. since[a] \in Nat /\ since'[a] = since[a] + 1 /\ Rpm \in Nat
        BY <3>4, LimiterTypes
      <4>2. /\ time - a > window.start + Lag => since[a] <= window.count
            /\ time - a > window.start - Win + Lag => since[a] <= window.count + Rpm
            /\ a >= time - window.start => since[a] >= window.count
        BY <1>2 DEF WindowInv, CountedSince, CountedBefore, CountIsRecent
      <4> QED
        BY <2>1, <3>2, <4>1, <4>2
    <3>6. WindowInPast'
      BY <1>1, <1>2, <2>1, <2>2, <3>2, LimiterTypes DEF WindowInv, WindowInPast
    <3>7. WindowInv'
      BY <1>1, <3>2, <3>3, <3>5, <3>6
         DEF WindowInv, CountedSince, CountedBefore, CountIsRecent, DroppedLate
    <3> QED
      BY <1>1, <3>2, <3>4, <3>7
  <2>3. CASE w.count >= Rpm
    <3>1. window' = window /\ since' = since
      BY <1>2, <2>1, <2>3, LimiterTypes DEF LocalAllow
    <3> QED
      BY <1>1, <2>1, <3>1 DEF LimiterTypeOK, WindowInv, WindowInPast, CountedSince, CountedBefore,
         CountIsRecent, DroppedLate, HasWindow, Ages
  <2> QED
    BY <1>2, <2>1, <2>2, <2>3, LimiterTypes
<1>3. CASE w = [start |-> now, count |-> 0] /\ (HasWindow => now - window.start >= Win)
  <2>1. w.count = 0 /\ w.start = now /\ w.count < Rpm /\ ~(w.count >= Rpm)
    BY <1>3, LimiterTypes
  <2>2. window' = [w EXCEPT !.count = @ + 1] /\ since' = [a \in Ages |-> since[a] + 1]
    BY <2>1 DEF LocalAllow
  <2>3. window' = [start |-> now, count |-> 1]
    BY <1>3, <2>2
  <2>4. window' \in Window /\ window'.start = now /\ window'.count = 1
    BY <2>3, LimiterTypes DEF Window
  <2>5. HasWindow'
    BY <2>4 DEF HasWindow, NoWindow
  <2>6. since' \in [Ages -> Nat] /\ \A a \in Ages : since'[a] = since[a] + 1
    BY <2>2, LimiterTypes
  <2>7. \A a \in Ages : time - a > now - Win + Lag => since[a] <= Rpm
    <3>1. CASE ~HasWindow
      BY <3>1, LimiterTypes DEF WindowInv, DroppedLate
    <3>2. CASE HasWindow
      <4>1. window.start \in Nat /\ window.count \in Nat /\ window.count <= Rpm
        BY <3>2, WindowFields DEF WindowInv, WindowInPast
      <4> SUFFICES ASSUME NEW a \in Ages, time - a > now - Win + Lag
                   PROVE  since[a] <= Rpm
        OBVIOUS
      <4>2. a \in Nat /\ since[a] \in Nat /\ Rpm \in Nat
        BY LimiterTypes
      <4>3. time - a > window.start + Lag
        <5>1. /\ Win \in Nat /\ Lag \in Nat /\ time \in Nat
              /\ now \in Nat /\ now <= time
          BY LimiterTypes
        <5> QED
          BY <1>3, <3>2, <4>1, <4>2, <5>1
      <4>4. since[a] <= window.count
        BY <3>2, <4>3 DEF WindowInv, CountedSince
      <4> QED
        BY <4>1, <4>2, <4>4
    <3> QED
      BY <3>1, <3>2
  <2>8. ASSUME NEW a \in Ages
        PROVE  /\ ~(time - a > now + Lag)
               /\ time - a > now - Win + Lag => since'[a] <= 1 + Rpm
               /\ since'[a] >= 1
    <3>1. a \in Nat /\ since[a] \in Nat /\ since'[a] = since[a] + 1
      BY <2>6, LimiterTypes
    <3>2. time - a > now - Win + Lag => since[a] <= Rpm
      BY <2>7
    <3>3. /\ Win \in Nat /\ Lag \in Nat /\ time \in Nat /\ Rpm \in Nat
          /\ now \in Nat /\ now >= time - Lag
      BY LimiterTypes
    <3> QED
      BY <3>1, <3>2, <3>3
  <2>9. WindowInPast'
    BY <1>1, <2>4, LimiterTypes DEF WindowInv, WindowInPast
  <2>10. WindowInv'
    BY <1>1, <2>4, <2>5, <2>8, <2>9
       DEF WindowInv, CountedSince, CountedBefore, CountIsRecent, DroppedLate
  <2> QED
    BY <1>1, <2>4, <2>6, <2>10
<1> QED
  BY <1>2, <1>3, CurrentWindow

LEMMA OtherClientKeeps ==
    ASSUME LimiterInv, NEW now \in Nows, OtherClient(now)
    PROVE  LimiterInv'
<1> USE DEF LimiterInv
<1>1. UNCHANGED <<time, connected, since, counter, expiring, shared>> /\ window' = Swept(now)
  BY DEF OtherClient, redis
<1>2. LimiterTypeOK'
  <2>1. lastSweep' \in 0..time'
    BY <1>1, LimiterTypes DEF LimiterTypeOK, OtherClient, Sweep
  <2>2. window' \in Window \cup {NoWindow}
    BY <1>1 DEF LimiterTypeOK, Swept
  <2> QED
    BY <1>1, <2>1, <2>2 DEF LimiterTypeOK, Slots, Ages, Counter
<1>3. WindowInv'
  <2>1. CASE window' = window
    BY <1>1, <2>1 DEF WindowInv, WindowInPast, CountedSince, CountedBefore,
         CountIsRecent, DroppedLate, HasWindow, Ages
  <2>2. CASE HasWindow /\ window' = NoWindow /\ now - window.start >= Win + Lag
    <3>1. ~HasWindow'
      BY <2>2 DEF HasWindow, NoWindow
    <3>2. \A a \in Ages : a < Win => since[a] <= Rpm
      <4>1. window.start \in Nat /\ window.count \in Nat /\ window.count <= Rpm
        BY <2>2, WindowFields DEF WindowInv, WindowInPast
      <4> SUFFICES ASSUME NEW a \in Ages, a < Win
                   PROVE  since[a] <= Rpm
        OBVIOUS
      <4>2. a \in Nat /\ since[a] \in Nat /\ Rpm \in Nat
        BY LimiterTypes
      <4>3. time - a > window.start + Lag
        <5>1. /\ Win \in Nat /\ Lag \in Nat /\ time \in Nat
              /\ now \in Nat /\ now <= time
          BY LimiterTypes
        <5> QED
          BY <2>2, <4>1, <4>2, <5>1
      <4>4. since[a] <= window.count
        BY <2>2, <4>3 DEF WindowInv, CountedSince
      <4> QED
        BY <4>1, <4>2, <4>4
    <3> QED
      BY <1>1, <3>1, <3>2 DEF WindowInv, WindowInPast, CountedSince, CountedBefore,
         CountIsRecent, DroppedLate, Ages
  <2> QED
    BY <1>1, <2>1, <2>2, SweptWindow
<1>4. CounterInv'
  BY <1>1 DEF CounterInv, CountedShared, SlotsBegun, KeysOutlive, Slots
<1> QED
  BY <1>2, <1>3, <1>4

(* Counting in a slot, in whichever replica. *)
LEMMA IncrKeeps ==
    ASSUME LimiterTypeOK, CounterInv,
           NEW s \in Slots, NEW sent \in {1, 2}, Incr(s, sent)
    PROVE  /\ counter' \in [Slots -> Counter]
           /\ counter'[s].n = counter[s].n + sent
           /\ \A r \in Slots : /\ counter[r].n \in Nat /\ counter'[r].n \in Nat
                               /\ counter'[r].n >= counter[r].n
                               /\ counter'[r].expires = counter[r].expires
                               /\ r # s => counter'[r] = counter[r]
BY DEF LimiterTypeOK, Incr, Counter

LEMMA AllowKeeps ==
    ASSUME LimiterInv, NEW now \in Nows, Allow(now)
    PROVE  LimiterInv'
<1> USE DEF LimiterInv
<1>1. LocalAllow(now) /\ UNCHANGED <<time, connected, counter, expiring, shared>>
  BY DEF Allow, LocalAllow, redis
<1>2. WindowInv' /\ window' \in Window /\ since' \in [Ages -> Nat]
      /\ lastSweep' \in 0..time'
  BY <1>1, LocalAllowKeeps
<1>3. LimiterTypeOK'
  BY <1>1, <1>2 DEF LimiterTypeOK, Slots, Ages
<1>4. CounterInv'
  BY <1>1 DEF CounterInv, CountedShared, SlotsBegun, KeysOutlive, Slots
<1> QED
  BY <1>2, <1>3, <1>4

LEMMA FallbackKeeps ==
    ASSUME LimiterInv, NEW now \in Nows,
           NEW slotTime \in Nows, Fallback(slotTime, now)
    PROVE  LimiterInv'
<1> USE DEF LimiterInv
<1>1. LocalAllow(now) /\ UNCHANGED <<time, connected, expiring, shared>>
  BY DEF Fallback, LocalAllow
<1>2. WindowInv' /\ window' \in Window /\ since' \in [Ages -> Nat]
      /\ lastSweep' \in 0..time'
  BY <1>1, LocalAllowKeeps
<1>3. /\ counter' \in [Slots -> Counter]
      /\ \A r \in Slots : /\ counter[r].n \in Nat /\ counter'[r].n \in Nat
                          /\ counter'[r].n >= counter[r].n
                          /\ counter'[r].expires = counter[r].expires
  <2>1. CASE counter' = counter
    BY <2>1 DEF LimiterTypeOK, Counter
  <2>2. CASE Incr(Slot(slotTime), 1)
    <3>1. Slot(slotTime) \in Slots
      BY LimiterTypes, SlotBounds DEF WindowInv, WindowInPast
    <3> QED
      BY <2>2, <3>1, IncrKeeps
  <2> QED
    BY <2>1, <2>2 DEF Fallback
<1>4. LimiterTypeOK'
  BY <1>1, <1>2, <1>3 DEF LimiterTypeOK, Slots, Ages
<1>5. CounterInv'
  <2>1. \A r \in Slots : shared[r] \in Nat
    BY DEF LimiterTypeOK
  <2>2. CountedShared'
    BY <1>1, <1>3, <2>1 DEF CounterInv, CountedShared, Slots
  <2>3. SlotsBegun' /\ KeysOutlive'
    BY <1>1, <1>3 DEF CounterInv, SlotsBegun, KeysOutlive, Slots
  <2> QED
    BY <2>2, <2>3 DEF CounterInv
<1> QED
  BY <1>2, <1>4, <1>5

LEMMA RedisAllowKeeps ==
    ASSUME LimiterInv, NEW now \in Nows, NEW sent \in {1, 2},
           RedisAllow(now, sent)
    PROVE  LimiterInv'
<1> USE DEF LimiterInv
<1>1. UNCHANGED <<time, connected, window, lastSweep, since>>
  BY DEF RedisAllow, local
<1>2. PICK s \in Slots : s = Slot(now) /\ s * Win <= time
  <2>1. now \in Nat /\ now <= time /\ time <= LastTime /\ time \in Nat /\ Win \in Nat
    BY LimiterTypes DEF WindowInv, WindowInPast
  <2>2. Slot(now) \in Slots /\ Slot(now) * Win <= now
    BY <2>1, LimiterTypes, SlotBounds
  <2>3. Slot(now) * Win \in Nat
    BY <2>2, SlotsNat
  <2> QED
    BY <2>1, <2>2, <2>3
<1>3. /\ Incr(s, sent)
      /\ expiring' = expiring \cup {s} \/ expiring' = expiring
      /\ shared' = [shared EXCEPT ![s] = @ + IF counter[s].n + sent <= Rpm THEN 1 ELSE 0]
  BY <1>2 DEF RedisAllow
<1>4. /\ counter' \in [Slots -> Counter]
      /\ counter'[s].n = counter[s].n + sent
      /\ \A r \in Slots : /\ counter[r].n \in Nat /\ counter'[r].n \in Nat
                          /\ counter'[r].n >= counter[r].n
                          /\ counter'[r].expires = counter[r].expires
                          /\ r # s => counter'[r] = counter[r]
  BY <1>3, IncrKeeps
<1>5. /\ shared' \in [Slots -> Nat]
      /\ \A r \in Slots : shared[r] \in Nat /\ (r # s => shared'[r] = shared[r])
      /\ \/ shared'[s] = shared[s]
         \/ shared'[s] = shared[s] + 1 /\ counter[s].n + sent <= Rpm
  BY <1>3 DEF LimiterTypeOK
<1>6. LimiterTypeOK'
  BY <1>1, <1>3, <1>4, <1>5 DEF LimiterTypeOK, Slots, Ages
<1>7. WindowInv'
  BY <1>1 DEF WindowInv, WindowInPast, CountedSince, CountedBefore, CountIsRecent, DroppedLate,
     HasWindow, Ages
<1>8. CountedShared'
  <2>1. ASSUME NEW r \in Slots
        PROVE  shared'[r] <= counter'[r].n /\ shared'[r] <= Rpm
    <3>1. shared[r] <= counter[r].n /\ shared[r] <= Rpm /\ shared[r] \in Nat
          /\ counter[r].n \in Nat /\ Rpm \in Nat
      BY <1>4, <1>5, LimiterTypes DEF CounterInv, CountedShared
    <3>2. CASE r = s
      BY <1>4, <1>5, <3>1, <3>2
    <3>3. CASE r # s
      BY <1>4, <1>5, <3>1, <3>3
    <3> QED
      BY <3>2, <3>3
  <2> QED
    BY <2>1 DEF CountedShared, Slots
<1>9. SlotsBegun' /\ KeysOutlive'
  BY <1>1, <1>2, <1>3, <1>4 DEF CounterInv, SlotsBegun, KeysOutlive, Slots
<1> QED
  BY <1>6, <1>7, <1>8, <1>9 DEF CounterInv

LEMMA ExpireKeeps ==
    ASSUME LimiterInv, NEW s \in Slots, Expire(s)
    PROVE  LimiterInv'
<1> USE DEF LimiterInv
<1>1. UNCHANGED <<time, connected, window, lastSweep, since, shared>> /\ expiring' \subseteq expiring
  BY DEF Expire, local
<1>2. /\ counter' \in [Slots -> Counter]
      /\ \A r \in Slots : /\ counter'[r].n = counter[r].n
                          /\ \/ counter'[r].expires = counter[r].expires
                             \/ r = s /\ counter'[r].expires = time + KeyTTL
  <2>1. CASE counter' = counter
    BY <2>1 DEF LimiterTypeOK
  <2>2. CASE counter' = [counter EXCEPT ![s].expires = time + KeyTTL]
    <3>1. time + KeyTTL \in Nat
      BY LimiterTypes
    <3> QED
      BY <2>2, <3>1 DEF LimiterTypeOK, Counter
  <2> QED
    BY <2>1, <2>2 DEF Expire
<1>3. LimiterTypeOK'
  BY <1>1, <1>2 DEF LimiterTypeOK, Slots, Ages
<1>4. WindowInv'
  BY <1>1 DEF WindowInv, WindowInPast, CountedSince, CountedBefore, CountIsRecent, DroppedLate,
     HasWindow, Ages
<1>5. CountedShared' /\ SlotsBegun'
  BY <1>1, <1>2 DEF CounterInv, CountedShared, SlotsBegun, Slots
<1>6. KeysOutlive'
  <2>1. time + KeyTTL >= (s + 1) * Win + Lag
    <3>1. s * Win <= time
      BY DEF CounterInv, SlotsBegun, Expire
    <3>2. s * Win \in Nat /\ (s + 1) * Win = s * Win + Win
      BY SlotsNat
    <3> QED
      BY <3>1, <3>2, LimiterTypes
  <2>2. \A r \in Slots :
            counter'[r].expires # 0 => counter'[r].expires >= (r + 1) * Win + Lag
    BY <1>2, <2>1 DEF CounterInv, KeysOutlive
  <2> QED
    BY <2>2 DEF KeysOutlive, Slots
<1> QED
  BY <1>3, <1>4, <1>5, <1>6 DEF CounterInv

LEMMA LimiterRestartKeeps ==
    ASSUME LimiterInv, LimiterRestart
    PROVE  LimiterInv'
<1> USE DEF LimiterInv
<1>1. /\ UNCHANGED <<time, counter, expiring, shared>> /\ connected' \in BOOLEAN
      /\ window' = NoWindow /\ lastSweep' = time
      /\ since' = [a \in Ages |-> 0]
  BY DEF LimiterRestart, Start, redis
<1>2. ~HasWindow'
  BY <1>1 DEF HasWindow, NoWindow
<1>3. LimiterTypeOK'
  BY <1>1, LimiterTypes DEF LimiterTypeOK, Slots, Ages, NoWindow
<1>4. WindowInv'
  BY <1>1, <1>2, LimiterTypes DEF WindowInv, WindowInPast, CountedSince, CountedBefore,
     CountIsRecent, DroppedLate, Ages
<1>5. CounterInv'
  BY <1>1 DEF CounterInv, CountedShared, SlotsBegun, KeysOutlive, Slots
<1> QED
  BY <1>3, <1>4, <1>5

LEMMA LimiterTickKeeps ==
    ASSUME LimiterInv, LimiterTick
    PROVE  LimiterInv'
<1> USE DEF LimiterInv
<1>1. UNCHANGED <<connected, window, lastSweep>> /\ time < LastTime /\ time' = time + 1
  BY DEF LimiterTick
<1>2. since' = [a \in Ages |-> IF a = 0 THEN 0 ELSE since[a - 1]]
  BY DEF LimiterTick
<1>3. \A a \in Ages : \/ a = 0 /\ since'[a] = 0
                      \/ a - 1 \in Ages /\ since'[a] = since[a - 1]
  BY <1>2, LimiterTypes
<1>4. since' \in [Ages -> Nat]
  BY <1>2, LimiterTypes
<1>5. \A s \in Slots :
          \/ counter'[s] = counter[s] /\ shared'[s] = shared[s]
          \/ counter'[s] = NoCounter /\ shared'[s] = 0
          \/ /\ counter'[s] = NoCounter
             /\ counter[s].expires = time' /\ Open(s, time')
  BY DEF LimiterTick
<1>6. /\ counter' \in [Slots -> Counter] /\ shared' \in [Slots -> Nat]
      /\ expiring' \subseteq expiring
  BY DEF LimiterTick, LimiterTypeOK, Counter, NoCounter
<1>7. LimiterTypeOK'
  BY <1>1, <1>4, <1>6, LimiterTypes DEF LimiterTypeOK, Slots, Ages
<1>8. WindowInv'
  <2>1. CASE HasWindow
    <3>1. HasWindow' /\ window.start \in Nat /\ window.count \in Nat
      BY <1>1, <2>1, WindowFields DEF HasWindow, NoWindow
    <3>2. WindowInPast'
      BY <1>1, <2>1, <3>1, LimiterTypes DEF WindowInv, WindowInPast, HasWindow
    <3>3. ASSUME NEW a \in Ages
          PROVE  /\ time' - a > window.start + Lag => since'[a] <= window.count
                 /\ time' - a > window.start - Win + Lag => since'[a] <= window.count + Rpm
                 /\ a >= time' - window.start => since'[a] >= window.count
      <4>1. CASE a = 0 /\ since'[a] = 0
        <5>1. time \in Nat /\ Rpm \in Nat
          BY LimiterTypes
        <5>2. window.start <= time
          BY <2>1 DEF WindowInv, WindowInPast
        <5>3. ~(a >= time' - window.start)
          BY <1>1, <3>1, <4>1, <5>1, <5>2
        <5>4. since'[a] <= window.count /\ since'[a] <= window.count + Rpm
          BY <3>1, <4>1, <5>1
        <5>5. QED BY <5>3, <5>4
      <4>2. CASE a - 1 \in Ages /\ since'[a] = since[a - 1]
        <5>1. /\ time - (a - 1) > window.start + Lag => since[a - 1] <= window.count
              /\ time - (a - 1) > window.start - Win + Lag => since[a - 1] <= window.count + Rpm
              /\ a - 1 >= time - window.start => since[a - 1] >= window.count
          BY <2>1, <4>2 DEF WindowInv, CountedSince, CountedBefore, CountIsRecent
        <5>2. a \in Nat /\ time \in Nat
          BY LimiterTypes
        <5>3. /\ time - (a - 1) = time' - a
              /\ a >= time' - window.start => a - 1 >= time - window.start
          BY <1>1, <3>1, <5>2
        <5> QED
          BY <4>2, <5>1, <5>3
      <4> QED
        BY <1>3, <4>1, <4>2
    <3>4. WindowInv'
      BY <1>1, <3>1, <3>2, <3>3
         DEF WindowInv, CountedSince, CountedBefore, CountIsRecent, DroppedLate
    <3> QED
      BY <3>4
  <2>2. CASE ~HasWindow
    <3>1. ~HasWindow'
      BY <1>1, <2>2 DEF HasWindow, NoWindow
    <3>2. DroppedLate'
      BY <1>3, <2>2, LimiterTypes DEF WindowInv, DroppedLate
    <3> QED
      BY <1>1, <3>1, <3>2, LimiterTypes DEF WindowInv, WindowInPast, CountedSince,
         CountedBefore, CountIsRecent
  <2> QED
    BY <2>1, <2>2
<1>9. CountedShared'
  <2>1. ASSUME NEW s \in Slots PROVE shared'[s] <= counter'[s].n /\ shared'[s] <= Rpm
    <3>1. shared[s] <= counter[s].n /\ shared[s] <= Rpm
      BY DEF CounterInv, CountedShared
    <3>2. ~(counter[s].expires = time' /\ Open(s, time'))
      <4> SUFFICES ASSUME counter[s].expires = time', Open(s, time') PROVE FALSE
        OBVIOUS
      <4>1. time' >= (s + 1) * Win + Lag
        BY <1>1, LimiterTypes DEF CounterInv, KeysOutlive
      <4>2. (s + 1) * Win = s * Win + Win /\ s * Win \in Nat
        BY SlotsNat
      <4>3. time' - Lag < (s + 1) * Win
        BY DEF Open
      <4> QED
        BY <1>1, <4>1, <4>2, <4>3, LimiterTypes
    <3>3. \/ counter'[s] = counter[s] /\ shared'[s] = shared[s]
          \/ counter'[s].n = 0 /\ shared'[s] = 0
      BY <1>5, <3>2 DEF NoCounter
    <3> QED
      BY <3>1, <3>3, LimiterTypes
  <2> QED
    BY <2>1 DEF CountedShared, Slots
<1>10. SlotsBegun'
  <2>1. \A s \in expiring : s * Win \in Nat
    BY SlotsNat DEF LimiterTypeOK
  <2> QED
    BY <1>1, <1>6, <2>1, LimiterTypes DEF CounterInv, SlotsBegun
<1>11. KeysOutlive'
  BY <1>5 DEF CounterInv, KeysOutlive, NoCounter, Slots
<1> QED
  BY <1>7, <1>8, <1>9, <1>10, <1>11 DEF CounterInv

LEMMA LimiterStep ==
    ASSUME LimiterInv, [LimiterNext]_limiterVars
    PROVE  LimiterInv'
<1>1. CASE LimiterNext
  BY <1>1, LimiterTickKeeps, LimiterRestartKeeps, ExpireKeeps, AllowKeeps, OtherClientKeeps,
     RedisAllowKeeps, FallbackKeeps DEF LimiterNext
<1>2. CASE UNCHANGED limiterVars
  BY <1>2 DEF limiterVars, local, redis, LimiterInv, LimiterTypeOK, WindowInv,
     CounterInv, WindowInPast, CountedSince, CountedBefore, CountIsRecent, DroppedLate, HasWindow,
     CountedShared, SlotsBegun, KeysOutlive, Slots, Ages
<1> QED
  BY <1>1, <1>2

(* The strengthened invariant of the rate limiter. *)
THEOREM LimiterInvariant == LimiterSpec => []LimiterInv
<1>1. LimiterInit => LimiterInv
  BY LimiterInvInit
<1>2. LimiterInv /\ [LimiterNext]_limiterVars => LimiterInv'
  BY LimiterStep
<1> QED
  BY <1>1, <1>2, PTL DEF LimiterSpec

(* Windows, counters, slots and times have their types; above all, no      *)
(* request ever counts in a slot there is no counter for, and the last     *)
(* sweep is never in the future.                                           *)
THEOREM LimiterTypeCorrect == LimiterSpec => []LimiterTypeOK
<1>1. LimiterInv => LimiterTypeOK
  BY DEF LimiterInv
<1> QED
  BY <1>1, LimiterInvariant, PTL

(* A replica that judges by its own windows lets in at most twice Rpm      *)
(* requests in a window's length of time less the delay.                   *)
THEOREM LocalRateHolds == LimiterSpec => []LocalRate
<1>1. LimiterInv => LocalRate
  <2> SUFFICES ASSUME LimiterInv, NEW a \in Ages, a < Win - Lag
               PROVE  since[a] <= 2 * Rpm
    BY DEF LocalRate
  <2>1. LimiterTypeOK /\ WindowInv
    BY DEF LimiterInv
  <2>2. a \in Nat /\ since[a] \in Nat /\ Rpm \in Nat
    BY <2>1, LimiterTypes
  <2>3. CASE HasWindow
    <3>1. window.start \in Nat /\ window.count \in Nat
      BY <2>1, <2>3, WindowFields
    <3>2. window.start <= time /\ window.count <= Rpm
      BY <2>1, <2>3 DEF WindowInv, WindowInPast
    <3>3. time - a > window.start - Win + Lag
      BY <2>1, <2>2, <3>1, <3>2, LimiterTypes
    <3>4. since[a] <= window.count + Rpm
      BY <2>1, <2>3, <3>3 DEF WindowInv, CountedBefore
    <3> QED
      BY <2>2, <3>1, <3>2, <3>4
  <2>4. CASE ~HasWindow
    <3>1. a < Win
      BY <2>1, <2>2, LimiterTypes
    <3>2. since[a] <= Rpm
      BY <2>1, <2>4, <3>1 DEF WindowInv, DroppedLate
    <3> QED
      BY <2>2, <3>2
  <2> QED
    BY <2>3, <2>4
<1> QED
  BY <1>1, LimiterInvariant, PTL

(* All replicas together let in at most Rpm requests in a slot of Redis.   *)
THEOREM SharedRateHolds == LimiterSpec => []SharedRate
<1>1. LimiterInv => SharedRate
  BY DEF LimiterInv, CounterInv, CountedShared, SharedRate
<1> QED
  BY <1>1, LimiterInvariant, PTL

(* When a replica's window refuses, it has let in Rpm requests in the last *)
(* window's length of time and the delay.                                  *)
THEOREM RefusalsAreJustified == LimiterSpec => []RefusalsJustified
<1>1. LimiterInv => RefusalsJustified
  <2> SUFFICES ASSUME LimiterInv, NEW now \in Nows, Current(now).count >= Rpm
               PROVE  since[Win + Lag - 1] >= Rpm
    BY DEF RefusalsJustified, Refuses
  <2>1. HasWindow /\ Current(now) = window /\ now - window.start < Win
    BY CurrentWindow, LimiterTypes DEF LimiterInv
  <2>2. window.start \in Nat /\ window.count \in Nat /\ window.count >= Rpm
    BY <2>1, WindowFields DEF LimiterInv
  <2>3. Win + Lag - 1 \in Ages /\ Win + Lag - 1 >= time - window.start
    <3>1. /\ Win \in Nat \ {0} /\ Lag \in Nat /\ time \in Nat
          /\ now \in Nat /\ now >= time - Lag
          /\ Ages = 0..(Win + Lag - 1)
      BY LimiterTypes DEF LimiterInv
    <3> QED
      BY <2>1, <2>2, <3>1
  <2>4. since[Win + Lag - 1] >= window.count
    BY <2>1, <2>3 DEF LimiterInv, WindowInv, CountIsRecent
  <2> QED
    BY <2>2, <2>3, <2>4, LimiterTypes DEF LimiterInv
<1> QED
  BY <1>1, LimiterInvariant, PTL
================================================================================
