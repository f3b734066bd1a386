----------------------------- MODULE LoginThrottle -----------------------------
(***************************************************************************)
(* The login throttle (api/myhandlers/login_throttle.go) around the        *)
(* password check of LoginUser (api/myhandlers/auth_session_handlers.go),  *)
(* for one known email; the entries of different emails are independent.   *)
(* Whether it keeps its counts in the process or in Redis is settled when  *)
(* the process starts (redisx.Init).                                       *)
(*                                                                         *)
(* In the process: the sync.Map holds a pointer to a state with its own    *)
(* mutex, and a successful login deletes the entry: a request may go on to *)
(* lock a state the map no longer holds.  So the states are kept on a      *)
(* heap, and loading the pointer and locking the state are steps of their  *)
(* own.                                                                    *)
(*                                                                         *)
(* In Redis: one key counts, another is the block.  Every command is a     *)
(* step of its own and may fail; the workers may belong to different       *)
(* replicas, and any of them may crash.                                    *)
(***************************************************************************)
EXTENDS Naturals, Sequences, FiniteSets

CONSTANTS
    Workers,        \* login requests in flight at the same time
    MaxFailures,    \* loginMaxFailuresPerEmail
    Lockout,        \* loginLockoutDuration
    FailTTL,        \* loginFailKeyTTL
    MaxTime,        \* bound on the clock
    MaxEvents       \* bound on right passwords, restarts, crashes
                    \* and failed Redis commands

ASSUME WorkersAssumption == IsFiniteSet(Workers)
ASSUME ThrottleAssumption == /\ MaxFailures \in Nat \ {0}
                              /\ Lockout \in Nat \ {0}
                              /\ FailTTL \in Nat \ {0}
ASSUME BoundsAssumption == MaxTime \in Nat /\ MaxEvents \in Nat

VARIABLES
    clock,
    rdb,      \* redisx.Client is not nil
    heap,     \* the loginEmailState objects ever stored
    entry,    \* loginEmailThrottle: index of the email's state, 0 if none
    failKey,  \* login:fail:..., a count with its expiry
    lockKey,  \* expiry of login:lock:..., 0 if there is none
    work,     \* the login request each worker is at
    events,   \* how many of those there have been
    fresh,    \* workers whose request arrived after the count last started
              \* anew: a success, a restart or a block (history)
    guesses,  \* wrong passwords such requests have tried since (history)
    dropped,  \* since then a Redis command failed or a replica crashed (history)
    unexpired \* the EXPIRE of the present failKey was lost (history)

memory == <<heap, entry>>
keys == <<failKey, lockKey, unexpired>>
vars == <<clock, rdb, memory, keys, work, events, fresh, guesses, dropped>>

State == [failures : Nat, lockedUntil : Nat]
NewState == [failures |-> 0, lockedUntil |-> 0]

(* expires is 0 for a key without a time to live, count 0 for no key. *)
FailKey == [count : Nat, expires : Nat]
NoKey == [count |-> 0, expires |-> 0]

(***************************************************************************)
(* pc: idle                                                                *)
(*     check    loginEmailLocked has loaded state ptr                      *)
(*     passed   it found no lock                                           *)
(*     wrong    the password did not match                                 *)
(*     record   recordLoginFailureKnownUser has loaded state ptr           *)
(*     right    the password matched                                       *)
(*     expire, set, del   redisRecordLoginFailure has that command to send *)
(***************************************************************************)
Idle == [pc |-> "idle"]
Work == [pc : {"idle", "passed", "wrong", "right", "set", "del"}]
        \cup [pc : {"check", "record"}, ptr : Nat \ {0}]
        \cup [pc : {"expire"}, n : Nat \ {0}]

TypeOK ==
    /\ clock \in Nat
    /\ rdb \in BOOLEAN
    /\ heap \in Seq(State)
    /\ entry \in 0..Len(heap)
    /\ failKey \in FailKey
    /\ failKey.expires # 0 => failKey.count > 0 /\ clock < failKey.expires
    /\ lockKey \in Nat
    /\ work \in [Workers -> Work]
    /\ \A w \in Workers :
          work[w].pc \in {"check", "record"} => work[w].ptr \in 1..Len(heap)
    /\ events \in Nat
    /\ fresh \subseteq Workers
    /\ guesses \in Nat
    /\ dropped \in BOOLEAN
    /\ unexpired \in BOOLEAN

Init ==
    /\ clock = 1
    /\ rdb \in BOOLEAN
    /\ heap = <<>>
    /\ entry = 0
    /\ failKey = NoKey
    /\ lockKey = 0
    /\ work = [w \in Workers |-> Idle]
    /\ events = 0
    /\ fresh = {}
    /\ guesses = 0
    /\ dropped = FALSE
    /\ unexpired = FALSE

Become(w, state) == work' = [work EXCEPT ![w] = state]
Enter(w, pc) == Become(w, [pc |-> pc])
Finish(w) == Become(w, Idle) /\ fresh' = fresh \ {w}
CountAnew == fresh' = {} /\ guesses' = 0 /\ dropped' = FALSE

LockedState(p) == clock < heap[p].lockedUntil
Lasting == failKey.count > 0 /\ failKey.expires = 0

--------------------------------------------------------------------------------
(* loginEmailLocked: the Load. *)
CheckLoad(w) ==
    /\ ~rdb
    /\ work[w] = Idle
    /\ Become(w, IF entry = 0 THEN [pc |-> "passed"]
                 ELSE [pc |-> "check", ptr |-> entry])
    /\ fresh' = fresh \cup {w}
    /\ UNCHANGED <<clock, rdb, memory, keys, events, guesses, dropped>>

(* ... and the look at lockedUntil under the mutex; 429 ends the request. *)
CheckLock(w) ==
    /\ work[w].pc = "check"
    /\ \/ LockedState(work[w].ptr) /\ Finish(w)
       \/ ~LockedState(work[w].ptr) /\ Enter(w, "passed") /\ UNCHANGED fresh
    /\ UNCHANGED <<clock, rdb, memory, keys, events, guesses, dropped>>

(* GetUserAuthByEmail and VerifyPassword. *)
VerifyWrong(w) ==
    /\ work[w].pc = "passed"
    /\ Enter(w, "wrong")
    /\ guesses' = IF w \in fresh /\ ~dropped THEN guesses + 1 ELSE guesses
    /\ UNCHANGED <<clock, rdb, memory, keys, events, fresh, dropped>>

VerifyRight(w) ==
    /\ work[w].pc = "passed"
    /\ events < MaxEvents
    /\ events' = events + 1
    /\ Enter(w, "right")
    /\ UNCHANGED <<clock, rdb, memory, keys, fresh, guesses, dropped>>

(* Mutant: the index is taken from before the store. *)
RecordLoadStale(w) ==
    /\ ~rdb
    /\ work[w].pc = "wrong"
    /\ heap' = IF entry = 0 THEN Append(heap, NewState) ELSE heap
    /\ entry' = IF entry = 0 THEN Len(heap) + 1 ELSE entry
    /\ Become(w, [pc |-> "record", ptr |-> entry])
    /\ UNCHANGED <<clock, rdb, keys, events, fresh, guesses, dropped>>

(* recordLoginFailureKnownUser: LoadOrStore. *)
RecordLoad(w) ==
    /\ ~rdb
    /\ work[w].pc = "wrong"
    /\ heap' = IF entry = 0 THEN Append(heap, NewState) ELSE heap
    /\ entry' = IF entry = 0 THEN Len(heap) + 1 ELSE entry
    /\ Become(w, [pc |-> "record", ptr |-> entry'])
    /\ UNCHANGED <<clock, rdb, keys, events, fresh, guesses, dropped>>

(* Mutant: > for >=. *)
ReachedLate(failures) == failures > MaxFailures

Reached(failures) == failures >= MaxFailures

(* Mutant: lockedUntil is not looked at. *)
RecordUpdateAlways(w) ==
    /\ work[w].pc = "record"
    /\ LET p == work[w].ptr
           n == heap[p].failures + 1
       IN \/ /\ ~Reached(n)
             /\ heap' = [heap EXCEPT ![p].failures = n]
             /\ Finish(w) /\ UNCHANGED <<guesses, dropped>>
          \/ /\ Reached(n)
             /\ heap' = [heap EXCEPT ![p] = [failures |-> 0,
                                             lockedUntil |-> clock + Lockout]]
             /\ Become(w, Idle)
             /\ CountAnew
    /\ UNCHANGED <<clock, rdb, entry, keys, events>>

(* ... and the count under the mutex; 401.  The last failure starts a block *)
(* and the count anew; a failure during a block is not counted.             *)
RecordUpdate(w) ==
    /\ work[w].pc = "record"
    /\ LET p == work[w].ptr
           n == heap[p].failures + 1
       IN \/ /\ LockedState(p)
             /\ Finish(w) /\ UNCHANGED <<heap, guesses, dropped>>
          \/ /\ ~LockedState(p)
             /\ ~Reached(n)
             /\ heap' = [heap EXCEPT ![p].failures = n]
             /\ Finish(w) /\ UNCHANGED <<guesses, dropped>>
          \/ /\ ~LockedState(p)
             /\ Reached(n)
             /\ heap' = [heap EXCEPT ![p] = [failures |-> 0,
                                             lockedUntil |-> clock + Lockout]]
             /\ IF p = entry THEN Become(w, Idle) /\ CountAnew
                ELSE Finish(w) /\ UNCHANGED <<guesses, dropped>>
    /\ UNCHANGED <<clock, rdb, entry, keys, events>>

(* recordLoginSuccessClearThrottle deletes the entry, whatever it holds. *)
Clear(w) ==
    /\ ~rdb
    /\ work[w].pc = "right"
    /\ entry' = 0
    /\ Become(w, Idle)
    /\ CountAnew
    /\ UNCHANGED <<clock, rdb, heap, keys, events>>

(* The database fails or the client goes away before the password is read. *)
Abort(w) ==
    /\ work[w].pc = "passed"
    /\ Finish(w)
    /\ UNCHANGED <<clock, rdb, memory, keys, events, guesses, dropped>>

(* The process restarts: the map and every request are gone, and Redis is  *)
(* used if it answers now.                                                 *)
Restart ==
    /\ events < MaxEvents
    /\ events' = events + 1
    /\ rdb' \in BOOLEAN
    /\ heap' = <<>>
    /\ entry' = 0
    /\ work' = [w \in Workers |-> Idle]
    /\ CountAnew
    /\ unexpired' = (unexpired \/ Lasting)
    /\ UNCHANGED <<clock, failKey, lockKey>>

--------------------------------------------------------------------------------
(* Redis.  A command fails, or a replica dies. *)
Fault ==
    /\ events < MaxEvents
    /\ events' = events + 1

(* The code goes on as if nothing were locked, and a guess may not count. *)
FailOpen == Fault /\ dropped' = TRUE

(* redisLoginEmailLocked: TTL of the block.  429, or the login goes on, as *)
(* it does on an error.                                                    *)
RedisCheck(w) ==
    /\ rdb
    /\ work[w] = Idle
    /\ \/ clock < lockKey /\ UNCHANGED <<work, fresh, dropped, events>>
       \/ /\ \/ clock >= lockKey /\ UNCHANGED <<dropped, events>>
             \/ FailOpen
          /\ Enter(w, "passed")
          /\ fresh' = fresh \cup {w}
    /\ UNCHANGED <<clock, rdb, memory, keys, guesses>>

(* What is left to do when the count has reached n and EXPIRE is behind. *)
AfterExpire(w, n) ==
    IF Reached(n) THEN Enter(w, "set") /\ UNCHANGED fresh ELSE Finish(w)

(* Mutant: EXPIRE goes out for the second failure, not for the first. *)
RedisIncrOffByOne(w) ==
    /\ rdb
    /\ work[w].pc = "wrong"
    /\ LET n == failKey.count + 1
       IN /\ failKey' = [failKey EXCEPT !.count = n]
          /\ IF n = 2 THEN Become(w, [pc |-> "expire", n |-> n]) /\ UNCHANGED fresh
             ELSE AfterExpire(w, n)
    /\ UNCHANGED <<clock, rdb, memory, lockKey, dropped, unexpired, events, guesses>>

(* redisRecordLoginFailure: INCR.  An error ends it, whether or not Redis  *)
(* has counted; or the client library has missed the answer and sent the   *)
(* command again.                                                          *)
RedisIncr(w) ==
    /\ rdb
    /\ work[w].pc = "wrong"
    /\ LET n == failKey.count + 1
           Counted == failKey' = [failKey EXCEPT !.count = n]
       IN \/ /\ Counted
             /\ IF n = 1 THEN Become(w, [pc |-> "expire", n |-> n]) /\ UNCHANGED fresh
                ELSE AfterExpire(w, n)
             /\ UNCHANGED <<dropped, unexpired, events>>
          \/ /\ Counted
             /\ unexpired' = (n = 1 \/ unexpired)
             /\ Finish(w) /\ FailOpen
          \/ /\ Fault
             /\ failKey' = [failKey EXCEPT !.count = n + 1]
             /\ unexpired' = (n = 1 \/ unexpired)
             /\ AfterExpire(w, n + 1) /\ UNCHANGED dropped
          \/ Finish(w) /\ FailOpen /\ UNCHANGED <<failKey, unexpired>>
    /\ UNCHANGED <<clock, rdb, memory, lockKey, guesses>>

(* ... EXPIRE, of the first failure only; its error is dropped. *)
RedisExpire(w) ==
    /\ work[w].pc = "expire"
    /\ \/ /\ failKey' = IF failKey = NoKey THEN NoKey
                        ELSE [failKey EXCEPT !.expires = clock + FailTTL]
          /\ unexpired' = FALSE
          /\ UNCHANGED events
       \/ /\ Fault
          /\ unexpired' = (Lasting \/ unexpired)
          /\ UNCHANGED failKey
    /\ AfterExpire(w, work[w].n)
    /\ UNCHANGED <<clock, rdb, memory, lockKey, dropped, guesses>>

(* ... SET of the block; its error is dropped. *)
RedisSet(w) ==
    /\ work[w].pc = "set"
    /\ \/ lockKey' = clock + Lockout /\ CountAnew /\ UNCHANGED events
       \/ FailOpen /\ UNCHANGED <<lockKey, fresh, guesses>>
    /\ Enter(w, "del")
    /\ UNCHANGED <<clock, rdb, memory, failKey, unexpired>>

(* ... and DEL of the count, whichever it is by now; its error is dropped. *)
RedisDel(w) ==
    /\ work[w].pc = "del"
    /\ \/ failKey' = NoKey /\ unexpired' = FALSE /\ UNCHANGED events
       \/ Fault /\ UNCHANGED <<failKey, unexpired>>
    /\ Finish(w)
    /\ UNCHANGED <<clock, rdb, memory, lockKey, dropped, guesses>>

(* recordLoginSuccessClearThrottle: one DEL of both; its error is dropped. *)
RedisClear(w) ==
    /\ rdb
    /\ work[w].pc = "right"
    /\ \/ /\ failKey' = NoKey /\ lockKey' = 0 /\ unexpired' = FALSE
          /\ Become(w, Idle)
          /\ CountAnew
          /\ UNCHANGED events
       \/ Fault /\ Finish(w) /\ UNCHANGED <<keys, guesses, dropped>>
    /\ UNCHANGED <<clock, rdb, memory>>

(* Either DEL takes effect, the client library misses the answer and has   *)
(* the command yet to send again.                                          *)
RedisDelAgain(w) ==
    /\ \/ work[w].pc = "del" /\ UNCHANGED lockKey
       \/ rdb /\ work[w].pc = "right" /\ lockKey' = 0
    /\ failKey' = NoKey
    /\ unexpired' = FALSE
    /\ FailOpen
    /\ UNCHANGED <<clock, rdb, memory, work, fresh, guesses>>

(* The replica of worker w dies; Redis does not. *)
Crash(w) ==
    /\ rdb
    /\ work[w] # Idle
    /\ FailOpen
    /\ Finish(w)
    /\ unexpired' = (unexpired \/ (work[w].pc = "expire" /\ Lasting))
    /\ UNCHANGED <<clock, rdb, memory, failKey, lockKey, guesses>>

(* A count that expires starts anew. *)
Tick ==
    /\ clock < MaxTime
    /\ clock' = clock + 1
    /\ IF failKey.expires = clock' THEN failKey' = NoKey /\ CountAnew
       ELSE UNCHANGED <<failKey, dropped, fresh, guesses>>
    /\ UNCHANGED <<rdb, memory, lockKey, unexpired, work, events>>

Next ==
    \/ Tick
    \/ Restart
    \/ \E w \in Workers :
          \/ CheckLoad(w) \/ CheckLock(w) \/ VerifyWrong(w) \/ VerifyRight(w)
          \/ RecordLoad(w) \/ RecordUpdate(w) \/ Clear(w) \/ Abort(w)
          \/ RedisCheck(w) \/ RedisIncr(w) \/ RedisExpire(w) \/ RedisSet(w)
          \/ RedisDel(w) \/ RedisClear(w) \/ RedisDelAgain(w) \/ Crash(w)

Spec == Init /\ [][Next]_vars

--------------------------------------------------------------------------------
(* What "5 failed logins -> block" (docs/auth-session.md) amounts to when  *)
(* requests run concurrently: after a block, a success or a restart, no    *)
(* more passwords are tried before the next block than the limit, plus     *)
(* those of the requests that were already past the check: none is lost to *)
(* a deleted entry or to two failures counted at once.  With Redis, each   *)
(* other request may have set the last block and only now delete the count *)
(* that has begun since; and nothing is promised while commands fail.      *)
GuessesBounded ==
    LET requests == Cardinality(Workers)
    IN IF rdb THEN ~dropped => guesses <= MaxFailures * requests
       ELSE guesses <= MaxFailures - 1 + requests

(* Requests that were under way when a block started neither prolong it    *)
(* nor count towards the next one (in the process; with Redis they do).    *)
BlocksNotExtended ==
    [][\A p \in DOMAIN heap :
         LockedState(p) /\ p \in DOMAIN heap' => heap'[p] = heap[p]]_vars

(* A count of failures does not outlive its hour: a login:fail key without *)
(* a time to live is one whose first failure is just being recorded, or    *)
(* one whose EXPIRE was lost to a crash or an error.  Neither the INCRs of *)
(* other requests nor a DEL and a new count between the two commands can   *)
(* leave such a key.                                                       *)
FailCountExpires ==
    Lasting => unexpired \/ \E w \in Workers : work[w].pc = "expire"
================================================================================
