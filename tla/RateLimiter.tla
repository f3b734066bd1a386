------------------------------ MODULE RateLimiter ------------------------------
(***************************************************************************)
(* The fixed-window rate limiter (api/middleware/ratelimit.go and          *)
(* ratelimit_redis.go) for one scope and one client address, in one        *)
(* replica and, where counts are shared through Redis, in all of them.     *)
(* The windows of different addresses meet only in the sweep of the map,   *)
(* which any request may set off.                                          *)
(*                                                                         *)
(* A request reads its time before it takes the mutex or reaches Redis,    *)
(* and the clocks of replicas differ: the time a step goes by is behind    *)
(* the clock by up to Lag.                                                 *)
(***************************************************************************)
EXTENDS Integers

CONSTANTS
    Rpm,         \* requests per window
    Win,         \* length of a window: a minute
    KeyTTL,      \* what EXPIRE gives a counter: 75 seconds
    SweepAge,    \* age at which the sweep drops a window: ten minutes
    Lag,         \* bound on delay and difference of clocks
    LastTime,    \* bound on the clock
    MaxCount     \* bound on what a counter in Redis counts up to

(* Counters and windows outlive the requests that may still ask for them. *)
ASSUME WindowAssumption ==
    /\ Rpm \in Nat \ {0} /\ Win \in Nat \ {0} /\ Lag \in Nat
    /\ KeyTTL \in Nat /\ KeyTTL >= Win + Lag
    /\ SweepAge \in Nat /\ SweepAge >= Win + Lag
ASSUME CountAssumption == LastTime \in Nat /\ MaxCount \in Nat /\ MaxCount > Rpm

VARIABLES
    time,        \* of the wall clock
    connected,   \* redisx.Client of this replica is not nil
    window,      \* byIP[ip]
    lastSweep,
    counter,     \* the Redis key of each slot
    expiring,    \* slots a replica has counted first and is to EXPIRE
    since,       \* requests this replica has let in by its own window since it
                 \* started, of each age or younger (history)
    shared       \* requests let in by the counter of each slot (history)

local == <<connected, window, lastSweep, since>>
redis == <<counter, expiring, shared>>
limiterVars == <<time, local, redis>>

NoWindow == [count |-> -1]
Window == [start : Nat, count : Nat]

(* n is 0 for no key, expires 0 for a key without a time to live. *)
Counter == [n : Nat, expires : Nat]
NoCounter == [n |-> 0, expires |-> 0]

Slots == 0..(LastTime \div Win)
Ages == 0..(Win + Lag - 1)

LimiterTypeOK ==
    /\ time \in Nat
    /\ connected \in BOOLEAN
    /\ window \in Window \cup {NoWindow}
    /\ lastSweep \in 0..time
    /\ counter \in [Slots -> Counter]
    /\ expiring \subseteq Slots
    /\ since \in [Ages -> Nat]
    /\ shared \in [Slots -> Nat]

(* time.Now() of a request that gets to act now. *)
Nows == {t \in 0..time : t >= time - Lag}

(* NewFixedWindowLimiter, and what redisx.Init has found. *)
Start ==
    /\ connected' \in BOOLEAN
    /\ window' = NoWindow
    /\ lastSweep' = time
    /\ since' = [a \in Ages |-> 0]

LimiterInit ==
    /\ time = 0
    /\ connected \in BOOLEAN
    /\ window = NoWindow
    /\ lastSweep = 0
    /\ since = [a \in Ages |-> 0]
    /\ counter = [s \in Slots |-> NoCounter]
    /\ expiring = {}
    /\ shared = [s \in Slots |-> 0]

--------------------------------------------------------------------------------
(* The map, under the mutex. *)
SweepDue(now) == now - lastSweep >= Win

(* Mutant: the sweep drops every window. *)
SweptAll(now) == IF SweepDue(now) THEN NoWindow ELSE window

(* The window of the client after the sweep. *)
Swept(now) ==
    IF SweepDue(now) /\ window # NoWindow /\ now - window.start >= SweepAge
    THEN NoWindow ELSE window

(* Mutant: the count goes on when a window starts anew. *)
CurrentUnreset(now) ==
    LET w == Swept(now)
    IN IF w = NoWindow THEN [start |-> now, count |-> 0]
       ELSE IF now - w.start >= Win THEN [start |-> now, count |-> w.count]
       ELSE w

(* ... looked up or made, and started anew when it is over. *)
Current(now) ==
    LET w == Swept(now)
    IN IF w = NoWindow \/ now - w.start >= Win
       THEN [start |-> now, count |-> 0] ELSE w

(* Mutant: the time of the next sweep is kept, where the last one is read. *)
SweepNext(now) == lastSweep' = IF SweepDue(now) THEN now + Win ELSE lastSweep

Sweep(now) == lastSweep' = IF SweepDue(now) THEN now ELSE lastSweep

(* The middleware's own verdict: next handler or 429. *)
LocalAllow(now) ==
    LET w == Current(now)
    IN /\ Sweep(now)
       /\ \/ /\ w.count < Rpm
             /\ window' = [w EXCEPT !.count = @ + 1]
             /\ since' = [a \in Ages |-> since[a] + 1]
          \/ /\ w.count >= Rpm
             /\ window' = w
             /\ UNCHANGED since
       /\ UNCHANGED <<time, connected>>

(* A request without Redis. *)
Allow(now) ==
    /\ ~connected
    /\ LocalAllow(now)
    /\ UNCHANGED redis

(* A request of another client, which may set off the sweep. *)
OtherClient(now) ==
    /\ Sweep(now)
    /\ window' = Swept(now)
    /\ UNCHANGED <<time, connected, since, redis>>

--------------------------------------------------------------------------------
(* Redis. *)
Slot(now) == now \div Win

(* INCR, sent a second time (sent = 2) when the client library misses the  *)
(* answer to the first.                                                    *)
Incr(s, sent) ==
    /\ counter[s].n + sent <= MaxCount
    /\ counter' = [counter EXCEPT ![s].n = @ + sent]

(* fixedWindowRedisAllow, in any replica, up to the verdict. *)
RedisAllow(now, sent) ==
    LET s == Slot(now)
        n == counter[s].n + sent
    IN /\ Incr(s, sent)
       /\ expiring' = IF n = 1 THEN expiring \cup {s} ELSE expiring
       /\ shared' = [shared EXCEPT ![s] = @ + IF n <= Rpm THEN 1 ELSE 0]
       /\ UNCHANGED <<time, local>>

(* Mutant: the counter lives for just the length of a window. *)
ExpireShort(s) ==
    /\ s \in expiring
    /\ expiring' = expiring \ {s}
    /\ \/ /\ counter[s] # NoCounter
          /\ counter' = [counter EXCEPT ![s].expires = time + Win]
       \/ UNCHANGED counter
    /\ UNCHANGED <<time, local, shared>>

(* ... and the EXPIRE, of the first request in the slot; it may fail. *)
Expire(s) ==
    /\ s \in expiring
    /\ expiring' = expiring \ {s}
    /\ \/ /\ counter[s] # NoCounter
          /\ counter' = [counter EXCEPT ![s].expires = time + KeyTTL]
       \/ UNCHANGED counter
    /\ UNCHANGED <<time, local, shared>>

(* Redis fails, before or after it has counted: the request is judged by   *)
(* the replica's own window, at a time read anew.                          *)
Fallback(slotTime, now) ==
    /\ connected
    /\ slotTime <= now
    /\ \/ Incr(Slot(slotTime), 1)
       \/ UNCHANGED counter
    /\ LocalAllow(now)
    /\ UNCHANGED <<expiring, shared>>

LimiterRestart == Start /\ UNCHANGED <<time, redis>>

(* Some request may still count in slot s at time t.  Later its key is no  *)
(* one's concern, whether or not it expires, and the model forgets it.     *)
Open(s, t) == t - Lag < (s + 1) * Win

(* Keys expire, and what has been let in grows older. *)
LimiterTick ==
    /\ time < LastTime
    /\ time' = time + 1
    /\ counter' = [s \in Slots |->
                     IF Open(s, time') /\ counter[s].expires # time'
                     THEN counter[s] ELSE NoCounter]
    /\ expiring' = {s \in expiring : Open(s, time')}
    /\ shared' = [s \in Slots |-> IF Open(s, time') THEN shared[s] ELSE 0]
    /\ since' = [a \in Ages |-> IF a = 0 THEN 0 ELSE since[a - 1]]
    /\ UNCHANGED <<connected, window, lastSweep>>

LimiterNext ==
    \/ LimiterTick
    \/ LimiterRestart
    \/ \E s \in Slots : Expire(s)
    \/ \E now \in Nows :
          \/ Allow(now)
          \/ OtherClient(now)
          \/ \E sent \in {1, 2} : RedisAllow(now, sent)
          \/ \E slotTime \in Nows : Fallback(slotTime, now)

LimiterSpec == LimiterInit /\ [][LimiterNext]_limiterVars

--------------------------------------------------------------------------------
(* A replica that judges by its own windows lets in at most two windows'   *)
(* worth of requests in (almost) a window's length of time, however its    *)
(* requests are delayed and whoever sets off the sweep: no window is       *)
(* dropped or started anew while it is still open.                         *)
LocalRate == \A a \in Ages : a < Win - Lag => since[a] <= 2 * Rpm

(* All replicas together let in at most Rpm requests in a slot of Redis,   *)
(* late ones included: the counter does not expire before them.            *)
SharedRate == \A s \in Slots : shared[s] <= Rpm

Refuses(now) == Current(now).count >= Rpm

(* Nobody is refused for old requests: when a replica's window refuses,    *)
(* it has let in Rpm requests in the last minute (and the delay).          *)
RefusalsJustified ==
    \A now \in Nows : Refuses(now) => since[Win + Lag - 1] >= Rpm
================================================================================
