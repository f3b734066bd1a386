---------------------------- MODULE DesktopExchange ----------------------------
(***************************************************************************)
(* The desktop auth bridge: one-time exchange codes bound to a PKCE        *)
(* challenge, table auth_desktop_exchange_codes and its two store methods  *)
(* (api/authstore/store.go), and the handlers StartDesktopExchangeCode and *)
(* ExchangeDesktopCode (api/myhandlers/auth_handlers.go).                  *)
(*                                                                         *)
(* A redemption is a transaction of three statements under a row lock; the *)
(* verifier is compared, and the token signed, after its commit.  A pair   *)
(* of verifier and S256 challenge is one value here: SHA-256 is taken to   *)
(* be injective.                                                           *)
(***************************************************************************)
EXTENDS Integers

CONSTANTS
    Users,        \* users who start an exchange
    Codes,        \* rows of the table; bounds the number of exchanges
    Verifiers,    \* PKCE verifiers
    Workers,      \* exchange requests in flight at the same time
    NoWorker,     \* the holder of a lock nobody holds
    CodeTTL,      \* DESKTOP_EXCHANGE_CODE_TTL_SECONDS
    MaxTime       \* bound on the clock

ASSUME WorkerAssumption == NoWorker \notin Workers
ASSUME TimeAssumption == CodeTTL \in Nat \ {0} /\ MaxTime \in Nat

VARIABLES
    clock,
    codes,        \* the table, as committed
    lock,         \* InnoDB row lock of each code
    work,         \* the redemption each worker is at
    minted,       \* per code: the tokens signed for it (history)
    mismatched    \* codes whose redeemer failed the PKCE check (history)

vars == <<clock, codes, lock, work, minted, mismatched>>

Code == [user : Users, challenge : Verifiers, expires : Nat,
         consumed : BOOLEAN]
NoCode == [absent |-> TRUE]

Exists(c) == codes[c] # NoCode

(***************************************************************************)
(* pc: idle                                                                *)
(*     locked     the SELECT ... FOR UPDATE has returned row               *)
(*     updated    consumed_at is set in the transaction, not yet committed *)
(*     redeemed   RedeemDesktopExchangeCode has returned row               *)
(***************************************************************************)
Idle == [pc |-> "idle"]
Work == {Idle} \cup [pc : {"locked", "updated", "redeemed"}, code : Codes,
                     verifier : Verifiers, row : Code]

TypeOK ==
    /\ clock \in Nat
    /\ codes \in [Codes -> Code \cup {NoCode}]
    /\ lock \in [Codes -> Workers \cup {NoWorker}]
    /\ work \in [Workers -> Work]
    /\ minted \in [Codes -> Nat]
    /\ mismatched \subseteq Codes

Init ==
    /\ clock = 0
    /\ codes = [c \in Codes |-> NoCode]
    /\ lock = [c \in Codes |-> NoWorker]
    /\ work = [w \in Workers |-> Idle]
    /\ minted = [c \in Codes |-> 0]
    /\ mismatched = {}

--------------------------------------------------------------------------------
(* The row CreateDesktopExchangeCode inserts. *)
NewCode(u, v) == [user |-> u, challenge |-> v, expires |-> clock + CodeTTL,
                  consumed |-> FALSE]

(* StartDesktopExchangeCode: one INSERT of a fresh random code for the     *)
(* authenticated user.                                                     *)
Start(c, u, v) ==
    /\ ~Exists(c)
    /\ codes' = [codes EXCEPT ![c] = NewCode(u, v)]
    /\ UNCHANGED <<clock, lock, work, minted, mismatched>>

(* SELECT ... FOR UPDATE waits for the lock.  An unknown code ends the     *)
(* request and changes nothing.                                            *)
RedeemSelect(w, c, v) ==
    /\ work[w] = Idle
    /\ Exists(c)
    /\ lock[c] = NoWorker
    /\ lock' = [lock EXCEPT ![c] = w]
    /\ work' = [work EXCEPT ![w] = [pc |-> "locked", code |-> c,
                                    verifier |-> v, row |-> codes[c]]]
    /\ UNCHANGED <<clock, codes, minted, mismatched>>

Release(w) == lock' = [lock EXCEPT ![work[w].code] = NoWorker]
Finish(w) == work' = [work EXCEPT ![w] = Idle]
Enter(w, pc) == work' = [work EXCEPT ![w].pc = pc]

(* ErrExchangeCodeUsed or ErrExchangeCodeExpired; the bound is exclusive. *)
Refused(row) == row.consumed \/ clock >= row.expires

(* Mutant: an early return without the deferred rollback. *)
RedeemRefuseNoRollback(w) ==
    /\ work[w].pc = "locked"
    /\ Refused(work[w].row)
    /\ Finish(w)
    /\ UNCHANGED <<clock, codes, lock, minted, mismatched>>

(* The early returns; the deferred Rollback frees the row. *)
RedeemRefuse(w) ==
    /\ work[w].pc = "locked"
    /\ Refused(work[w].row)
    /\ Release(w)
    /\ Finish(w)
    /\ UNCHANGED <<clock, codes, minted, mismatched>>

(* UPDATE ... WHERE id = ? AND consumed_at IS NULL, in the transaction:    *)
(* the row has been locked since it was read, so one row is affected.      *)
RedeemConsume(w) ==
    /\ work[w].pc = "locked"
    /\ ~Refused(work[w].row)
    /\ Enter(w, "updated")
    /\ UNCHANGED <<clock, codes, lock, minted, mismatched>>

(* Mutant: the deferred Rollback comes first, the UPDATE is undone. *)
RedeemCommitLost(w) ==
    /\ work[w].pc = "updated"
    /\ Release(w)
    /\ Enter(w, "redeemed")
    /\ UNCHANGED <<clock, codes, minted, mismatched>>

(* COMMIT.  When its answer is lost the code is consumed all the same, and *)
(* the request ends with 500.                                              *)
RedeemCommit(w) ==
    /\ work[w].pc = "updated"
    /\ codes' = [codes EXCEPT ![work[w].code].consumed = TRUE]
    /\ Release(w)
    /\ Enter(w, "redeemed") \/ Finish(w)
    /\ UNCHANGED <<clock, minted, mismatched>>

(* Mutant: the comparison fails without giving the code up. *)
MismatchRestores(w) ==
    /\ work[w].pc = "redeemed"
    /\ work[w].verifier # work[w].row.challenge
    /\ mismatched' = mismatched \cup {work[w].code}
    /\ codes' = [codes EXCEPT ![work[w].code].consumed = FALSE]
    /\ Finish(w)
    /\ UNCHANGED <<clock, lock, minted>>

(* code_verifier_mismatch: 401, the code stays consumed. *)
Mismatch(w) ==
    /\ work[w].pc = "redeemed"
    /\ work[w].verifier # work[w].row.challenge
    /\ mismatched' = mismatched \cup {work[w].code}
    /\ Finish(w)
    /\ UNCHANGED <<clock, codes, lock, minted>>

(* MintDesktopAccessToken for the user of the row, and 200. *)
Mint(w) ==
    /\ work[w].pc = "redeemed"
    /\ work[w].verifier = work[w].row.challenge
    /\ minted' = [minted EXCEPT ![work[w].code] = @ + 1]
    /\ Finish(w)
    /\ UNCHANGED <<clock, codes, lock, mismatched>>

(* A database error, an expired context or a crash ends the request; an    *)
(* open transaction is rolled back.                                        *)
Abort(w) ==
    /\ work[w] # Idle
    /\ IF work[w].pc = "redeemed" THEN UNCHANGED lock ELSE Release(w)
    /\ Finish(w)
    /\ UNCHANGED <<clock, codes, minted, mismatched>>

Tick ==
    /\ clock < MaxTime
    /\ clock' = clock + 1
    /\ UNCHANGED <<codes, lock, work, minted, mismatched>>

Proceed(w) ==
    \/ RedeemRefuse(w) \/ RedeemConsume(w) \/ RedeemCommit(w)
    \/ Mismatch(w) \/ Mint(w) \/ Abort(w)

Next ==
    \/ Tick
    \/ \E c \in Codes, u \in Users, v \in Verifiers : Start(c, u, v)
    \/ \E w \in Workers :
          \/ \E c \in Codes, v \in Verifiers : RedeemSelect(w, c, v)
          \/ Proceed(w)

Spec == Init /\ [][Next]_vars

(* Every request has a 10 second deadline (context.WithTimeout), so one    *)
(* that holds a lock goes on or is aborted.                                *)
FairSpec == Spec /\ \A w \in Workers : WF_vars(Proceed(w))

--------------------------------------------------------------------------------
(* "returns one-time exchange_code" (docs/auth-session.md): whatever the   *)
(* requests that present a code at the same time, whatever commits lose    *)
(* their answer and however often it is retried, at most one of them ever  *)
(* gets past the redemption, and at most one token is signed.              *)
SingleUse ==
    \A c \in Codes :
       /\ minted[c] <= 1
       /\ \A w \in Workers :
             work[w].pc = "redeemed" /\ work[w].code = c =>
                /\ minted[c] = 0
                /\ \A x \in Workers \ {w} :
                      ~(work[x].pc = "redeemed" /\ work[x].code = c)

(* One guess: once a wrong verifier has been tried on a code, not even the *)
(* holder of the right one gets a token for it.                            *)
OneGuess == \A c \in mismatched : minted[c] = 0

(* No token is out, and no verifier has been judged, before the database   *)
(* has durably given the code up: a crash cannot bring it back.            *)
DurableBeforeToken ==
    \A c \in Codes : minted[c] > 0 \/ c \in mismatched =>
       Exists(c) /\ codes[c].consumed

(* Redemptions of one code queue for its row lock; none of them blocks the *)
(* others for good.                                                        *)
LocksReleased == \A c \in Codes : []<>(lock[c] = NoWorker)
================================================================================
