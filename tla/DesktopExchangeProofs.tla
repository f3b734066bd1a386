------------------------- MODULE DesktopExchangeProofs -------------------------
(***************************************************************************)
(* Proofs about DesktopExchange, for any number of codes and workers.      *)
(*                                                                         *)
(* SingleUse is not inductive: that a second worker cannot get past the    *)
(* redemption follows from the row lock (LockHeld), from the row a worker  *)
(* read being the one still in the table (LiveCopy), and from the fact     *)
(* that nothing has happened on a code that is not consumed (FreshCode).   *)
(***************************************************************************)
EXTENDS DesktopExchange, TLAPS

InTransaction(w) == work[w].pc \in {"locked", "updated"}

(* A worker in its transaction holds the lock of its code. *)
LockHeld == \A w \in Workers : InTransaction(w) => lock[work[w].code] = w

(* ... and what it read is what the table holds. *)
LiveCopy ==
    \A w \in Workers :
       /\ InTransaction(w) => codes[work[w].code] = work[w].row
       /\ work[w].pc = "updated" => ~work[w].row.consumed
       /\ work[w] # Idle => Exists(work[w].code)

Untouched(c) ==
    /\ minted[c] = 0
    /\ c \notin mismatched
    /\ \A w \in Workers : ~(work[w].pc = "redeemed" /\ work[w].code = c)

(* A code that is not consumed has not been past a redemption. *)
FreshCode ==
    \A c \in Codes : ~Exists(c) \/ ~codes[c].consumed => Untouched(c)

(* At most one worker is past the redemption of a code, the first ever. *)
FirstRedeemer ==
    \A w \in Workers :
       work[w].pc = "redeemed" =>
          /\ minted[work[w].code] = 0
          /\ work[w].code \notin mismatched
          /\ \A x \in Workers \ {w} :
                ~(work[x].pc = "redeemed" /\ work[x].code = work[w].code)

Spent == \A c \in Codes : minted[c] <= 1 /\ (c \in mismatched => minted[c] = 0)

IInv == TypeOK /\ LockHeld /\ LiveCopy /\ FreshCode /\ FirstRedeemer /\ Spent

--------------------------------------------------------------------------------
LEMMA WorkShape ==
    ASSUME TypeOK, NEW w \in Workers, work[w] # Idle
    PROVE  /\ work[w] \in [pc : {"locked", "updated", "redeemed"},
                           code : Codes, verifier : Verifiers, row : Code]
           /\ work[w].code \in Codes
           /\ work[w].row \in Code
BY DEF TypeOK, Work

LEMMA InitInv == Init => IInv
BY TimeAssumption DEF Init, IInv, TypeOK, LockHeld, LiveCopy, FreshCode,
   FirstRedeemer, Spent, Untouched, InTransaction, Idle, Work, Exists

(* Type correctness of one step. *)
LEMMA TypeStep == ASSUME TypeOK, [Next]_vars PROVE TypeOK'
<1> USE TimeAssumption
<1>1. CASE Tick
  BY <1>1 DEF Tick, TypeOK
<1>2. ASSUME NEW c \in Codes, NEW u \in Users, NEW v \in Verifiers,
             Start(c, u, v)
      PROVE  TypeOK'
  <2>1. NewCode(u, v) \in Code
    BY DEF NewCode, Code, TypeOK
  <2>2. QED BY <1>2, <2>1 DEF Start, TypeOK
<1>3. ASSUME NEW w \in Workers, NEW c \in Codes, NEW v \in Verifiers,
             RedeemSelect(w, c, v)
      PROVE  TypeOK'
  <2>1. codes[c] \in Code
    BY <1>3 DEF RedeemSelect, Exists, TypeOK
  <2>2. [pc |-> "locked", code |-> c, verifier |-> v, row |-> codes[c]] \in Work
    BY <2>1 DEF Work
  <2>3. QED BY <1>3, <2>2 DEF RedeemSelect, TypeOK
<1>4. ASSUME NEW w \in Workers, Proceed(w) PROVE TypeOK'
  <2>1. work[w] # Idle
    BY <1>4 DEF Proceed, RedeemRefuse, RedeemConsume, RedeemCommit, Mismatch,
                Mint, Abort, Idle
  <2>2. /\ work[w] \in [pc : {"locked", "updated", "redeemed"},
                        code : Codes, verifier : Verifiers, row : Code]
        /\ work[w].code \in Codes
    BY <2>1, WorkShape
  <2>3. ASSUME Finish(w) PROVE work' \in [Workers -> Work]
    BY <2>3 DEF Finish, TypeOK, Work
  <2>4. ASSUME NEW pc \in {"updated", "redeemed"}, Enter(w, pc)
        PROVE  work' \in [Workers -> Work]
    <3>1. [work[w] EXCEPT !.pc = pc] \in Work
      BY <2>2 DEF Work
    <3>2. QED BY <2>4, <3>1 DEF Enter, TypeOK
  <2>5. ASSUME Release(w) PROVE lock' \in [Codes -> Workers \cup {NoWorker}]
    BY <2>2, <2>5 DEF Release, TypeOK
  <2>6. CASE RedeemRefuse(w)
    BY <2>3, <2>5, <2>6 DEF RedeemRefuse, TypeOK
  <2>7. CASE RedeemConsume(w)
    BY <2>4, <2>7 DEF RedeemConsume, TypeOK
  <2>8. CASE RedeemCommit(w)
    <3>1. codes' \in [Codes -> Code \cup {NoCode}]
      BY <2>2, <2>8 DEF RedeemCommit, TypeOK, Code, NoCode
    <3>2. QED BY <2>3, <2>4, <2>5, <2>8, <3>1 DEF RedeemCommit, TypeOK
  <2>9. CASE Mismatch(w)
    BY <2>2, <2>3, <2>9 DEF Mismatch, TypeOK
  <2>10. CASE Mint(w)
    BY <2>2, <2>3, <2>10 DEF Mint, TypeOK
  <2>11. CASE Abort(w)
    BY <2>3, <2>5, <2>11 DEF Abort, TypeOK
  <2>12. QED BY <1>4, <2>6, <2>7, <2>8, <2>9, <2>10, <2>11 DEF Proceed
<1>5. CASE UNCHANGED vars
  BY <1>5 DEF vars, TypeOK
<1>6. QED BY <1>1, <1>2, <1>3, <1>4, <1>5 DEF Next

(* The model's types are kept by every step of both handlers. *)
THEOREM TypeCorrect == Spec => []TypeOK
<1>1. Init => TypeOK
  BY InitInv DEF IInv
<1>2. TypeOK /\ [Next]_vars => TypeOK'
  BY TypeStep
<1>3. QED BY <1>1, <1>2, PTL DEF Spec

--------------------------------------------------------------------------------
(* One case per action.  In each, w is the only worker that moves and c     *)
(* the only code concerned.                                                 *)
LEMMA InvStep == ASSUME IInv, [Next]_vars PROVE IInv'
<1> USE WorkerAssumption, TimeAssumption
<1>type. TypeOK /\ TypeOK'
  BY TypeStep DEF IInv
<1>1. CASE Tick
  BY <1>1, <1>type DEF Tick, IInv, LockHeld, LiveCopy, FreshCode, FirstRedeemer,
     Spent, Untouched, InTransaction, Exists
<1>2. ASSUME NEW c \in Codes, NEW u \in Users, NEW v \in Verifiers,
             Start(c, u, v)
      PROVE  IInv'
  <2>1. /\ codes' = [codes EXCEPT ![c] = NewCode(u, v)]
        /\ codes'[c] = NewCode(u, v)
        /\ \A d \in Codes \ {c} : codes'[d] = codes[d]
        /\ ~Exists(c)
        /\ UNCHANGED <<clock, lock, work, minted, mismatched>>
    BY <1>2, <1>type DEF Start, TypeOK
  <2>2. NewCode(u, v) # NoCode /\ ~NewCode(u, v).consumed
    BY DEF NewCode, NoCode
  <2>3. LockHeld' /\ FirstRedeemer' /\ Spent'
    BY <2>1 DEF IInv, LockHeld, FirstRedeemer, Spent, InTransaction
  <2>4. LiveCopy'
    <3>1. \A w \in Workers : work[w] # Idle => work[w].code \in Codes \ {c}
      BY <2>1, <1>type, WorkShape DEF IInv, LiveCopy
    <3>2. QED BY <2>1, <3>1 DEF IInv, LiveCopy, InTransaction, Exists, Idle
  <2>5. FreshCode'
    BY <2>1, <2>2 DEF IInv, FreshCode, Untouched, Exists
  <2>6. QED BY <1>type, <2>3, <2>4, <2>5 DEF IInv
<1>3. ASSUME NEW w \in Workers, NEW c \in Codes, NEW v \in Verifiers,
             RedeemSelect(w, c, v)
      PROVE  IInv'
  <2> DEFINE state == [pc |-> "locked", code |-> c, verifier |-> v,
                       row |-> codes[c]]
  <2>1. /\ work'[w] = state
        /\ \A x \in Workers \ {w} : work'[x] = work[x]
        /\ lock'[c] = w /\ lock[c] = NoWorker
        /\ \A d \in Codes \ {c} : lock'[d] = lock[d]
        /\ Exists(c) /\ work[w] = Idle
        /\ UNCHANGED <<clock, codes, minted, mismatched>>
    BY <1>3, <1>type DEF RedeemSelect, TypeOK
  <2>2. /\ work'[w].pc = "locked" /\ work'[w].code = c
        /\ work'[w].row = codes[c] /\ work'[w] # Idle
    BY <2>1 DEF Idle
  <2>3. LockHeld'
    <3>1. ASSUME NEW x \in Workers \ {w}, InTransaction(x)
          PROVE  work[x].code \in Codes \ {c}
      BY <2>1, <3>1, <1>type, WorkShape DEF IInv, LockHeld, InTransaction, Idle
    <3>2. QED BY <2>1, <2>2, <3>1 DEF IInv, LockHeld, InTransaction
  <2>4. LiveCopy'
    BY <2>1, <2>2 DEF IInv, LiveCopy, InTransaction, Exists
  <2>5. FreshCode' /\ FirstRedeemer' /\ Spent'
    BY <2>1, <2>2 DEF IInv, FreshCode, FirstRedeemer, Spent, Untouched, Exists
  <2>6. QED BY <1>type, <2>3, <2>4, <2>5 DEF IInv
<1>4. ASSUME NEW w \in Workers, Proceed(w) PROVE IInv'
  <2>1. work[w] # Idle
    BY <1>4 DEF Proceed, RedeemRefuse, RedeemConsume, RedeemCommit, Mismatch,
                Mint, Abort, Idle
  <2>2. /\ work[w] \in [pc : {"locked", "updated", "redeemed"},
                        code : Codes, verifier : Verifiers, row : Code]
        /\ work[w].code \in Codes
    BY <2>1, <1>type, WorkShape
  <2>c. PICK c \in Codes : c = work[w].code
    BY <2>2
  <2>3. ASSUME Finish(w)
        PROVE  work'[w] = Idle /\ \A x \in Workers \ {w} : work'[x] = work[x]
    BY <2>3, <1>type DEF Finish, TypeOK
  <2>4. ASSUME NEW pc \in {"updated", "redeemed"}, Enter(w, pc)
        PROVE  /\ work'[w].pc = pc /\ work'[w].code = c
               /\ work'[w].row = work[w].row /\ work'[w] # Idle
               /\ \A x \in Workers \ {w} : work'[x] = work[x]
    BY <2>2, <2>c, <2>4, <1>type DEF Enter, TypeOK, Idle
  <2>5. ASSUME Release(w)
        PROVE  /\ lock'[c] = NoWorker
               /\ \A d \in Codes \ {c} : lock'[d] = lock[d]
    BY <2>c, <2>5, <1>type DEF Release, TypeOK
  <2>6. Idle.pc = "idle"
    BY DEF Idle
  <2>7. ASSUME InTransaction(w), NEW x \in Workers \ {w}, InTransaction(x)
        PROVE  work[x].code \in Codes \ {c}
    BY <2>6, <2>7, <2>c, <1>type, WorkShape
       DEF IInv, LockHeld, InTransaction
  <2>8. CASE RedeemRefuse(w)
    <3>1. /\ InTransaction(w) /\ Release(w) /\ Finish(w)
          /\ UNCHANGED <<clock, codes, minted, mismatched>>
      BY <2>8 DEF RedeemRefuse, InTransaction
    <3>2. LockHeld'
      BY <2>3, <2>5, <2>6, <2>7, <3>1 DEF IInv, LockHeld, InTransaction
    <3>3. LiveCopy'
      BY <2>3, <2>6, <3>1 DEF IInv, LiveCopy, InTransaction, Exists
    <3>4. FreshCode' /\ FirstRedeemer' /\ Spent'
      BY <2>3, <2>6, <3>1
         DEF IInv, FreshCode, FirstRedeemer, Spent, Untouched, Exists
    <3>5. QED BY <1>type, <3>2, <3>3, <3>4 DEF IInv
  <2>9. CASE RedeemConsume(w)
    <3>1. /\ work[w].pc = "locked" /\ ~work[w].row.consumed
          /\ Enter(w, "updated")
          /\ UNCHANGED <<clock, codes, lock, minted, mismatched>>
      BY <2>9 DEF RedeemConsume, Refused
    <3>2. LockHeld'
      BY <2>4, <2>c, <3>1 DEF IInv, LockHeld, InTransaction
    <3>3. LiveCopy'
      BY <2>1, <2>4, <2>c, <3>1 DEF IInv, LiveCopy, InTransaction, Exists
    <3>4. FreshCode' /\ FirstRedeemer' /\ Spent'
      BY <2>4, <3>1
         DEF IInv, FreshCode, FirstRedeemer, Spent, Untouched, Exists
    <3>5. QED BY <1>type, <3>2, <3>3, <3>4 DEF IInv
  <2>10. CASE RedeemCommit(w)
    <3>1. /\ work[w].pc = "updated" /\ InTransaction(w)
          /\ codes' = [codes EXCEPT ![c].consumed = TRUE]
          /\ Release(w) /\ (Enter(w, "redeemed") \/ Finish(w))
          /\ UNCHANGED <<clock, minted, mismatched>>
      BY <2>10, <2>c DEF RedeemCommit, InTransaction
    <3>2. /\ \A x \in Workers \ {w} : work'[x] = work[x]
          /\ \/ work'[w].pc = "redeemed" /\ work'[w].code = c /\ work'[w] # Idle
             \/ work'[w] = Idle
      BY <2>3, <2>4, <3>1
    <3>3. codes[c] \in Code /\ ~codes[c].consumed /\ Exists(c)
      BY <2>1, <2>2, <2>c, <3>1 DEF IInv, LiveCopy
    <3>4. /\ codes'[c].consumed /\ codes'[c] # NoCode
          /\ \A d \in Codes \ {c} : codes'[d] = codes[d]
      BY <3>1, <3>3, <1>type DEF TypeOK, Code, NoCode
    <3>5. Untouched(c)
      BY <3>3 DEF IInv, FreshCode
    <3>6. LockHeld'
      BY <2>5, <2>6, <2>7, <3>1, <3>2 DEF IInv, LockHeld, InTransaction
    <3>7. LiveCopy'
      <4>1. ASSUME NEW x \in Workers \ {w}
            PROVE  /\ InTransaction(x) => codes'[work[x].code] = work[x].row
                   /\ work[x] # Idle => codes'[work[x].code] # NoCode
        BY <2>7, <3>1, <3>4, <1>type, WorkShape DEF IInv, LiveCopy, Exists
      <4>2. QED BY <2>6, <3>2, <3>4, <4>1
                DEF IInv, LiveCopy, InTransaction, Exists
    <3>8. FreshCode'
      BY <2>6, <3>1, <3>2, <3>4 DEF IInv, FreshCode, Untouched, Exists
    <3>9. FirstRedeemer'
      BY <2>6, <3>1, <3>2, <3>5 DEF IInv, FirstRedeemer, Untouched
    <3>10. Spent'
      BY <3>1 DEF IInv, Spent
    <3>11. QED BY <1>type, <3>6, <3>7, <3>8, <3>9, <3>10 DEF IInv
  <2>11. CASE Mismatch(w) \/ Mint(w)
    <3>1. /\ work[w].pc = "redeemed" /\ Finish(w)
          /\ UNCHANGED <<clock, codes, lock>>
          /\ \/ minted' = minted /\ mismatched' = mismatched \cup {c}
             \/ /\ minted' = [minted EXCEPT ![c] = @ + 1]
                /\ mismatched' = mismatched
      BY <2>11, <2>c DEF Mismatch, Mint
    <3>2. /\ minted[c] = 0 /\ c \notin mismatched
          /\ \A x \in Workers \ {w} :
                ~(work[x].pc = "redeemed" /\ work[x].code = c)
          /\ Exists(c) /\ codes[c].consumed
      BY <2>1, <2>c, <3>1 DEF IInv, FirstRedeemer, LiveCopy, FreshCode, Untouched
    <3>3. /\ \A d \in Codes \ {c} : /\ minted'[d] = minted[d]
                                    /\ d \in mismatched' <=> d \in mismatched
          /\ \/ minted'[c] = 0
             \/ minted'[c] = 1 /\ c \notin mismatched'
      BY <3>1, <3>2, <1>type DEF TypeOK
    <3>4. LockHeld' /\ LiveCopy'
      BY <2>3, <2>6, <3>1 DEF IInv, LockHeld, LiveCopy, InTransaction, Exists
    <3>5. FreshCode'
      BY <2>3, <2>6, <3>1, <3>2, <3>3 DEF IInv, FreshCode, Untouched, Exists
    <3>6. FirstRedeemer'
      <4>1. ASSUME NEW x \in Workers \ {w}, work[x].pc = "redeemed"
            PROVE  work[x].code \in Codes \ {c}
        BY <2>6, <3>2, <4>1, <1>type, WorkShape
      <4>2. \A x \in Workers : work'[x].pc = "redeemed" =>
               x # w /\ work'[x] = work[x] /\ work[x].code \in Codes \ {c}
        BY <2>3, <2>6, <3>1, <4>1
      <4>3. QED BY <3>3, <4>2 DEF IInv, FirstRedeemer
    <3>7. Spent'
      BY <3>3 DEF IInv, Spent
    <3>8. QED BY <1>type, <3>4, <3>5, <3>6, <3>7 DEF IInv
  <2>12. CASE Abort(w)
    <3>1. /\ Finish(w) /\ UNCHANGED <<clock, codes, minted, mismatched>>
          /\ \/ UNCHANGED lock
             \/ InTransaction(w) /\ Release(w)
      BY <2>2, <2>12 DEF Abort, InTransaction
    <3>2. LockHeld'
      BY <2>3, <2>5, <2>6, <2>7, <3>1 DEF IInv, LockHeld, InTransaction
    <3>3. LiveCopy'
      BY <2>3, <2>6, <3>1 DEF IInv, LiveCopy, InTransaction, Exists
    <3>4. FreshCode' /\ FirstRedeemer' /\ Spent'
      BY <2>3, <2>6, <3>1
         DEF IInv, FreshCode, FirstRedeemer, Spent, Untouched, Exists
    <3>5. QED BY <1>type, <3>2, <3>3, <3>4 DEF IInv
  <2>13. QED BY <1>4, <2>8, <2>9, <2>10, <2>11, <2>12 DEF Proceed
<1>5. CASE UNCHANGED vars
  BY <1>5, <1>type DEF vars, IInv, LockHeld, LiveCopy, FreshCode, FirstRedeemer,
     Spent, Untouched, InTransaction, Exists
<1>6. QED BY <1>1, <1>2, <1>3, <1>4, <1>5 DEF Next

(* The inductive invariant gives all three safety properties. *)
LEMMA InvImplies == IInv => SingleUse /\ OneGuess /\ DurableBeforeToken
<1> SUFFICES ASSUME IInv PROVE SingleUse /\ OneGuess /\ DurableBeforeToken
  OBVIOUS
<1>1. SingleUse
  BY DEF IInv, SingleUse, FirstRedeemer, Spent
<1>2. OneGuess
  BY DEF IInv, OneGuess, Spent, TypeOK
<1>3. DurableBeforeToken
  <2>1. \A c \in Codes : minted[c] > 0 => minted[c] # 0
    BY DEF IInv, TypeOK
  <2>2. QED BY <2>1 DEF IInv, DurableBeforeToken, FreshCode, Untouched
<1>4. QED BY <1>1, <1>2, <1>3

LEMMA Invariance == Spec => []IInv
<1>1. IInv /\ [Next]_vars => IInv'
  BY InvStep
<1>2. QED BY InitInv, <1>1, PTL DEF Spec

(* A code buys at most one token, for any number of codes and of requests   *)
(* presenting them: RedeemDesktopExchangeCode is atomic as its comment says. *)
THEOREM SingleUseHolds == Spec => []SingleUse
BY Invariance, InvImplies, PTL

(* ExchangeDesktopCode lets nobody try two verifiers on one code. *)
THEOREM OneGuessHolds == Spec => []OneGuess
BY Invariance, InvImplies, PTL

(* The consumption is committed before anything depends on it. *)
THEOREM DurableBeforeTokenHolds == Spec => []DurableBeforeToken
BY Invariance, InvImplies, PTL
================================================================================
