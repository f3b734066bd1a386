-------------------------- MODULE TokenRotationProofs --------------------------
(***************************************************************************)
(* Proofs about TokenRotation, for any number of instances, tokens and     *)
(* rotations, and for any two lifetimes JWT_ACCESS_TTL_SECONDS and         *)
(* JOIN_TOKEN_TTL_SECONDS: neither is assumed to be the longer one.        *)
(*                                                                         *)
(* RotationUnnoticed is not inductive.  It needs to know that an instance  *)
(* lags behind by one configuration at most, and how that configuration is *)
(* related to the one being deployed (Lagging); which secrets tokens       *)
(* younger than the runbook's wait can be signed with (KnownKeys); and     *)
(* that no token is signed with the old secret once every instance has the *)
(* pair (OldKeyRests), from where the runbook counts its wait.  The same   *)
(* fact bounds what a retired secret is worth (RetiredSecretUnused).       *)
(***************************************************************************)
EXTENDS TokenRotation, TLAPS

Behind(c) ==
    /\ c.gen + 1 = env.gen
    /\ env.prev # 0 => c.secret = env.prev /\ c.prev = 0
    /\ env.prev = 0 => c.secret = env.secret /\ c.prev + 1 = env.secret

Lagging == \A i \in Instances : running[i] = env \/ Behind(running[i])

Consecutive == env.prev # 0 => env.secret = env.prev + 1

Lifetimes ==
    \A t \in tokens :
       t.gen <= env.gen /\ t.issued <= clock /\ t.expires = t.issued + TTL(t.use)

KnownKeys ==
    \A t \in tokens :
       clock < t.issued + AccessTTL =>
          /\ t.key = env.secret \/ (env.prev # 0 /\ t.key = env.prev)
          /\ t.gen < env.gen /\ env.prev # 0 => t.key = env.prev

OldKeyRests ==
    AllDeployed /\ env.prev # 0 =>
       \A t \in tokens : t.key # env.secret => t.issued <= settled

IInv ==
    /\ TypeOK /\ Lagging /\ Consecutive /\ Lifetimes /\ KnownKeys
    /\ OldKeyRests
    /\ RetiredSecretUnused /\ retired <= clock

--------------------------------------------------------------------------------
LEMMA ConfigShape ==
    ASSUME NEW c \in Config
    PROVE  c.secret \in Nat \ {0} /\ c.prev \in Nat /\ c.gen \in Nat
BY DEF Config

LEMMA TokenShape ==
    ASSUME NEW t \in Token
    PROVE  /\ t.key \in Nat \ {0} /\ t.issued \in Nat /\ t.expires \in Nat
           /\ t.gen \in Nat /\ TTL(t.use) \in Nat \ {0}
BY TTLAssumption DEF Token, TTL

LEMMA InitInv == Init => IInv
BY TTLAssumption, InstancesAssumption
   DEF Init, IInv, TypeOK, Lagging, Consecutive, Lifetimes, KnownKeys,
       OldKeyRests, RetiredSecretUnused, FirstConfig, Config

(* Type correctness of one step. *)
LEMMA TypeStep == ASSUME TypeOK, [Next]_vars PROVE TypeOK'
<1> USE TTLAssumption
<1>1. CASE Tick
  BY <1>1 DEF Tick, TypeOK
<1>2. CASE StartRotation
  <2>1. env.secret \in Nat \ {0} /\ env.gen \in Nat
    BY ConfigShape DEF TypeOK
  <2>2. env' \in Config
    BY <1>2, <2>1 DEF StartRotation, Config
  <2>3. QED BY <1>2, <2>2 DEF StartRotation, TypeOK
<1>3. CASE FinishRotation
  <2>1. env' = [env EXCEPT !.prev = 0, !.gen = @ + 1]
    BY <1>3 DEF FinishRotation
  <2>2. env' = [secret |-> env.secret, prev |-> 0, gen |-> env.gen + 1]
    BY <2>1 DEF TypeOK, Config
  <2>3. env' \in Config
    BY <2>2, ConfigShape DEF TypeOK, Config
  <2>4. QED BY <1>3, <2>3 DEF FinishRotation, TypeOK
<1>4. ASSUME NEW i \in Instances, Deploy(i) PROVE TypeOK'
  BY <1>4 DEF Deploy, TypeOK
<1>5. ASSUME NEW i \in Instances, NEW use \in Uses, Mint(i, use) PROVE TypeOK'
  <2>1. running[i].secret \in Nat \ {0} /\ running[i].gen \in Nat
    BY ConfigShape DEF TypeOK
  <2>2. clock + TTL(use) \in Nat
    BY DEF TTL, TypeOK
  <2>3. [use |-> use, key |-> running[i].secret, issued |-> clock,
         expires |-> clock + TTL(use), gen |-> running[i].gen] \in Token
    BY <2>1, <2>2 DEF Token, TypeOK
  <2>4. QED BY <1>5, <2>3 DEF Mint, TypeOK
<1>6. CASE UNCHANGED vars
  BY <1>6 DEF vars, TypeOK
<1>7. QED BY <1>1, <1>2, <1>3, <1>4, <1>5, <1>6 DEF Next

(* The model's types are kept by every step. *)
THEOREM TypeCorrect == Spec => []TypeOK
<1>1. Init => TypeOK
  BY InitInv DEF IInv
<1>2. TypeOK /\ [Next]_vars => TypeOK'
  BY TypeStep
<1>3. QED BY <1>1, <1>2, PTL DEF Spec

--------------------------------------------------------------------------------
LEMMA InvStep ==
    ASSUME IInv, [Next]_vars
    PROVE  IInv'
<1> USE TTLAssumption
<1>type. TypeOK /\ TypeOK'
  BY TypeStep DEF IInv
<1>env. /\ env.secret \in Nat \ {0} /\ env.prev \in Nat /\ env.gen \in Nat
        /\ env'.secret \in Nat \ {0} /\ env'.prev \in Nat /\ env'.gen \in Nat
        /\ clock \in Nat /\ settled \in Nat /\ retired \in Nat
  BY <1>type, ConfigShape DEF TypeOK
<1>run. \A i \in Instances :
           /\ running[i].secret \in Nat \ {0} /\ running[i].prev \in Nat
           /\ running[i].gen \in Nat
  BY <1>type, ConfigShape DEF TypeOK
<1>tok. \A t \in tokens :
           /\ t.key \in Nat \ {0} /\ t.issued \in Nat /\ t.expires \in Nat
           /\ t.gen \in Nat /\ TTL(t.use) \in Nat
  BY <1>type, TokenShape DEF TypeOK
<1>1. CASE Tick
  <2>1. clock' = clock + 1 /\ UNCHANGED <<env, running, settled, retired, tokens>>
    BY <1>1 DEF Tick
  <2>2. Lagging' /\ Consecutive' /\ OldKeyRests'
    BY <2>1 DEF IInv, Lagging, Behind, Consecutive, OldKeyRests, AllDeployed
  <2>3. Lifetimes' /\ KnownKeys'
    BY <2>1, <1>env, <1>tok DEF IInv, Lifetimes, KnownKeys
  <2>4. RetiredSecretUnused' /\ (retired <= clock)'
    BY <2>1, <1>env DEF IInv, RetiredSecretUnused
  <2>5. QED BY <1>type, <2>2, <2>3, <2>4 DEF IInv
<1>2. CASE StartRotation
  <2>1. /\ AllDeployed /\ env.prev = 0
        /\ env'.secret = env.secret + 1 /\ env'.prev = env.secret
        /\ env'.gen = env.gen + 1
        /\ UNCHANGED <<clock, running, settled, retired, tokens>>
    BY <1>2 DEF StartRotation
  <2>2. \A i \in Instances : running[i] = env
    BY <2>1 DEF AllDeployed
  <2>3. Lagging' /\ Consecutive'
    BY <2>1, <2>2, <1>env DEF Lagging, Behind, Consecutive
  <2>4. Lifetimes' /\ KnownKeys'
    BY <2>1, <1>env, <1>tok DEF IInv, Lifetimes, KnownKeys
  <2>5. OldKeyRests'
    <3>1. env'.gen # env.gen
      BY <2>1, <1>env
    <3>2. ~AllDeployed'
      BY <2>1, <2>2, <3>1, InstancesAssumption DEF AllDeployed
    <3>3. QED BY <3>2 DEF OldKeyRests
  <2>6. RetiredSecretUnused' /\ (retired <= clock)'
    BY <2>1, <1>env, <1>tok DEF IInv, RetiredSecretUnused
  <2>7. QED BY <1>type, <2>3, <2>4, <2>5, <2>6 DEF IInv
<1>3. CASE FinishRotation
  <2>1. /\ AllDeployed /\ env.prev # 0 /\ clock >= settled + AccessTTL
        /\ retired' = clock
        /\ UNCHANGED <<clock, running, settled, tokens>>
    BY <1>3 DEF FinishRotation
  <2>2. env'.secret = env.secret /\ env'.prev = 0 /\ env'.gen = env.gen + 1
    BY <1>3, <1>type DEF FinishRotation, TypeOK, Config
  <2>3. \A i \in Instances : running[i] = env
    BY <2>1 DEF AllDeployed
  <2>4. Lagging' /\ Consecutive'
    BY <2>1, <2>2, <2>3, <1>env DEF IInv, Lagging, Behind, Consecutive
  <2>5. \A t \in tokens : t.key # env.secret => t.issued + AccessTTL <= clock
    BY <2>1, <1>env, <1>tok DEF IInv, OldKeyRests
  <2>6. Lifetimes' /\ KnownKeys' /\ OldKeyRests'
    BY <2>1, <2>2, <2>5, <1>env, <1>tok
       DEF IInv, Lifetimes, KnownKeys, OldKeyRests
  <2>7. RetiredSecretUnused' /\ (retired <= clock)'
    <3>1. ASSUME NEW t \in tokens, t.key # env.secret
          PROVE  t.expires + AccessTTL <= clock + TTL(t.use)
      BY <3>1, <2>5, <1>env, <1>tok DEF IInv, Lifetimes
    <3>2. QED BY <2>1, <2>2, <3>1, <1>env DEF RetiredSecretUnused
  <2>8. QED BY <1>type, <2>4, <2>6, <2>7 DEF IInv
<1>4. ASSUME NEW i \in Instances, Deploy(i) PROVE IInv'
  <2>1. /\ running' = [running EXCEPT ![i] = env] /\ settled' = clock
        /\ UNCHANGED <<clock, env, retired, tokens>>
    BY <1>4 DEF Deploy
  <2>2. Lagging'
    BY <2>1, <1>type DEF IInv, Lagging, Behind, TypeOK
  <2>3. /\ Consecutive' /\ Lifetimes' /\ KnownKeys' /\ OldKeyRests'
        /\ RetiredSecretUnused' /\ (retired <= clock)'
    BY <2>1 DEF IInv, Consecutive, Lifetimes, KnownKeys, OldKeyRests,
                RetiredSecretUnused
  <2>4. QED BY <1>type, <2>2, <2>3 DEF IInv
<1>5. ASSUME NEW i \in Instances, NEW use \in Uses, Mint(i, use) PROVE IInv'
  <2> DEFINE new == [use |-> use, key |-> running[i].secret, issued |-> clock,
                     expires |-> clock + TTL(use), gen |-> running[i].gen]
  <2>1. /\ tokens' = tokens \cup {new}
        /\ UNCHANGED <<clock, env, running, settled, retired>>
    BY <1>5 DEF Mint
  <2>2. /\ new.key = running[i].secret /\ new.gen = running[i].gen
        /\ new.use = use /\ new.issued = clock
        /\ new.expires = clock + TTL(use)
    OBVIOUS
  <2>3. TTL(use) \in Nat
    BY DEF TTL
  <2>4. running[i] = env \/ Behind(running[i])
    BY DEF IInv, Lagging
  <2> HIDE DEF new
  <2>5. Lagging' /\ Consecutive'
    BY <2>1 DEF IInv, Lagging, Behind, Consecutive
  <2>6. Lifetimes'
    BY <2>1, <2>2, <2>3, <2>4, <1>env, <1>run DEF IInv, Lifetimes, Behind
  <2>7. /\ new.key = env.secret \/ (env.prev # 0 /\ new.key = env.prev)
        /\ new.gen < env.gen /\ env.prev # 0 => new.key = env.prev
    BY <2>2, <2>4, <1>env, <1>run DEF Behind
  <2>8. KnownKeys'
    BY <2>1, <2>7 DEF IInv, KnownKeys
  <2>9. OldKeyRests'
    BY <2>1, <2>2 DEF IInv, OldKeyRests, AllDeployed
  <2>10. RetiredSecretUnused' /\ (retired <= clock)'
    BY <2>1, <2>7 DEF IInv, RetiredSecretUnused
  <2>11. QED BY <1>type, <2>5, <2>6, <2>8, <2>9, <2>10 DEF IInv
<1>6. CASE UNCHANGED vars
  BY <1>6, <1>type DEF vars, IInv, Lagging, Behind, Consecutive, Lifetimes,
     KnownKeys, OldKeyRests, RetiredSecretUnused, AllDeployed
<1>7. QED BY <1>1, <1>2, <1>3, <1>4, <1>5, <1>6 DEF Next

LEMMA Invariance == Spec => []IInv
<1>1. IInv /\ [Next]_vars => IInv'
  BY InvStep
<1>2. QED BY InitInv, <1>1, PTL DEF Spec

(* With two secrets and the runbook's wait, no live token younger than the *)
(* wait is refused by an instance as new as its signer, in any number of   *)
(* rotations.                                                              *)
THEOREM RotationUnnoticedHolds == Spec => []RotationUnnoticed
<1>1. IInv => RotationUnnoticed
  <2> SUFFICES ASSUME IInv, NEW t \in tokens, NEW i \in Instances,
                      clock < t.expires, clock < t.issued + AccessTTL,
                      t.gen <= running[i].gen
               PROVE  ParseAccessToken(i, t)
    BY DEF RotationUnnoticed
  <2>1. /\ t.key = env.secret \/ (env.prev # 0 /\ t.key = env.prev)
        /\ t.gen < env.gen /\ env.prev # 0 => t.key = env.prev
    BY DEF IInv, KnownKeys
  <2>2. CASE running[i] = env
    BY <2>1, <2>2 DEF ParseAccessToken
  <2>3. CASE Behind(running[i])
    <3>1. running[i].gen \in Nat /\ env.gen \in Nat /\ t.gen \in Nat
      BY ConfigShape, TokenShape DEF IInv, TypeOK
    <3>2. t.gen < env.gen
      BY <2>3, <3>1 DEF Behind
    <3>3. QED BY <2>1, <2>3, <3>2 DEF ParseAccessToken, Behind
  <2>4. QED BY <2>2, <2>3 DEF IInv, Lagging
<1>2. QED BY <1>1, Invariance, PTL

(* What the secret that was cleared from JWT_SECRET_PREVIOUS can still be  *)
(* worth, whatever the two lifetimes are.                                  *)
THEOREM RetiredSecretUnusedHolds == Spec => []RetiredSecretUnused
<1>1. IInv => RetiredSecretUnused
  BY DEF IInv
<1>2. QED BY <1>1, Invariance, PTL

(* When the documented wait is long enough: config.Load would have to      *)
(* refuse a JOIN_TOKEN_TTL_SECONDS above JWT_ACCESS_TTL_SECONDS.           *)
THEOREM OldTokensExpiredIfJoinIsShort ==
    ASSUME JoinTTL <= AccessTTL
    PROVE  Spec => []OldTokensExpired
<1>1. IInv => OldTokensExpired
  <2> SUFFICES ASSUME IInv, env.prev = 0, NEW t \in tokens, t.key # env.secret
               PROVE  clock >= t.expires
    BY DEF OldTokensExpired
  <2>1. /\ t.key \in Nat \ {0} /\ t.expires \in Nat
        /\ clock \in Nat /\ retired \in Nat
    BY TokenShape DEF IInv, TypeOK
  <2>2. t.expires + AccessTTL <= retired + TTL(t.use)
    BY <2>1 DEF IInv, RetiredSecretUnused
  <2>3. TTL(t.use) \in Nat /\ TTL(t.use) <= AccessTTL
    BY TTLAssumption DEF TTL
  <2>4. QED BY <2>1, <2>2, <2>3, TTLAssumption DEF IInv
<1>2. QED BY <1>1, Invariance, PTL
================================================================================
