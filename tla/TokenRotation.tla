----------------------------- MODULE TokenRotation -----------------------------
(***************************************************************************)
(* HS256 platform tokens (api/auth/token.go) while the signing secret is   *)
(* rotated: every API instance signs with its JWT_SECRET and verifies with *)
(* JWT_SECRET or JWT_SECRET_PREVIOUS, and reads both when it starts        *)
(* (api/main.go).  Instances are restarted one at a time with the          *)
(* configuration of the moment; a client may present a token to any of     *)
(* them.  The operators follow the runbook of docs/jwt-rotation.md, which  *)
(* waits JWT_ACCESS_TTL_SECONDS; the lifetime of a join token is set       *)
(* independently of that and may be longer (api/config/config.go).         *)
(***************************************************************************)
EXTENDS Naturals, FiniteSets

CONSTANTS
    Instances,      \* API processes behind the proxy
    AccessTTL,      \* JWT_ACCESS_TTL_SECONDS
    JoinTTL,        \* JOIN_TOKEN_TTL_SECONDS
    MaxTime,        \* bound on the clock
    MaxChanges,     \* bound on the configuration changes
    MaxTokens       \* bound on the tokens

ASSUME InstancesAssumption == Instances # {}
ASSUME TTLAssumption == AccessTTL \in Nat \ {0} /\ JoinTTL \in Nat \ {0}
ASSUME BoundsAssumption ==
    MaxTime \in Nat /\ MaxChanges \in Nat /\ MaxTokens \in Nat

VARIABLES
    clock,
    env,        \* the configuration an instance gets when it starts next
    running,    \* the configuration each instance runs
    settled,    \* when the last instance got env
    retired,    \* when JWT_SECRET_PREVIOUS was last cleared in env (history)
    tokens      \* the tokens issued so far

vars == <<clock, env, running, settled, retired, tokens>>

(* Secrets are numbered in the order they are generated; prev 0 is unset.  *)
(* gen counts the configurations (history).                                *)
Config == [secret : Nat \ {0}, prev : Nat, gen : Nat]

Uses == {"access", "desktop_access", "join"}

(* key: the secret it is signed with; issued and expires: iat and exp;     *)
(* gen: the signer's (history).                                            *)
Token == [use : Uses, key : Nat \ {0}, issued : Nat, expires : Nat, gen : Nat]

TypeOK ==
    /\ clock \in Nat
    /\ env \in Config
    /\ running \in [Instances -> Config]
    /\ settled \in Nat
    /\ retired \in Nat
    /\ tokens \subseteq Token

FirstConfig == [secret |-> 1, prev |-> 0, gen |-> 0]

Init ==
    /\ clock = 0
    /\ env = FirstConfig
    /\ running = [i \in Instances |-> FirstConfig]
    /\ settled = 0
    /\ retired = 0
    /\ tokens = {}

--------------------------------------------------------------------------------
TTL(use) == IF use = "join" THEN JoinTTL ELSE AccessTTL

(* Mutant: the previous secret signs while there is one. *)
MintWithPrevious(i, use) ==
    /\ Cardinality(tokens) < MaxTokens
    /\ tokens' = tokens \cup
          {[use |-> use,
            key |-> IF running[i].prev # 0 THEN running[i].prev
                    ELSE running[i].secret,
            issued |-> clock, expires |-> clock + TTL(use),
            gen |-> running[i].gen]}
    /\ UNCHANGED <<clock, env, running, settled, retired>>

(* MintAccessToken (client credentials, bootstrap), MintDesktopAccessToken *)
(* and MintJoinToken differ in their claims and lifetime.                  *)
Mint(i, use) ==
    /\ Cardinality(tokens) < MaxTokens
    /\ tokens' = tokens \cup
          {[use |-> use, key |-> running[i].secret,
            issued |-> clock, expires |-> clock + TTL(use),
            gen |-> running[i].gen]}
    /\ UNCHANGED <<clock, env, running, settled, retired>>

(* Mutant: JWT_SECRET_PREVIOUS is never tried. *)
ParseAccessTokenCurrentOnly(i, t) ==
    clock < t.expires /\ t.key = running[i].secret

(* ParseAccessToken: the first secret, then the previous one if it is set. *)
(* token_use is not looked at: a join token is accepted like any other.    *)
ParseAccessToken(i, t) ==
    /\ clock < t.expires
    /\ \/ t.key = running[i].secret
       \/ running[i].prev # 0 /\ t.key = running[i].prev

(* An instance is restarted: NewTokenService from the environment. *)
Deploy(i) ==
    /\ running[i] # env
    /\ running' = [running EXCEPT ![i] = env]
    /\ settled' = clock
    /\ UNCHANGED <<clock, env, retired, tokens>>

AllDeployed == \A i \in Instances : running[i] = env

(* Runbook, steps 1 and 2: the secret becomes the previous one. *)
StartRotation ==
    /\ AllDeployed
    /\ env.prev = 0
    /\ env.gen < MaxChanges
    /\ env' = [secret |-> env.secret + 1, prev |-> env.secret,
               gen |-> env.gen + 1]
    /\ UNCHANGED <<clock, running, settled, retired, tokens>>

(* Step 4: all instances run the pair, and have for JWT_ACCESS_TTL_SECONDS. *)
FinishRotation ==
    /\ AllDeployed
    /\ env.prev # 0
    /\ clock >= settled + AccessTTL
    /\ env' = [env EXCEPT !.prev = 0, !.gen = @ + 1]
    /\ retired' = clock
    /\ UNCHANGED <<clock, running, settled, tokens>>

Tick ==
    /\ clock < MaxTime
    /\ clock' = clock + 1
    /\ UNCHANGED <<env, running, settled, retired, tokens>>

Next ==
    \/ Tick \/ StartRotation \/ FinishRotation
    \/ \E i \in Instances : Deploy(i) \/ \E use \in Uses : Mint(i, use)

Spec == Init /\ [][Next]_vars

--------------------------------------------------------------------------------
(* What the two secrets guarantee through any number of rotations: a live  *)
(* token is accepted by every instance that runs the signer's              *)
(* configuration or a newer one until it is as old as the runbook's wait,  *)
(* JWT_ACCESS_TTL_SECONDS: nobody who sticks to such an instance notices   *)
(* the rotation, unless with a join token that lives longer than that.     *)
RotationUnnoticed ==
    \A t \in tokens, i \in Instances :
       /\ clock < t.expires /\ clock < t.issued + AccessTTL
       /\ t.gen <= running[i].gen
       => ParseAccessToken(i, t)

(* What a secret that was taken away can still be worth, for any lifetimes *)
(* the configuration allows: the access tokens signed with it had expired  *)
(* when JWT_SECRET_PREVIOUS was last cleared, the join tokens expire no    *)
(* later than JoinTTL - AccessTTL after that (before it, if negative), and *)
(* no instance goes back to signing with it.                               *)
RetiredSecretUnused ==
    \A t \in tokens :
       t.key \notin {env.secret, env.prev} =>
          t.expires + AccessTTL <= retired + TTL(t.use)

(* docs/jwt-rotation.md:10: "wait for old JWTs to expire (<=               *)
(* `JWT_ACCESS_TTL_SECONDS`), then clear `JWT_SECRET_PREVIOUS`", that is,  *)
(* once the previous secret is cleared no token signed with it is alive.   *)
OldTokensExpired ==
    env.prev = 0 => \A t \in tokens : t.key # env.secret => clock >= t.expires
================================================================================
