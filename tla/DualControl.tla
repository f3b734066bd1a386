------------------------------ MODULE DualControl ------------------------------
(***************************************************************************)
(* What the restore workflow promises, with no database, no transactions   *)
(* and no HTTP: a request is opened by one user; two other users must      *)
(* endorse it before it may be carried out; until then the requester may   *)
(* withdraw it and anybody else may veto it; a settled request stays as it *)
(* is.  BackupRestore is shown to implement this specification.            *)
(***************************************************************************)
CONSTANTS Requests, Users, NoUser   \* NoUser stands for "nobody"

VARIABLES
    phase,      \* where each request stands
    requester,  \* who opened it
    endorsers   \* who has endorsed it

dcVars == <<phase, requester, endorsers>>

DCInit ==
    /\ phase = [r \in Requests |-> "absent"]
    /\ requester = [r \in Requests |-> NoUser]
    /\ endorsers = [r \in Requests |-> {}]

Open(r, u) ==
    /\ phase[r] = "absent"
    /\ phase' = [phase EXCEPT ![r] = "pending"]
    /\ requester' = [requester EXCEPT ![r] = u]
    /\ UNCHANGED endorsers

(* The first endorsement leaves the request pending, the second approves it. *)
Endorse(r, u) ==
    /\ phase[r] = "pending"
    /\ u # requester[r]
    /\ u \notin endorsers[r]
    /\ endorsers' = [endorsers EXCEPT ![r] = @ \cup {u}]
    /\ phase' = [phase EXCEPT ![r] = IF endorsers[r] = {} THEN "pending"
                                     ELSE "approved"]
    /\ UNCHANGED requester

Veto(r, u) ==
    /\ phase[r] = "pending"
    /\ u # requester[r]
    /\ phase' = [phase EXCEPT ![r] = "rejected"]
    /\ UNCHANGED <<requester, endorsers>>

Withdraw(r, u) ==
    /\ phase[r] = "pending"
    /\ u = requester[r]
    /\ phase' = [phase EXCEPT ![r] = "cancelled"]
    /\ UNCHANGED <<requester, endorsers>>

CarryOut(r) ==
    /\ phase[r] = "approved"
    /\ phase' = [phase EXCEPT ![r] = "fulfilled"]
    /\ UNCHANGED <<requester, endorsers>>

DCNext ==
    \E r \in Requests :
       \/ CarryOut(r)
       \/ \E u \in Users : \/ Open(r, u)
                           \/ Endorse(r, u)
                           \/ Veto(r, u)
                           \/ Withdraw(r, u)

DCSpec == DCInit /\ [][DCNext]_dcVars
================================================================================
