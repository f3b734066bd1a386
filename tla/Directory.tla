------------------------------- MODULE Directory -------------------------------
(***************************************************************************)
(* What the tables of people promise, with no transactions, no snapshots   *)
(* and no waiting: each way to join is one indivisible step.  A person     *)
(* joins by being created, by the first token of a subject of the identity *)
(* provider, or by an offer that is open; an offer makes the holder of an  *)
(* account, nobody holds two, and no email has two; who is removed loses   *)
(* the account.  OidcIdentities is shown to implement this specification.  *)
(***************************************************************************)
CONSTANTS Users, NoUser, Emails, Invites, Subjects

VARIABLES
    people,    \* who has joined
    removed,   \* who has been removed
    offers,    \* where each offer stands
    holders,   \* the accounts
    names      \* whom each subject stands for

dirVars == <<people, removed, offers, holders, names>>

DirInit ==
    /\ people \subseteq Users
    /\ removed = {}
    /\ offers = [i \in Invites |-> "absent"]
    /\ holders \in SUBSET [email : Emails, user : people, status : {"active"}]
    /\ names = [s \in Subjects |-> NoUser]

Create(u) ==
    /\ u \notin people
    /\ people' = people \cup {u}
    /\ UNCHANGED <<removed, offers, holders, names>>

(* A subject is given a person of its own, once. *)
Enroll(s, u) ==
    /\ names[s] = NoUser
    /\ u \notin people
    /\ names' = [names EXCEPT ![s] = u]
    /\ people' = people \cup {u}
    /\ UNCHANGED <<removed, offers, holders>>

Offer(i) ==
    /\ offers[i] = "absent"
    /\ offers' = [offers EXCEPT ![i] = "open"]
    /\ UNCHANGED <<people, removed, holders, names>>

(* The offer is for a person who is there, or makes a new one. *)
Join(i, e, u) ==
    /\ offers[i] = "open"
    /\ offers' = [offers EXCEPT ![i] = "taken"]
    /\ \A a \in holders : a.email # e /\ a.user # u
    /\ people' = people \cup {u}
    /\ holders' = holders \cup {[email |-> e, user |-> u, status |-> "active"]}
    /\ UNCHANGED <<removed, names>>

Remove(u) ==
    /\ u \in people \ removed
    /\ removed' = removed \cup {u}
    /\ holders' = {IF a.user = u THEN [a EXCEPT !.status = "suspended"] ELSE a :
                     a \in holders}
    /\ UNCHANGED <<people, offers, names>>

DirNext ==
    \/ \E i \in Invites : \/ Offer(i)
                          \/ \E e \in Emails, u \in Users : Join(i, e, u)
    \/ \E u \in Users : \/ Create(u) \/ Remove(u)
                        \/ \E s \in Subjects : Enroll(s, u)

DirSpec == DirInit /\ [][DirNext]_dirVars
================================================================================
