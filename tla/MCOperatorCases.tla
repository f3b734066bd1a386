---------------------------- MODULE MCOperatorCases ----------------------------
(* Small instances of OperatorCases. *)
EXTENDS OperatorCases, TLC

CONSTANTS agent, admin

(* One operator who works cases and one who sanctions. *)
MCRolesOf == agent :> {"support"} @@ admin :> {"security_admin"}

(* A status change, a reassignment and an unknown priority. *)
MCPatches == {[status |-> "resolved"],
              [priority |-> "high", assigned |-> agent],
              [priority |-> "p1"]}

MCSymmetry == Permutations(Workers)
================================================================================
