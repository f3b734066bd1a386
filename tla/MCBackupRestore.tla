--------------------------- MODULE MCBackupRestore ---------------------------
(* A small instance of BackupRestore: an operator, who may do everything, and *)
(* two security admins, who may approve and fulfill but not request.         *)
EXTENDS BackupRestore, TLC

CONSTANTS root, admin1, admin2

MCRolesOf == (root :> {"operator"}) @@ (admin1 :> {"security_admin"})
             @@ (admin2 :> {"security_admin"})

(* Workers are interchangeable, and so are the two admins. *)
MCSymmetry == Permutations(Workers) \cup Permutations({admin1, admin2})
================================================================================
