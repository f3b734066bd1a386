----------------------------- MODULE MCAdminClient -----------------------------
(* Small instances of AdminClient. *)
EXTENDS AdminClient, TLC

(* Tabs are interchangeable; used by the run without liveness only. *)
MCSymmetry == Permutations(Tabs)
================================================================================
