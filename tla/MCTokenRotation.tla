---------------------------- MODULE MCTokenRotation ----------------------------
(* Small instances of TokenRotation. *)
EXTENDS TokenRotation, TLC

MCSymmetry == Permutations(Instances)
================================================================================
