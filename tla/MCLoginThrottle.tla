---------------------------- MODULE MCLoginThrottle ----------------------------
(* Small instances of LoginThrottle. *)
EXTENDS LoginThrottle, TLC

MCSymmetry == Permutations(Workers)
================================================================================
