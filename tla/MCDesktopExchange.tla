-------------------------- MODULE MCDesktopExchange --------------------------
(* Small instances of DesktopExchange. *)
EXTENDS DesktopExchange, TLC

(* No behaviour depends on which user, code, verifier or worker it is. *)
MCSymmetry == Permutations(Workers) \cup Permutations(Codes)
              \cup Permutations(Verifiers)
================================================================================
