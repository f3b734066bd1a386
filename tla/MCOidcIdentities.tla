--------------------------- MODULE MCOidcIdentities ----------------------------
(* Small instances of OidcIdentities. *)
EXTENDS OidcIdentities, TLC

(* Neither an invite, nor a worker, nor a user beside the founder is       *)
(* distinguished.                                                          *)
MCSymmetry ==
    Permutations(Workers) \cup Permutations(Invites)
    \cup Permutations(Users \ {Founder})
================================================================================
