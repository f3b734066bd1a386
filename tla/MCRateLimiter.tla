----------------------------- MODULE MCRateLimiter -----------------------------
(* Small instances of RateLimiter. *)
EXTENDS RateLimiter
================================================================================
