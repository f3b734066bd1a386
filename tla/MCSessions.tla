------------------------------ MODULE MCSessions ------------------------------
(* A small instance of Sessions.  No symmetry: the run checks liveness. *)
EXTENDS Sessions
================================================================================
