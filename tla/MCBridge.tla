------------------------------ MODULE MCBridge ------------------------------
(* A small bridge for TLC. *)
EXTENDS Bridge

CONSTANTS t1, t2, k1, k2, k3, k4, k5
=============================================================================
