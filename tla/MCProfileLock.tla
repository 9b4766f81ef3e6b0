---------------------------- MODULE MCProfileLock ----------------------------
(* Model values and symmetry for TLC runs of ProfileLock. *)
EXTENDS ProfileLock, TLC

CONSTANTS p1, p2, c1, c2, d1, d2, d3

MCSymmetry == Permutations(Pods) \cup Permutations(Chats) \cup Permutations(Drivers)
=============================================================================
