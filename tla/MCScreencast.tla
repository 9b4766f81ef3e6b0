---------------------------- MODULE MCScreencast ----------------------------
(* Model values and symmetry for TLC runs of Screencast. *)
EXTENDS Screencast, TLC

CONSTANTS v1, v2, a1, site, t1, t2, t3, p1, p2, p3, t4, t5

MCSymmetry == Permutations(Tabs) \cup Permutations(Pumps) \cup Permutations(Viewers)
=============================================================================
