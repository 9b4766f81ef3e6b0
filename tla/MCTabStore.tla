------------------------------ MODULE MCTabStore ------------------------------
(* Model values and symmetry for TLC runs of TabStore. *)
EXTENDS TabStore, TLC

CONSTANTS u1, u2, th1, th2, th3, i1, i2, i3, i4

MCSymmetry == Permutations(Urls) \cup Permutations(Threads) \cup Permutations(Inodes)
=============================================================================
