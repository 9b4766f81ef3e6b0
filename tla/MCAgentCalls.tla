--------------------------- MODULE MCAgentCalls ---------------------------
(* Model values and symmetry for TLC runs of AgentCalls. *)
EXTENDS AgentCalls, TLC

CONSTANTS v1, a1, a2, site, t1, t2, t3, t4, t5, p1, p2

MCSymmetry == Permutations(Tabs) \cup Permutations(Pumps) \cup Permutations(Agents)
=============================================================================
