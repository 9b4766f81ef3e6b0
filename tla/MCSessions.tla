----------------------------- MODULE MCSessions -----------------------------
(* Model values and symmetry for TLC runs of Sessions. *)
EXTENDS Sessions, TLC

CONSTANTS a1, v1, v2, d1, d2, d3, d4, d5, l1, l2, l3, l4, chatA, chatB

\* Every identity is interchangeable when no property names one.
MCSymmetry == Permutations(Drivers) \cup Permutations(Locks)
                 \cup Permutations(Viewers) \cup Permutations(Agents)
                 \cup Permutations(Chats)

\* Where a property names a chat, drivers and locks still are.
PoolSymmetry == Permutations(Drivers) \cup Permutations(Locks)

\* Chat A's browser lives as ChatBrowser says.
PromiseA == INSTANCE ChatBrowser
              WITH Users <- Callers, life <- LifeOf(chatA), users <- UsersOf(chatA)
ChatAKeepsPromise == PromiseA!Spec
=============================================================================
