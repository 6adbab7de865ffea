--------------------------- MODULE MC_CacheHierarchy ---------------------------
(* Two cores with one-way, one-MSHR first-level caches over a two-way LLC; *)
(* three line addresses of one set, so that both levels evict.             *)
EXTENDS CacheHierarchy, TLC

CONSTANTS c1, c2, a1, a2, a3

MCCores == {c1, c2}
MCAddrs == {a1, a2, a3}
MCSymmetry == Permutations(MCCores) \cup Permutations(MCAddrs)
====
