----------------------------- MODULE MC_SMDLocks -----------------------------
(* Model values for SMDLocks: one chip with two banks of two subarrays, so *)
(* that two policies can want the same bank while a third works elsewhere. *)
EXTENDS SMDLocks

MCBanks == 0 .. 1
MCRows == {0}
MCAllPolicies == {"ref", "scrub", "rh"}
MCRefScrub == {"ref", "scrub"}
====
