------------------------------ MODULE MC_SMDRsq ------------------------------
(* Model values for SMDRsq: two chips of one rank, so that one chip's lock  *)
(* can race the controller while the other stays free, one bank with two   *)
(* subarrays, a refresh interval of four cycles and a tracker timeout of   *)
(* half of it, as smd_timeout_to_ref_interval_ratio = 0.5 gives.           *)
EXTENDS SMDRsq

MCChips == 0 .. 1
MCBanks == {0}
MCRows == {0}
MCTwoBanks == 0 .. 1
====
