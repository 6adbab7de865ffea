--------------------------- MODULE MC_RequestQueues ---------------------------
(* Two banks in different bank groups, two rows, queues of two entries and *)
(* DDR4 timings scaled down with their order kept: the RD -> WR turnaround  *)
(* (nCL + nCCDS + 2 - nCWL) is longer than RD -> RD (nCCDS) and shorter     *)
(* than nRCD + nCCDS, as in DDR4-2400 (10 > 4 and 10 < 16 + 4).             *)
EXTENDS RequestQueues

CONSTANTS b1, b2

MCBanks == {b1, b2}
MCRows == {0, 1}

====
