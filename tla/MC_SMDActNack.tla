---------------------------- MODULE MC_SMDActNack ----------------------------
EXTENDS SMDActNack

\* Three chips of the rank.
MCChips == 0 .. 2

====
