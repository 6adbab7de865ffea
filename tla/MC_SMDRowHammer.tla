---------------------------- MODULE MC_SMDRowHammer ----------------------------
EXTENDS SMDRowHammer

\* Two rows of bank 1: keys 1 and 17, which set Q words 0 and 4.
MCRows == 0 .. 1

====
