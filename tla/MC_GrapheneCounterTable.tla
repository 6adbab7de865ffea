------------------------ MODULE MC_GrapheneCounterTable ------------------------
EXTENDS GrapheneCounterTable

MCRows == 0 .. 5

====
