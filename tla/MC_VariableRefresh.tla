------------------------- MODULE MC_VariableRefresh -------------------------
EXTENDS VariableRefresh

====
