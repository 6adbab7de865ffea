------------------------------ MODULE MC_Graphene ------------------------------
EXTENDS Graphene

====
