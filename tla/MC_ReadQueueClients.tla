-------------------------- MODULE MC_ReadQueueClients --------------------------
EXTENDS ReadQueueClients

====
