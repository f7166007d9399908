--------------------------- MODULE MC_Replication ---------------------------
EXTENDS Replication

CONSTANTS k1, k2, v1, v2
=============================================================================
