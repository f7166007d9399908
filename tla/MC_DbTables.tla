---------------------------- MODULE MC_DbTables ----------------------------
EXTENDS DbTables

CONSTANTS k1, k2, v1, v2
=============================================================================
