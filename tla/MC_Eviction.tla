---------------------------- MODULE MC_Eviction ----------------------------
EXTENDS Eviction, TLC

CONSTANTS k1, k2, k3, vs, vb, a, b

MCKeyLen == (k1 :> 1) @@ (k2 :> 2) @@ (k3 :> 1)
=============================================================================
