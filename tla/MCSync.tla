------------------------------- MODULE MCSync -------------------------------
(* Two syncs, in any direction, between a warehouse that ingests twice and *)
(* one that ingests once.                                                  *)
EXTENDS SyncInv, TLC

FewRuns == [d \in Warehouses |-> IF d = "local" THEN 2 ELSE 1]
SyncSymmetry == Permutations(Syncers)
=============================================================================
