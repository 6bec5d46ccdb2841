----------------------------- MODULE MCSyncQueue -----------------------------
(* Small sets of threads for model-checking SyncQueue. *)
EXTENDS SyncQueue, TLC

Symmetry == Permutations(Threads)
=============================================================================
