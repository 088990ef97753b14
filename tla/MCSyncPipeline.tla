--------------------------- MODULE MCSyncPipeline ---------------------------
(* SyncPipeline with three identities: the handle and up to two statements. *)
EXTENDS SyncPipeline, TLC

Symmetry == Permutations(Requests)
=============================================================================
