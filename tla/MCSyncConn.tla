----------------------------- MODULE MCSyncConn -----------------------------
(* SyncConn with two call identities. *)
EXTENDS SyncConn, TLC

Symmetry == Permutations(Requests)
=============================================================================
