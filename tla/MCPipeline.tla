----------------------------- MODULE MCPipeline -----------------------------
(* Pipeline with three identities, for the handle and up to two statements, and for *)
(* the calls of the connection, with batches of two and two chunks.                *)
EXTENDS Pipeline, TLC

Symmetry == Permutations(Requests)
=============================================================================
