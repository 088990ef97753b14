---------------------------- MODULE MCCompioPool ----------------------------
(* CompioPool with three clients and three connections. *)
EXTENDS CompioPool, TLC

Symmetry == Permutations(Clients) \cup Permutations(Conns)
=============================================================================
