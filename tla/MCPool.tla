------------------------------- MODULE MCPool -------------------------------
(* Pool with three clients for two permits, of either pool. *)
EXTENDS Pool, TLC

Symmetry == Permutations(Clients) \cup Permutations(Conns)
=============================================================================
