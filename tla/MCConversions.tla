--------------------------- MODULE MCConversions ----------------------------
(* Bytes of three bits and values around every power of two. *)
EXTENDS Conversions

Edges == UNION {{2 ^ k + d, -(2 ^ k) + d} : k \in 0..24, d \in {-1, 0, 1}}

GroupWeights == -3..2

Days  == -60..60 \cup (Edges \cap Signed(4))
Usecs == -200..200 \cup (Edges \cap Signed(8))
=============================================================================
