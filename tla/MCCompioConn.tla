---------------------------- MODULE MCCompioConn ----------------------------
(* CompioConn with two call identities, batches of two and two chunks. *)
EXTENDS CompioConn
=============================================================================
