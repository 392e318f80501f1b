----------------------------- MODULE MCLeastConn -----------------------------
(* A small upstream block for TLC. *)
EXTENDS LeastConn, TLC

Mixed    == <<3, 1, 2>>
Symmetry == Permutations(Requests)
=============================================================================
