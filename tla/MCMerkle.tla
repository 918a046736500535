------------------------------ MODULE MCMerkle ------------------------------
(* Three hashes are enough to repeat one and to order them; five leaves     *)
(* give odd layers at the bottom (3, 5) and above it (5 -> 3).              *)
EXTENDS MerkleLoop

MCHash == {1, 2, 3}
=============================================================================
