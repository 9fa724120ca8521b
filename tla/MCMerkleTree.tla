---------------------------- MODULE MCMerkleTree ----------------------------
(* Instances of MerkleTree for TLC. *)
EXTENDS MerkleTree

\* No transaction, one, even and odd numbers of them, powers of two.
MCCounts == 0 .. 9
=============================================================================
