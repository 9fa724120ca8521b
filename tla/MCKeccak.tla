------------------------------ MODULE MCKeccak ------------------------------
(* Instances of Keccak for TLC. *)
EXTENDS Keccak
=============================================================================
