---------------------------- MODULE MCTampering -----------------------------
(* Instances of Tampering for TLC. *)
EXTENDS Tampering, TLC

CONSTANT tx1

\* A text of its own, and the text of the genesis block.
MCTxLists == {<<tx1>>, <<Genesis>>}

AddrSymmetry == Permutations(Addr)
=============================================================================
