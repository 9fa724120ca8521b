---------------------------- MODULE MCBlockchain ----------------------------
(* Instances of Blockchain for TLC. *)
EXTENDS Blockchain, TLC

CONSTANTS tx1, tx2

\* No, one and two transactions: the three cases create_tree tells apart.
MCTxLists == {<<>>, <<tx1>>, <<tx1, tx2>>}

\* Lists with different first transactions.
MCSomeTxLists == {<<tx1>>, <<tx2>>, <<tx1, tx2>>}

\* malloc may return any free address, so addresses are interchangeable.
AddrSymmetry == Permutations(Addr)
=============================================================================
