--------------------------- MODULE MCMainProgram ----------------------------
(* An instance of MainProgram for TLC. *)
EXTENDS MainProgram, TLC

CONSTANTS tx1, tx2, tx3, tx4

MCListOne == <<tx1, tx2>>
MCListTwo == <<tx3, tx4>>
MCTxLists == {MCListOne, MCListTwo}
=============================================================================
