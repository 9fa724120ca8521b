------------------------- MODULE MCCreateBlockSteps -------------------------
(* An instance of CreateBlockSteps for TLC. *)
EXTENDS CreateBlockSteps

CONSTANTS tx1, tx2, tx3

\* No transaction, and three: a malloc can fail before, in and after the
\* middle of the loop.
MCTxLists == {<<>>, <<tx1>>, <<tx1, tx2, tx3>>}
=============================================================================
