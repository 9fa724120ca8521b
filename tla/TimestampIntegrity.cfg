\* README.md:9 "block and transaction integrity", for the timestamp.
CONSTANTS
  Addr = {a1, a2, a3}
  Null = Null
  Genesis = Genesis
  tx1 = tx1
  TxLists <- MCTxLists
  Times = {1, 2}
  MayFail = FALSE
  MaxWrites = 1
SYMMETRY AddrSymmetry
SPECIFICATION TSpec
INVARIANT AcceptedMeansSameTime
