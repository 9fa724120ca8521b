\* Up to two overwrites, of pointers too, on chains of up to three blocks.
CONSTANTS
  Addr = {a1, a2, a3}
  Null = Null
  Genesis = Genesis
  tx1 = tx1
  TxLists <- MCTxLists
  Times = {1, 2}
  MayFail = FALSE
  MaxWrites = 2
SYMMETRY AddrSymmetry
SPECIFICATION TSpec
INVARIANTS AcceptedMeansLinked NoBlockSeenTwice AcceptedMeansUntouched
