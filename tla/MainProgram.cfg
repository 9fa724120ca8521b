\* main.c with any library call failing; malloc has room for three blocks.
CONSTANTS
  Addr = {a1, a2, a3}
  Null = Null
  Genesis = Genesis
  tx1 = tx1
  tx2 = tx2
  tx3 = tx3
  tx4 = tx4
  ListOne <- MCListOne
  ListTwo <- MCListTwo
  TxLists <- MCTxLists
  Times = {1}
  MayFail = TRUE
SPECIFICATION MSpec
INVARIANTS
  ErrorsOnlyAfterFailure
  CrashOnlyAfterFailure
PROPERTIES
  MainFinishes
