\* README.md:7 "blocks that link to each other", when library calls may fail.
CONSTANTS
  Addr = {a1, a2, a3}
  Null = Null
  Genesis = Genesis
  tx1 = tx1
  tx2 = tx2
  TxLists <- MCSomeTxLists
  Times = {1}
  MayFail = TRUE
SPECIFICATION Spec
INVARIANT BlocksLinkToEachOther
