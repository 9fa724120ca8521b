\* Every library call may fail, and create_block may get an empty list.
CONSTANTS
  Addr = {a1, a2, a3}
  Null = Null
  Genesis = Genesis
  tx1 = tx1
  tx2 = tx2
  TxLists <- MCTxLists
  Times = {1}
  MayFail = TRUE
SYMMETRY AddrSymmetry
SPECIFICATION Spec
INVARIANTS
  TypeOK
  ListShape
  NoBlockLeaks
  CursorInChain
  CrashOnlyWhenDegraded
  LinksHold
  VerdictIsRight
PROPERTIES
  ImplementsLedger
