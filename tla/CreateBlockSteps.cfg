\* Two blocks: one to append to an existing chain, and an exhausted heap.
CONSTANTS
  Addr = {a1, a2}
  Null = Null
  Genesis = Genesis
  tx1 = tx1
  tx2 = tx2
  tx3 = tx3
  TxLists <- MCTxLists
  Times = {1}
  MayFail = TRUE
SPECIFICATION SSpec
INVARIANTS
  BuffersBalanced
PROPERTIES
  ImplementsBlockchain
  CallsReturn
  DestroyReleasesAll
