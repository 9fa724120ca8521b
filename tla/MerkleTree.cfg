\* Up to nine transactions, any library call failing.
CONSTANTS
  Counts <- MCCounts
  MayFail = TRUE
SPECIFICATION Spec
INVARIANTS
  TypeOK
  TreeAsPromised
  RootIsFirstLeaf
  AccessesInBounds
  LeftOnHeap
PROPERTY Terminates
