\* README.md:8, for the smallest blocks.
CONSTANTS
  Counts <- MCCounts
  MayFail = FALSE
SPECIFICATION Spec
INVARIANT RootCoversTransactions
