\* Two contexts, two methods, and a provider context for each of the contexts.
CONSTANTS
  Ctxs = {c1, c2}
  Mds = {m1, m2}
  Static = s1
  Implicit = m1
  Algs = {a1, a2}
  Chunks = {d1}
  None = None
  Garbled = Garbled
  MaxData = 1
  MaxRefs = 2
SYMMETRY ContextSymmetry
SPECIFICATION Spec
INVARIANTS
  RefsExact
  AlgctxOwned
  NoUseAfterFree
PROPERTIES
  DigestsWhatWasFed
