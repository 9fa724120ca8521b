\* Two threads that fetch and two that load and unload two providers; a flush of
\* the cache is due after every entry.
CONSTANTS
  Providers = {p1, p2}
  Fetchers = {f1, f2}
  Loaders = {l1, l2}
  Queries = {q1}
  Matches <- MCMatches
  Methods = {m1, m2, m3}
  None = None
  Threshold = 1
  MayFail = TRUE
SYMMETRY ThreadSymmetry
SPECIFICATION Spec
INVARIANTS
  MethodRefsExact
  CacheCounted
  InUseStaysActive
  ConstructedMeansStored
