SPECIFICATION Spec
CONSTANTS
  Factories = {f1, f2}
  Wrappers = {w1, w2}
  Caches = {n1, n2}
  NoWrapper = NoWrapper
  NoCache = NoCache
  Values = {v1}
  NoValue = NoValue
  Default = Default
  Settings = {"direct", "pool"}
SYMMETRY Symmetry
CHECK_DEADLOCK FALSE
INVARIANTS
  RegionRemains
