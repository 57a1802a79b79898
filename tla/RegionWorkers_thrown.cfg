SPECIFICATION Spec
CONSTANTS
  o1 = o1
  r1 = r1
  Workers = {w1}
  Objects = {o1}
  Regions = {r1}
  RegionOf <- MCRegionOf
  Kinds <- MCPut
  NoWork = NoWork
CHECK_DEADLOCK FALSE
INVARIANTS
  ThrownStoresNothing
