SPECIFICATION FairSpec
CONSTANTS
  o1 = o1
  r1 = r1
  Workers = {w1, w2}
  Objects = {o1}
  Regions = {r1}
  RegionOf <- MCRegionOf
  Kinds <- MCAllKinds
  NoWork = NoWork
CHECK_DEADLOCK FALSE
INVARIANTS
  TypeOK
  RegionObjectAlive
  ReportsExplainContents
  ReportedPutIsFound
  Inv
PROPERTIES
  EveryOperationReported
