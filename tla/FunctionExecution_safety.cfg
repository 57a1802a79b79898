SPECIFICATION FairSpec
CONSTANTS
  Calls = {c1, c2}
  Feeders = {f1, f2}
  Results = {r1, r2}
  MaxResults = 2
  PoolSize = 1
  NoCall = NoCall
INVARIANTS
  TypeOK
  Conservation
  EndMeansComplete
  NotStranded
  NoLostWakeup
  NoUseAfterFree
  Inv
PROPERTIES
  SilentAfterTerminal
  StreamSpec
  EveryCallCompletes
