SPECIFICATION Spec
CONSTANTS
  Calls = {c1}
  Feeders = {f1}
  Results = {r1}
  MaxResults = 1
  PoolSize = 1
  NoCall = NoCall
INVARIANTS
  EveryResultEmitted
