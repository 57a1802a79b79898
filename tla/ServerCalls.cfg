SPECIFICATION FairSpec
CONSTANTS
  q1 = q1
  q2 = q2
  p1 = p1
  p2 = p2
  Queries = {q1, q2}
  Functions = {f1}
  Pools = {p1, p2}
  DefaultPool = p1
  FirstPool = p1
  Answers <- MCAnswers
  QueryArgs <- MCQueryArgs
  FunctionArgs <- MCFunctionArgs
  NoPool = NoPool
  None = None
  MaxEach = 2
INVARIANTS
  TypeOK
  ServedAsAsked
  Inv
PROPERTIES
  EachHearsAll
  EveryQueryReported
