SPECIFICATION FairSpec
CONSTANTS
  t1 = t1
  pool = pool
  Body = Body
  Nobody = Nobody
  Children <- MCChildren
  Pool = pool
  N = 3
  Concurrency = 2
CHECK_DEADLOCK FALSE
INVARIANTS
  StructuredTree
  HonestResult
  LimitKept
PROPERTIES
  NoStartOnceAborted
  GroupEnds
