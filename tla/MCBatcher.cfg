SPECIFICATION BatcherFairSpec
CONSTANTS
  c1 = c1
  c2 = c2
  c3 = c3
  c4 = c4
  Clients <- MCClients
  AbortableClients <- MCAbortableClients
  MaxBatchSize = 3
CHECK_DEADLOCK FALSE
INVARIANTS
  OwnValue
  NobodyForgotten
PROPERTIES
  Answered
