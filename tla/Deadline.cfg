SPECIFICATION FairSpec
CONSTANTS
  MaxOutputBytes = 2
  ChunkSizes = {1, 2}
  MaxProduced = 4
  N = 5
  Concurrency = 3
  Source = Source
  Nothing = Nothing
CHECK_DEADLOCK FALSE
INVARIANTS
  HonestOutcome
  EachLayerCleansUp
  NothingLeftBehind
PROPERTIES
  NoWorkOnceCut
  CallEnds
