SPECIFICATION FairSpec
CONSTANTS
  c1 = c1
  c2 = c2
  Clients <- MCClients
  AbortableClients <- MCAbortableClients
  Loops <- MCLoops
  FailureThreshold = 2
  SuccessThreshold = 2
  Cooldown = 1
  MaxAttempts = 2
  Backoff <- MCBackoff
  IntervalMs = 1
  Policy <- MCPolicy
  ElapsedMs = {0, 5}
  JitterResults <- MCJitterResults
INVARIANTS
  CountersMatchState
  WithinOptions
PROPERTIES
  NoAttemptAfterAbort
  LoopsEnd
  Recovers
