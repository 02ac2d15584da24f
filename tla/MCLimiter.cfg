SPECIFICATION FairSpec
CONSTANTS
  c1 = c1
  c2 = c2
  c3 = c3
  Clients <- MCClients
  AbortableClients <- MCAbortableClients
  Permits = 1
  Limit = 2
  Interval = 2
  MaxTime = 3
  MaxTakes = 4
INVARIANTS
  PermitConservation
  NoIdlePermit
  SlotsSpaced
PROPERTIES
  FirstComeFirstServed
  NoStartAfterAbort
  LineMoves
