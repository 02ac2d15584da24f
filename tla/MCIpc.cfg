SPECIFICATION FairSpec
CONSTANTS
  r1 = r1
  r2 = r2
  c1 = c1
  c2 = c2
  plain = plain
  Calls = {c1, c2, plain}
  Renderers = {r1, r2}
  RendererOf <- OneAbortable
  Signalled = {c1, c2}
  Plain = {plain}
  MaxRegistrations = 2
CHECK_DEADLOCK FALSE
INVARIANTS
  NoWorkInVain
  CancelHitsOwn
  TableExact
PROPERTIES
  CallsSettle
