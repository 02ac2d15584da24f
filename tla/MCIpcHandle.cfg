SPECIFICATION Spec
CONSTANTS
  r1 = r1
  r2 = r2
  c1 = c1
  c2 = c2
  plain = plain
  Calls = {c1, plain}
  Renderers = {r1, r2}
  RendererOf <- OneAbortable
  Signalled = {c1}
  Plain = {plain}
  MaxRegistrations = 1
CHECK_DEADLOCK FALSE
INVARIANTS
  AbortReachesHandler
