SPECIFICATION Spec
CONSTANTS
  k1 = k1
  k2 = k2
  k3 = k3
  c1 = c1
  c2 = c2
  f1 = f1
  f2 = f2
  NoFlight = NoFlight
  NoKey = NoKey
  Keys <- MCKeys
  Calls <- MCCalls
  Flights <- MCFlights
  MaxSize = 2
  TTL = 2
  MaxTime = 3
PROPERTIES
  DeleteRemovesLoad
SYMMETRY MCSymmetry
