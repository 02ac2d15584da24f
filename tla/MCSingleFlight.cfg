SPECIFICATION FlightSpec
CONSTANTS
  k1 = k1
  c1 = c1
  c2 = c2
  c3 = c3
  f1 = f1
  f2 = f2
  f3 = f3
  NoFlight = NoFlight
  NoKey = NoKey
  Keys <- MCKeys
  Calls <- MCCalls
  Flights <- MCFlights
CHECK_DEADLOCK FALSE
INVARIANTS
  OneOperationPerKey
