--------------------------- MODULE MCSingleFlight ---------------------------
(***************************************************************************)
(* TLC instance of SingleFlight: one key, three callers, and as many       *)
(* flights as can be active at once.                                       *)
(***************************************************************************)
EXTENDS SingleFlight

CONSTANTS k1, c1, c2, c3, f1, f2, f3

MCKeys == {k1}
MCCalls == {c1, c2, c3}
MCFlights == {f1, f2, f3}
=============================================================================
