------------------------------ MODULE MCCache ------------------------------
(***************************************************************************)
(* TLC instance of Cache: three keys compete for two entries, two callers  *)
(* with as many flights, and a clock that outlasts a time to live.  Keys,  *)
(* callers and flights are interchangeable.                                *)
(***************************************************************************)
EXTENDS Cache, TLC

CONSTANTS k1, k2, k3, c1, c2, f1, f2

MCKeys == {k1, k2, k3}
MCCalls == {c1, c2}
MCFlights == {f1, f2}

MCSymmetry ==
  Permutations(MCKeys) \cup Permutations(MCCalls) \cup Permutations(MCFlights)
=============================================================================
