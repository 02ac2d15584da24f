------------------------------ MODULE MCQueue ------------------------------
(***************************************************************************)
(* TLC instance of Queue: four offers against a buffer of two, so that a   *)
(* clear can release two waiting offers at once, one abortable take, one   *)
(* for-await loop, and a signal on one offer and on the take.              *)
(***************************************************************************)
EXTENDS Queue

CONSTANTS o1, o2, o3, o4, t1, i1

MCOffers == {o1, o2, o3, o4}
MCTakes == {t1}
MCIterators == {i1}
MCSignalled == {o3, t1}
=============================================================================
