----------------------------- MODULE MCBatcher -----------------------------
(***************************************************************************)
(* TLC instance of Batcher: four loads, three of which may be aborted, in  *)
(* batches of at most three.                                               *)
(***************************************************************************)
EXTENDS Batcher

CONSTANTS c1, c2, c3, c4

MCClients == {c1, c2, c3, c4}
MCAbortableClients == {c1, c2, c3}
=============================================================================
