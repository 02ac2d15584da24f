------------------------------- MODULE MCIpc -------------------------------
(***************************************************************************)
(* TLC instances of Ipc: one renderer with two requests that have signals, *)
(* beside another with a plain call, or with one such request only; or two *)
(* renderers with one request each that has a signal.                      *)
(***************************************************************************)
EXTENDS Ipc

CONSTANTS r1, r2, c1, c2, plain

OneAbortable == [call \in Calls |-> IF call = plain THEN r2 ELSE r1]
TwoRenderers == [call \in Calls |-> IF call = c1 THEN r1 ELSE r2]
=============================================================================
