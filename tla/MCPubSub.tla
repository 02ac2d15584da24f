------------------------------ MODULE MCPubSub ------------------------------
(***************************************************************************)
(* TLC instance of PubSub: two subscriptions with a buffer of one message, *)
(* two replayed messages (more than the buffer holds) and four messages.   *)
(***************************************************************************)
EXTENDS PubSub

CONSTANTS s1, s2

MCSubscriptions == {s1, s2}
=============================================================================
