----------------------------- MODULE MCLimiter -----------------------------
(***************************************************************************)
(* TLC instance of Limiter: three clients, one of them abortable, one      *)
(* permit, and windows of two slots over a clock that outlasts two windows *)
(* and may be set back.                                                    *)
(***************************************************************************)
EXTENDS Limiter

CONSTANTS c1, c2, c3

MCClients == {c1, c2, c3}
MCAbortableClients == {c1}
=============================================================================
