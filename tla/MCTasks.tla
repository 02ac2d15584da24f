------------------------------ MODULE MCTasks ------------------------------
(***************************************************************************)
(* TLC instance of Tasks: a plain child beside the one that maps three     *)
(* items with at most two in flight, or passes them to all() or race().    *)
(***************************************************************************)
EXTENDS Tasks

CONSTANTS t1, pool

MCChildren == {t1, pool}
=============================================================================
