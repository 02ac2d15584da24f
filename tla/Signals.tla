------------------------------ MODULE Signals ------------------------------
(***************************************************************************)
(* The callers of a yieldless primitive and their AbortSignals.  A signal  *)
(* fires at most once and stays aborted; what firing does to a pending     *)
(* call is the abort listener each primitive registers.                    *)
(***************************************************************************)
EXTENDS FiniteSets

CONSTANTS
  Clients,
  AbortableClients \* clients that pass options.signal

ASSUME SignalsAssumption ==
  /\ IsFiniteSet(Clients)
  /\ AbortableClients \subseteq Clients

VARIABLE aborted   \* clients whose signal has fired

Fire(c) ==
  /\ c \in AbortableClients \ aborted
  /\ aborted' = aborted \cup {c}
=============================================================================
