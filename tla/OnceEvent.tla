----------------------------- MODULE OnceEvent -----------------------------
(***************************************************************************)
(* onceEvent() of src/event.ts: a promise for the first of an event, an    *)
(* error event and an abort.  The source is an EventTarget or an           *)
(* EventEmitter, with or without rejectOn.  An emitter need offer no way   *)
(* to take a listener off, which then stays until its event comes.         *)
(***************************************************************************)

VARIABLES
  listeners,   \* which of its listeners are registered
  removable,   \* whether the source has a way to take listeners off
  eventOutcome

eventVars == <<listeners, removable, eventOutcome>>

EventInit == listeners = {} /\ removable \in BOOLEAN /\ eventOutcome = "none"

\* Erroneous variant: a signal that has fired already is listened to.
OnceEventUnchecked(preAborted) ==
  /\ eventOutcome = "none" /\ eventOutcome' = "pending"
  /\ listeners' \in {{"abort", "event"}, {"abort", "event", "rejectOn"}}
  /\ UNCHANGED removable

\* A signal that has fired rejects the promise before anything is registered.
OnceEvent(preAborted) ==
  /\ eventOutcome = "none"
  /\ \/ preAborted /\ eventOutcome' = "aborted" /\ UNCHANGED listeners
     \/ /\ ~preAborted
        /\ eventOutcome' = "pending"
        /\ listeners' \in {{"abort", "event"}, {"abort", "event", "rejectOn"}}
  /\ UNCHANGED removable

\* cleanup, by the listener that its source has dropped as it called it
RemoveListeners(called) ==
  listeners' = IF removable THEN {} ELSE listeners \ {"abort", called}

\* settle: a listener that was left behind finds the promise settled.
SettleEvent(called, result) ==
  /\ called \in listeners
  /\ \/ eventOutcome = "pending" /\ eventOutcome' = result /\ RemoveListeners(called)
     \/ eventOutcome # "pending" /\ listeners' = listeners \ {called} /\ UNCHANGED eventOutcome
  /\ UNCHANGED removable

EventArrives == SettleEvent("event", "value")
ErrorArrives == SettleEvent("rejectOn", "error")

\* onAbort, when the signal fires
EventAbort ==
  \/ SettleEvent("abort", "aborted")
  \/ "abort" \notin listeners /\ UNCHANGED eventVars

EventTypeOK ==
  /\ listeners \subseteq {"abort", "event", "rejectOn"}
  /\ removable \in BOOLEAN
  /\ eventOutcome \in {"none", "pending", "value", "error", "aborted"}
=============================================================================
