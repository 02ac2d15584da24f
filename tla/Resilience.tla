----------------------------- MODULE Resilience -----------------------------
(***************************************************************************)
(* Clients that call a flaky dependency through one circuit breaker, each  *)
(* in a retry loop of its own.  The dependency goes down and comes up; an  *)
(* operation that starts while it is up resolves with a value unless its   *)
(* caller cancels it, one that starts while it is down may do anything.    *)
(***************************************************************************)
EXTENDS Breaker, Retry

VARIABLES
  up,    \* whether the dependency works
  doomed \* running operations that began while it did not

vars == <<breakerVars, retryVars, up, doomed>>
world == <<up, doomed>>

Init == BreakerInit /\ RetryInit /\ up = TRUE /\ doomed = {}

\* The operation is called.
Attempt(c) ==
  /\ AttemptStarts(c)
  /\ Admit
  /\ Goto(c, "calling")
  /\ doomed' = IF up THEN doomed ELSE doomed \cup {c}
  /\ UNCHANGED <<aborted, up>>

\* The breaker answers in its place: CircuitOpenError, or what a throwing
\* onStateChange() makes of the probe.
AttemptDenied(c) ==
  /\ AttemptStarts(c)
  /\ Reject \/ Probe
  /\ Goto(c, "failed")
  /\ UNCHANGED <<aborted, world>>

\* The operation resolves with a value.
OperationSucceeds(c) ==
  /\ phase[c] = "calling"
  /\ Succeed
  /\ Resolve(c, "ok")
  /\ doomed' = doomed \ {c}
  /\ UNCHANGED <<aborted, up>>

\* It succeeds and closes the breaker, but onStateChange() throws.
SuccessLost(c) ==
  /\ phase[c] = "calling"
  /\ SucceedHalfOpen /\ state' = "closed"
  /\ Goto(c, "failed")
  /\ doomed' = doomed \ {c}
  /\ UNCHANGED <<aborted, up>>

\* It fails, with an error that counts or with one that shouldTrip() ignores.
OperationFails(c) ==
  /\ phase[c] = "calling"
  /\ c \in doomed \cup aborted
  /\ Fail \/ UNCHANGED breakerVars
  /\ Goto(c, "failed")
  /\ doomed' = doomed \ {c}
  /\ UNCHANGED <<aborted, up>>

BreakerOnly == Tick \/ CloseBreaker
RetryOnly(c) == RetryStep(c) \/ Begin(c) \/ Abort(c)
OutageBeginsOrEnds == up' = ~up /\ UNCHANGED <<breakerVars, retryVars, doomed>>

Next ==
  \/ \E c \in Clients :
       \/ Attempt(c) \/ AttemptDenied(c)
       \/ OperationSucceeds(c) \/ SuccessLost(c) \/ OperationFails(c)
       \/ RetryOnly(c) /\ UNCHANGED <<breakerVars, world>>
  \/ BreakerOnly /\ UNCHANGED <<retryVars, world>>
  \/ OutageBeginsOrEnds

Spec == Init /\ [][Next]_vars

\* The loop goes on when it can, timers fire, hooks return, and every
\* operation settles; time passes.
Proceeds(c) ==
  \/ Attempt(c) \/ AttemptDenied(c)
  \/ RetryStep(c) /\ UNCHANGED <<breakerVars, world>>
Settles(c) == OperationSucceeds(c) \/ SuccessLost(c) \/ OperationFails(c)

FairSpec ==
  /\ Spec
  /\ \A c \in Clients : WF_vars(Proceeds(c)) /\ WF_vars(Settles(c))
  /\ WF_vars(Tick /\ UNCHANGED <<retryVars, world>>)

-----------------------------------------------------------------------------
TypeOK == BreakerTypeOK /\ RetryTypeOK /\ doomed \subseteq Clients /\ up \in BOOLEAN

\* Once its signal has fired, a loop never starts another attempt, wherever
\* the signal found it.
NoAttemptAfterAbort ==
  [][\A c \in aborted : phase'[c] = "calling" => phase[c] = "calling"]_vars

\* Every loop ends: with a value, with the last error or with the abort.
LoopsEnd == \A c \in Clients : phase[c] = "ready" ~> phase[c] = "idle"

\* When the dependency stays up and clients keep trying, the breaker ends up
\* closed for good: neither the results of calls from before nor a throwing
\* observer can keep it open.
Traffic == \E c \in Clients \ aborted : phase[c] = "ready"
Recovers == (<>[]up /\ []<>Traffic) => <>[](state = "closed")
=============================================================================
