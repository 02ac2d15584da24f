------------------------------ MODULE Breaker ------------------------------
(***************************************************************************)
(* The circuit breaker of src/breaker.ts (createCircuitBreaker).  A call   *)
(* is admitted in one state of the breaker and its result is applied in    *)
(* whatever state the breaker has by then, so any number of calls may be   *)
(* under way at every transition.                                          *)
(*                                                                         *)
(* Two numbers are cut where the code cannot tell them apart: the failure  *)
(* count at FailureThreshold, the time since openedAt at Cooldown.  The    *)
(* clock does not go backwards here.                                       *)
(***************************************************************************)
EXTENDS Naturals

CONSTANTS
  FailureThreshold, \* options.failureThreshold
  SuccessThreshold, \* options.successThreshold
  Cooldown          \* options.cooldownMs, in clock ticks

ASSUME BreakerAssumption ==
  /\ FailureThreshold \in Nat \ {0}
  /\ SuccessThreshold \in Nat \ {0}
  /\ Cooldown \in Nat

VARIABLES
  state,
  failureCount,
  halfOpenSuccessCount,
  elapsed, \* time since openedAt, at most Cooldown
  openFor  \* history: time since the breaker last became open, at most Cooldown

breakerVars == <<state, failureCount, halfOpenSuccessCount, elapsed, openFor>>

BreakerInit ==
  /\ state = "closed"
  /\ failureCount = 0 /\ halfOpenSuccessCount = 0
  /\ elapsed = Cooldown /\ openFor = Cooldown

\* Cuts a number at a bound beyond which its value makes no difference.
UpTo(bound, n) == IF n <= bound THEN n ELSE bound

Cooled == elapsed >= Cooldown

\* Erroneous variant: open() leaves openedAt at the first failure.
OpenWithoutCooldown ==
  /\ state' = "open"
  /\ elapsed' = elapsed
  /\ halfOpenSuccessCount' = 0
  /\ openFor' = IF state = "open" THEN openFor ELSE 0

\* open(), also when the breaker is open already.
Open ==
  /\ state' = "open"
  /\ elapsed' = 0
  /\ halfOpenSuccessCount' = 0
  /\ openFor' = IF state = "open" THEN openFor ELSE 0

\* close(), which reset() is.
CloseBreaker ==
  /\ state' = "closed"
  /\ failureCount' = 0 /\ halfOpenSuccessCount' = 0
  /\ UNCHANGED <<elapsed, openFor>>

\* run() up to the operation.
Reject == state = "open" /\ ~Cooled /\ UNCHANGED breakerVars

\* The first call after the cooldown; onStateChange may throw here, so that
\* run() rejects and the operation is never called.
Probe ==
  /\ state = "open" /\ Cooled
  /\ state' = "half-open"
  /\ UNCHANGED <<failureCount, halfOpenSuccessCount, elapsed, openFor>>

\* Erroneous variant: every call admitted half-open starts the count afresh.
AdmitRestarts ==
  \/ Probe
  \/ state = "closed" /\ UNCHANGED breakerVars
  \/ /\ state = "half-open" /\ halfOpenSuccessCount' = 0
     /\ UNCHANGED <<state, failureCount, elapsed, openFor>>

Admit == Probe \/ (state # "open" /\ UNCHANGED breakerVars)

\* The operation resolved with a value.
SucceedHalfOpen ==
  /\ state = "half-open"
  /\ \/ /\ halfOpenSuccessCount + 1 >= SuccessThreshold
        /\ CloseBreaker
     \/ /\ halfOpenSuccessCount + 1 < SuccessThreshold
        /\ halfOpenSuccessCount' = halfOpenSuccessCount + 1
        /\ UNCHANGED <<state, failureCount, elapsed, openFor>>

Succeed ==
  \/ SucceedHalfOpen
  \/ /\ state # "half-open"
     /\ failureCount' = 0
     /\ UNCHANGED <<state, halfOpenSuccessCount, elapsed, openFor>>

\* Whether a failure opens the breaker.
Trips(failures) == state = "half-open" \/ failures >= FailureThreshold

\* An error that shouldTrip() accepts; any other error changes nothing.
Fail ==
  /\ failureCount' = UpTo(FailureThreshold, failureCount + 1)
  /\ \/ Trips(failureCount') /\ Open
     \/ /\ ~Trips(failureCount')
        /\ halfOpenSuccessCount' = 0
        /\ UNCHANGED <<state, elapsed, openFor>>

Tick ==
  /\ elapsed < Cooldown \/ openFor < Cooldown
  /\ elapsed' = UpTo(Cooldown, elapsed + 1)
  /\ openFor' = UpTo(Cooldown, openFor + 1)
  /\ UNCHANGED <<state, failureCount, halfOpenSuccessCount>>

BreakerNext == Reject \/ Admit \/ Succeed \/ Fail \/ CloseBreaker \/ Tick

BreakerSpec == BreakerInit /\ [][BreakerNext]_breakerVars

-----------------------------------------------------------------------------
BreakerTypeOK ==
  /\ state \in {"closed", "open", "half-open"}
  /\ failureCount \in 0 .. FailureThreshold
  /\ halfOpenSuccessCount \in Nat
  /\ elapsed \in 0 .. Cooldown
  /\ openFor \in 0 .. Cooldown

\* Results of calls admitted in an older state never leave the counters at
\* odds with the state (src/breaker.ts:108-129): a closed breaker is below its
\* threshold, successes are counted in the half-open state only and never
\* reach the threshold there, and when the dependency is probed it has had a
\* whole cooldown since the breaker last became open.
CountersMatchState ==
  /\ state = "closed" => failureCount < FailureThreshold
  /\ halfOpenSuccessCount > 0 => state = "half-open"
  /\ halfOpenSuccessCount < SuccessThreshold
  /\ state = "half-open" => openFor = Cooldown
=============================================================================
