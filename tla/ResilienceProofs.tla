-------------------------- MODULE ResilienceProofs --------------------------
(***************************************************************************)
(* Proofs about the circuit breaker, alone and under any clients in any    *)
(* retry loops: the counters always agree with the state.                  *)
(***************************************************************************)
EXTENDS Resilience, TLAPS

\* openedAt is never older than the moment the breaker became open.
BreakerInv == BreakerTypeOK /\ CountersMatchState /\ elapsed <= openFor

\* A number that is cut at a bound lies within the bound.
LEMMA UpToBounds ==
  ASSUME NEW bound \in Nat, NEW n \in Nat
  PROVE  UpTo(bound, n) \in 0 .. bound /\ UpTo(bound, n) <= n
BY DEF UpTo

\* A breaker is created closed, with its counters at zero.
LEMMA BreakerInitially == BreakerInit => BreakerInv
BY BreakerAssumption DEF BreakerInit, BreakerInv, BreakerTypeOK, CountersMatchState

\* open() starts the cooldown, in whatever state it finds the breaker.
LEMMA OpenKeeps ==
  ASSUME BreakerInv, Open, failureCount' \in 0 .. FailureThreshold PROVE BreakerInv'
BY BreakerAssumption DEF Open, BreakerInv, BreakerTypeOK, CountersMatchState

\* close() and reset() clear both counters.
LEMMA CloseKeeps == ASSUME BreakerInv, CloseBreaker PROVE BreakerInv'
BY BreakerAssumption DEF CloseBreaker, BreakerInv, BreakerTypeOK, CountersMatchState

\* A call is let through, which may make an open breaker half-open.
LEMMA AdmitKeeps == ASSUME BreakerInv, Admit PROVE BreakerInv'
<1>1. CASE Probe
  BY <1>1, BreakerAssumption
     DEF Probe, Cooled, BreakerInv, BreakerTypeOK, CountersMatchState
<1>2. CASE UNCHANGED breakerVars
  BY <1>2 DEF breakerVars, BreakerInv, BreakerTypeOK, CountersMatchState
<1> QED
  BY <1>1, <1>2 DEF Admit

\* A success is counted in the state it arrives in.
LEMMA SucceedKeeps == ASSUME BreakerInv, Succeed PROVE BreakerInv'
<1>1. CASE CloseBreaker
  BY <1>1, CloseKeeps
<1>2. CASE /\ state = "half-open"
           /\ halfOpenSuccessCount + 1 < SuccessThreshold
           /\ halfOpenSuccessCount' = halfOpenSuccessCount + 1
           /\ UNCHANGED <<state, failureCount, elapsed, openFor>>
  BY <1>2, BreakerAssumption DEF BreakerInv, BreakerTypeOK, CountersMatchState
<1>3. CASE /\ state # "half-open"
           /\ failureCount' = 0
           /\ UNCHANGED <<state, halfOpenSuccessCount, elapsed, openFor>>
  BY <1>3, BreakerAssumption DEF BreakerInv, BreakerTypeOK, CountersMatchState
<1> QED
  BY <1>1, <1>2, <1>3 DEF Succeed, SucceedHalfOpen

\* A failure trips the breaker or is counted.
LEMMA FailKeeps == ASSUME BreakerInv, Fail PROVE BreakerInv'
<1>1. failureCount' \in 0 .. FailureThreshold
  BY UpToBounds, BreakerAssumption DEF Fail, BreakerInv, BreakerTypeOK
<1>2. CASE Open
  BY <1>1, <1>2, OpenKeeps
<1>3. CASE /\ ~Trips(failureCount')
           /\ halfOpenSuccessCount' = 0
           /\ UNCHANGED <<state, elapsed, openFor>>
  BY <1>1, <1>3, BreakerAssumption DEF Trips, BreakerInv, BreakerTypeOK, CountersMatchState
<1> QED
  BY <1>2, <1>3 DEF Fail

\* Time passes for a breaker that is open.
LEMMA TickKeeps == ASSUME BreakerInv, Tick PROVE BreakerInv'
<1>1. elapsed' \in 0 .. Cooldown /\ openFor' \in 0 .. Cooldown /\ elapsed' <= openFor'
  BY BreakerAssumption DEF Tick, UpTo, BreakerInv, BreakerTypeOK
<1>2. openFor = Cooldown => openFor' = Cooldown
  BY BreakerAssumption DEF Tick, UpTo
<1> QED
  BY <1>1, <1>2 DEF Tick, BreakerInv, BreakerTypeOK, CountersMatchState

\* The breaker's invariant is inductive.
LEMMA BreakerKeeps == BreakerInv /\ [BreakerNext]_breakerVars => BreakerInv'
<1>1. BreakerInv /\ UNCHANGED breakerVars => BreakerInv'
  BY DEF breakerVars, BreakerInv, BreakerTypeOK, CountersMatchState
<1> QED
  BY <1>1, AdmitKeeps, SucceedKeeps, FailKeeps, CloseKeeps, TickKeeps DEF BreakerNext, Reject

\* Results that arrive in any order, from calls admitted in any state, never
\* leave the counters at odds with the state (src/breaker.ts:91-132).
THEOREM BreakerSafe == BreakerSpec => [](BreakerTypeOK /\ CountersMatchState)
<1>1. BreakerInv => BreakerTypeOK /\ CountersMatchState
  BY DEF BreakerInv
<1> QED
  BY <1>1, BreakerInitially, BreakerKeeps, PTL DEF BreakerSpec

\* Clients in retry loops only ever take the steps of the breaker.
LEMMA UsesBreaker == [Next]_vars => [BreakerNext]_breakerVars
<1> SUFFICES ASSUME [Next]_vars PROVE [BreakerNext]_breakerVars
  OBVIOUS
<1>1. ASSUME NEW c \in Clients, Attempt(c) PROVE BreakerNext
  BY <1>1 DEF Attempt, BreakerNext
<1>2. ASSUME NEW c \in Clients, AttemptDenied(c) PROVE BreakerNext
  BY <1>2 DEF AttemptDenied, BreakerNext, Admit
<1>3. ASSUME NEW c \in Clients, OperationSucceeds(c) PROVE BreakerNext
  BY <1>3 DEF OperationSucceeds, BreakerNext
<1>4. ASSUME NEW c \in Clients, SuccessLost(c) PROVE BreakerNext
  BY <1>4 DEF SuccessLost, BreakerNext, Succeed
<1>5. ASSUME NEW c \in Clients, OperationFails(c) PROVE BreakerNext \/ UNCHANGED breakerVars
  BY <1>5 DEF OperationFails, BreakerNext
<1>6. BreakerOnly => BreakerNext
  BY DEF BreakerOnly, BreakerNext
<1>7. OutageBeginsOrEnds \/ UNCHANGED vars => UNCHANGED breakerVars
  BY DEF OutageBeginsOrEnds, vars
<1> QED
  BY <1>1, <1>2, <1>3, <1>4, <1>5, <1>6, <1>7 DEF Next

\* So the same holds under any number of clients, whatever loops they run,
\* and whatever they cancel.
THEOREM ResilienceSafe == Spec => [](BreakerTypeOK /\ CountersMatchState)
<1>1. Init => BreakerInv
  BY BreakerInitially DEF Init
<1>2. BreakerInv /\ [Next]_vars => BreakerInv'
  BY BreakerKeeps, UsesBreaker
<1>3. BreakerInv => BreakerTypeOK /\ CountersMatchState
  BY DEF BreakerInv
<1> QED
  BY <1>1, <1>2, <1>3, PTL DEF Spec

\* Another attempt would be within the options of the loop.
MayAttempt(c) ==
  /\ loop[c] # "schedule" => attempt[c] < MaxAttempts
  /\ loop[c] = "schedule" =>
       \A rule \in Policy[c] : rule.kind = "maxAttempts" => attempt[c] < rule.attempts

\* A loop that is on its way to another attempt has one left.
RetryInv ==
  /\ RetryTypeOK
  /\ \A c \in Clients : phase[c] \in {"hook", "pausing", "sleeping"} => MayAttempt(c)

\* maxAttempts() takes a positive number: normalizeAttempts() sees to that.
LEMMA RuleAttempts ==
  ASSUME NEW c \in Clients, NEW rule \in Policy[c], rule.kind = "maxAttempts"
  PROVE  rule.attempts \in Nat \ {0}
<1>1. rule \in Rules
  BY RetryAssumption
<1> QED
  BY <1>1 DEF Rules

\* A policy that lets the loop go on has an attempt left in every rule.
LEMMA LeftMeansAllowed ==
  ASSUME NEW c \in Clients, AttemptLeft(c) PROVE MayAttempt(c)
BY DEF AttemptLeft, PolicyContinues, RuleContinues, MayAttempt

\* The next attempt of a loop that has one left is allowed.
LEMMA NextIsAllowed ==
  ASSUME NEW c \in Clients, attempt[c] \in Nat, MayAttempt(c), loop' = loop, attempt'[c] = attempt[c] + 1
  PROVE  AttemptsAllowed(c)'
<1>1. loop[c] # "schedule" => attempt[c] + 1 <= MaxAttempts
  BY RetryAssumption DEF MayAttempt
<1>2. ASSUME loop[c] = "schedule", NEW rule \in Policy[c], rule.kind = "maxAttempts"
      PROVE  attempt[c] + 1 <= rule.attempts
  BY <1>2, RuleAttempts DEF MayAttempt
<1> QED
  BY <1>1, <1>2 DEF AttemptsAllowed

\* A loop that moves on to another phase, within its attempts.
LEMMA MovesKeeps ==
  ASSUME RetryInv, NEW c \in Clients,
         NEW p \in {"idle", "ready", "calling", "failed", "hook", "pausing", "sleeping"},
         phase' = [phase EXCEPT ![c] = p], UNCHANGED <<loop, attempt, result>>,
         DOMAIN delay' = Clients, aborted' \subseteq AbortableClients,
         p \in {"hook", "pausing", "sleeping"} => MayAttempt(c)
  PROVE  RetryInv'
BY DEF RetryInv, RetryTypeOK, AttemptsAllowed, MayAttempt

\* So do the steps that leave the delay alone.
LEMMA GotoKeeps ==
  ASSUME RetryInv, NEW c \in Clients,
         NEW p \in {"idle", "ready", "calling", "failed", "hook", "pausing", "sleeping"},
         Goto(c, p), aborted' \subseteq AbortableClients,
         p \in {"hook", "pausing", "sleeping"} => MayAttempt(c)
  PROVE  RetryInv'
<1>1. DOMAIN delay' = Clients
  BY DEF Goto, RetryInv, RetryTypeOK
<1> QED
  BY <1>1, MovesKeeps DEF Goto

\* And those that choose one.
LEMMA WaitForKeeps ==
  ASSUME RetryInv, NEW c \in Clients, NEW delays, NEW p \in {"hook", "pausing"},
         WaitFor(c, delays, p), aborted' \subseteq AbortableClients, MayAttempt(c)
  PROVE  RetryInv'
<1>1. DOMAIN delay' = Clients
  BY DEF WaitFor, RetryInv, RetryTypeOK
<1> QED
  BY <1>1, MovesKeeps DEF WaitFor

\* A loop that resolves starts nothing more.
LEMMA ResolveKeeps ==
  ASSUME RetryInv, NEW c \in Clients, NEW r \in {"ok", "failed", "aborted"},
         Resolve(c, r), aborted' \subseteq AbortableClients
  PROVE  RetryInv'
BY DEF Resolve, RetryInv, RetryTypeOK, AttemptsAllowed, MayAttempt

\* The head of the loop counts an attempt only if one is left.
LEMMA NextAttemptKeeps ==
  ASSUME RetryInv, NEW c \in Clients, phase[c] \in {"pausing", "sleeping"},
         NextAttempt(c), aborted' \subseteq AbortableClients
  PROVE  RetryInv'
<1>1. /\ loop' \in [Clients -> {"retry", "poll", "schedule"}]
      /\ phase' \in [Clients -> {"idle", "ready", "calling", "failed", "hook", "pausing", "sleeping"}]
      /\ attempt' \in [Clients -> Nat]
      /\ DOMAIN delay' = Clients
      /\ result' \in [Clients -> {"none", "ok", "failed", "aborted"}]
  BY DEF NextAttempt, RetryInv, RetryTypeOK
<1>2. AttemptsAllowed(c)'
  BY NextIsAllowed DEF NextAttempt, RetryInv, RetryTypeOK
<1>3. ASSUME NEW d \in Clients \ {c} PROVE AttemptsAllowed(d)'
  BY DEF NextAttempt, RetryInv, RetryTypeOK, AttemptsAllowed
<1>4. ASSUME NEW d \in Clients, phase'[d] \in {"hook", "pausing", "sleeping"}
      PROVE  MayAttempt(d)'
  BY <1>4 DEF NextAttempt, RetryInv, RetryTypeOK, MayAttempt
<1> QED
  BY <1>1, <1>2, <1>3, <1>4 DEF RetryInv, RetryTypeOK

\* A loop starts with its first attempt, which any option allows.
LEMMA BeginKeeps == ASSUME RetryInv, NEW c \in Clients, Begin(c) PROVE RetryInv'
<1>1. AttemptsAllowed(c)'
  BY RetryAssumption, RuleAttempts DEF Begin, RetryInv, RetryTypeOK, AttemptsAllowed
<1>2. ASSUME NEW d \in Clients \ {c} PROVE AttemptsAllowed(d)'
  BY DEF Begin, RetryInv, RetryTypeOK, AttemptsAllowed
<1>3. loop' \in [Clients -> {"retry", "poll", "schedule"}]
  <2>1. PICK k \in Loops[c] : loop' = [loop EXCEPT ![c] = k]
    BY DEF Begin
  <2>2. k \in {"retry", "poll", "schedule"}
    BY <2>1, RetryAssumption
  <2> QED
    BY <2>1, <2>2 DEF RetryInv, RetryTypeOK
<1>4. ASSUME NEW d \in Clients, phase'[d] \in {"hook", "pausing", "sleeping"} PROVE MayAttempt(d)'
  <2>1. d # c
    BY <1>4 DEF Begin, RetryInv, RetryTypeOK
  <2> QED
    BY <1>4, <2>1 DEF Begin, RetryInv, RetryTypeOK, MayAttempt
<1> QED
  BY <1>1, <1>2, <1>3, <1>4 DEF Begin, RetryInv, RetryTypeOK

\* Each step of a loop on its own.
LEMMA LoopKeeps == ASSUME RetryInv, NEW c \in Clients, RetryStep(c) PROVE RetryInv'
<1>1. aborted \subseteq AbortableClients
  BY DEF RetryInv, RetryTypeOK
<1>2. CASE EndsAborted(c)
  BY <1>1, <1>2, ResolveKeeps DEF EndsAborted
<1>3. CASE GivesUp(c)
  BY <1>1, <1>3, ResolveKeeps DEF GivesUp
<1>4. CASE GoesOn(c)
  BY <1>1, <1>4, WaitForKeeps, LeftMeansAllowed DEF GoesOn
<1>5. CASE HookReturns(c)
  BY <1>1, <1>5, GotoKeeps DEF HookReturns, RetryInv
<1>6. CASE HookThrows(c)
  BY <1>1, <1>6, ResolveKeeps DEF HookThrows
<1>7. CASE Pause(c)
  BY <1>1, <1>7, ResolveKeeps, NextAttemptKeeps, GotoKeeps DEF Pause, RetryInv
<1>8. CASE TimerFires(c)
  BY <1>1, <1>8, NextAttemptKeeps DEF TimerFires
<1> QED
  BY <1>2, <1>3, <1>4, <1>5, <1>6, <1>7, <1>8 DEF RetryStep

\* An abort listener moves a sleeping loop only.
LEMMA AbortKeeps == ASSUME RetryInv, NEW c \in Clients, Abort(c) PROVE RetryInv'
<1>1. aborted' \subseteq AbortableClients
  BY DEF Abort, Fire, RetryInv, RetryTypeOK
<1>2. CASE Resolve(c, "aborted")
  BY <1>1, <1>2, ResolveKeeps
<1>3. CASE UNCHANGED <<loop, phase, attempt, delay, result>>
  BY <1>1, <1>3 DEF RetryInv, RetryTypeOK, AttemptsAllowed, MayAttempt
<1> QED
  BY <1>2, <1>3 DEF Abort, Wake

\* Each step of the composition is a step of one loop, or of none.
LEMMA ClientsKeep == RetryInv /\ [Next]_vars => RetryInv'
<1> SUFFICES ASSUME RetryInv, [Next]_vars PROVE RetryInv'
  OBVIOUS
<1>1. aborted \subseteq AbortableClients
  BY DEF RetryInv, RetryTypeOK
<1>2. ASSUME NEW c \in Clients, Attempt(c) \/ AttemptDenied(c) PROVE RetryInv'
  BY <1>1, <1>2, GotoKeeps DEF Attempt, AttemptDenied
<1>3. ASSUME NEW c \in Clients, OperationSucceeds(c) PROVE RetryInv'
  BY <1>1, <1>3, ResolveKeeps DEF OperationSucceeds
<1>4. ASSUME NEW c \in Clients, SuccessLost(c) \/ OperationFails(c) PROVE RetryInv'
  BY <1>1, <1>4, GotoKeeps DEF SuccessLost, OperationFails
<1>5. ASSUME NEW c \in Clients, Begin(c) PROVE RetryInv'
  BY <1>5, BeginKeeps
<1>6. UNCHANGED retryVars => RetryInv'
  BY DEF retryVars, RetryInv, RetryTypeOK, AttemptsAllowed, MayAttempt
<1>7. OutageBeginsOrEnds \/ UNCHANGED vars => UNCHANGED retryVars
  BY DEF OutageBeginsOrEnds, vars
<1> QED
  BY <1>2, <1>3, <1>4, <1>5, <1>6, <1>7, LoopKeeps, AbortKeeps DEF Next, RetryOnly

\* A loop calls its operation in one step only, and not once it is aborted.
LEMMA CallsUnaborted ==
  ASSUME RetryInv, [Next]_vars, NEW c \in aborted, phase'[c] = "calling"
  PROVE  phase[c] = "calling"
<1> SUFFICES ASSUME phase[c] # "calling" PROVE FALSE
  OBVIOUS
<1>1. c \in Clients /\ phase \in [Clients -> {"idle", "ready", "calling", "failed", "hook", "pausing", "sleeping"}]
  BY SignalsAssumption DEF RetryInv, RetryTypeOK
<1>2. ASSUME NEW d \in Clients, Attempt(d) PROVE FALSE
  <2>1. c # d
    BY <1>2 DEF Attempt, AttemptStarts
  <2> QED
    BY <1>1, <1>2, <2>1 DEF Attempt, Goto
<1>3. ASSUME NEW d \in Clients, NEW p, p # "calling", Goto(d, p) PROVE FALSE
  BY <1>1, <1>3 DEF Goto
<1>4. ASSUME NEW d \in Clients, NEW r, Resolve(d, r) PROVE FALSE
  BY <1>1, <1>4 DEF Resolve
<1>13. ASSUME NEW d \in Clients, NEW delays, NEW p, p # "calling", WaitFor(d, delays, p) PROVE FALSE
  BY <1>1, <1>13 DEF WaitFor
<1>5. ASSUME NEW d \in Clients, NextAttempt(d) PROVE FALSE
  BY <1>1, <1>5 DEF NextAttempt
<1>6. ASSUME NEW d \in Clients, RetryStep(d) PROVE FALSE
  BY <1>3, <1>4, <1>5, <1>6, <1>13
     DEF RetryStep, EndsAborted, GivesUp, GoesOn, HookReturns, HookThrows, Pause, TimerFires
<1>7. ASSUME NEW d \in Clients, Begin(d) PROVE FALSE
  BY <1>1, <1>7 DEF Begin
<1>8. phase' # phase
  OBVIOUS
<1>9. ASSUME NEW d \in Clients, Abort(d) PROVE FALSE
  BY <1>4, <1>8, <1>9 DEF Abort, Wake
<1>10. ASSUME NEW d \in Clients,
              AttemptDenied(d) \/ OperationSucceeds(d) \/ SuccessLost(d) \/ OperationFails(d)
       PROVE  FALSE
  BY <1>3, <1>4, <1>10 DEF AttemptDenied, OperationSucceeds, SuccessLost, OperationFails
<1>11. ~ UNCHANGED retryVars
  BY <1>8 DEF retryVars
<1>12. ~ OutageBeginsOrEnds /\ ~ UNCHANGED vars
  BY <1>11 DEF OutageBeginsOrEnds, vars
<1> QED
  BY <1>2, <1>6, <1>7, <1>9, <1>10, <1>11, <1>12 DEF Next, RetryOnly

\* No attempt starts after the abort, and none beyond the last, whatever the
\* loop was doing when the signal fired (src/retry.ts:136-197).
THEOREM AbortEndsRetries == Spec => []RetryTypeOK /\ NoAttemptAfterAbort
<1>1. Init => RetryInv
  <2>1. ASSUME RetryInit, NEW c \in Clients PROVE AttemptsAllowed(c)
    BY <2>1, RetryAssumption, RuleAttempts DEF RetryInit, AttemptsAllowed
  <2> QED
    BY <2>1 DEF Init, RetryInit, RetryInv, RetryTypeOK, MayAttempt
<1>2. RetryInv => RetryTypeOK
  BY DEF RetryInv
<1>3. RetryInv /\ [Next]_vars
        => [\A c \in aborted : phase'[c] = "calling" => phase[c] = "calling"]_vars
  BY CallsUnaborted
<1> QED
  BY <1>1, <1>2, <1>3, ClientsKeep, PTL DEF Spec, NoAttemptAfterAbort

\* Calls, loops and the breaker stay within their types.
THEOREM ResilienceTypeCorrect == Spec => []TypeOK
<1> DEFINE Rest == doomed \subseteq Clients /\ up \in BOOLEAN
<1>1. Init => Rest
  BY DEF Init
<1>2. Rest /\ [Next]_vars => Rest'
  <2> SUFFICES ASSUME Rest, [Next]_vars PROVE Rest'
    OBVIOUS
  <2>1. ASSUME NEW c \in Clients,
               Attempt(c) \/ AttemptDenied(c) \/ OperationSucceeds(c) \/ SuccessLost(c)
               \/ OperationFails(c)
        PROVE  Rest'
    BY <2>1 DEF Attempt, AttemptDenied, OperationSucceeds, SuccessLost, OperationFails, world
  <2>2. CASE OutageBeginsOrEnds
    BY <2>2 DEF OutageBeginsOrEnds
  <2>3. CASE UNCHANGED world
    BY <2>3 DEF world
  <2> QED
    BY <2>1, <2>2, <2>3 DEF Next, vars, world
<1>3. BreakerTypeOK /\ RetryTypeOK /\ Rest => TypeOK
  BY DEF TypeOK
<1> QED
  BY <1>1, <1>2, <1>3, ResilienceSafe, AbortEndsRetries, PTL DEF Spec

-----------------------------------------------------------------------------
(***************************************************************************)
(* Delays.  An exponential delay is under its cap however large the power  *)
(* becomes, and the rules of a policy together give a delay that none of   *)
(* its fixed delays exceeds and that some rule asked for.                  *)
(***************************************************************************)
Waits == {"hook", "pausing", "sleeping"}

\* What a loop waits for fits its options, and it counts attempts from one.
DelayInv ==
  /\ RetryInv
  /\ \A c \in Clients : phase[c] # "idle" => attempt[c] >= 1
  /\ \A c \in Clients : phase[c] \in Waits => DelayFits(c)

\* An exponential delay stays under its cap.
LEMMA BackoffCapped ==
  ASSUME NEW backoff, backoff.baseDelayMs \in Nat, backoff.factor \in Nat \ {0},
         backoff.maxDelayMs \in Nat, backoff.jitter \in {"none", "full"},
         NEW n \in Nat, n >= 1, NEW d \in ComputeDelay(backoff, n)
  PROVE  d \in Int /\ d <= backoff.maxDelayMs
<1> DEFINE power == backoff.factor ^ (n - 1)
<1>1. power \in Int
  OBVIOUS
<1> HIDE DEF power
<1>2. CappedDelay(backoff, n) \in Int /\ CappedDelay(backoff, n) <= backoff.maxDelayMs
  BY <1>1 DEF CappedDelay, Least, power
<1>3. CASE backoff.jitter = "none"
  BY <1>2, <1>3 DEF ComputeDelay
<1>4. CASE backoff.jitter = "full"
  <2>1. d \in 0 .. CappedDelay(backoff, n)
    BY <1>4 DEF ComputeDelay
  <2> QED
    BY <1>2, <2>1
<1> QED
  BY <1>3, <1>4

\* composeSchedules(): no fixed delay is cut short, and nothing is made up.
LEMMA PolicyFits ==
  ASSUME NEW policy \in SUBSET Rules, NEW n \in Nat, n >= 1, NEW d \in PolicyDelays(policy, n)
  PROVE  /\ \A rule \in policy : rule.kind = "fixedDelay" => rule.delayMs <= d
         /\ \/ d = 0
            \/ \E rule \in policy :
                 \/ rule.kind = "fixedDelay" /\ d = rule.delayMs
                 \/ /\ rule.kind = "exponentialBackoff"
                    /\ rule.jitter = "custom" \/ d <= rule.maxDelayMs
<1>1. ASSUME NEW rule \in policy, rule.kind = "fixedDelay" PROVE rule.delayMs <= d
  <2>1. PICK other \in RuleDelays(rule, n) : other <= d
    BY DEF PolicyDelays
  <2>2. RuleDelays(rule, n) = {rule.delayMs}
    BY <1>1 DEF RuleDelays
  <2> QED
    BY <2>1, <2>2
<1>2. ASSUME NEW rule \in policy, d \in RuleDelays(rule, n), d # 0
      PROVE  \/ rule.kind = "fixedDelay" /\ d = rule.delayMs
             \/ rule.kind = "exponentialBackoff" /\ (rule.jitter = "custom" \/ d <= rule.maxDelayMs)
  <2>1. CASE rule.kind = "fixedDelay"
    BY <1>2, <2>1 DEF RuleDelays
  <2>2. CASE rule.kind = "exponentialBackoff"
    <3> SUFFICES ASSUME rule.jitter # "custom" PROVE d <= rule.maxDelayMs
      BY <2>2
    <3>1. /\ rule.baseDelayMs \in Nat /\ rule.factor \in Nat \ {0} /\ rule.maxDelayMs \in Nat
          /\ rule.jitter \in {"none", "full"}
      <4>1. rule \in Rules
        OBVIOUS
      <4> QED
        BY <2>2, <4>1 DEF Rules
    <3>2. d \in ApplyJitter(rule, n)
      BY <1>2, <2>2 DEF RuleDelays
    <3>3. PICK asked \in ComputeDelay(rule, n) : d = NormalizeDelay(asked)
      BY <3>2 DEF ApplyJitter
    <3>4. asked \in Int /\ asked <= rule.maxDelayMs
      BY <3>1, <3>3, BackoffCapped
    <3> QED
      BY <3>1, <3>3, <3>4 DEF NormalizeDelay
  <2>3. CASE rule.kind \notin {"fixedDelay", "exponentialBackoff"}
    BY <1>2, <2>3 DEF RuleDelays
  <2> QED
    BY <2>1, <2>2, <2>3
<1>3. d = 0 \/ \E rule \in policy : d \in RuleDelays(rule, n)
  BY DEF PolicyDelays
<1> QED
  BY <1>1, <1>2, <1>3

\* A loop that goes on sets a delay that fits.
LEMMA GoesOnFits == ASSUME DelayInv, NEW c \in Clients, GoesOn(c) PROVE DelayFits(c)'
<1>1. /\ loop' = loop /\ phase[c] = "failed" /\ attempt[c] \in Nat /\ attempt[c] >= 1
      /\ DOMAIN delay = Clients
  BY DEF GoesOn, WaitFor, DelayInv, RetryInv, RetryTypeOK
<1>2. CASE loop[c] = "retry" /\ WaitFor(c, ComputeDelay(Backoff, attempt[c]), "hook")
  <2>1. PICK d \in ComputeDelay(Backoff, attempt[c]) : delay' = [delay EXCEPT ![c] = d]
    BY <1>2 DEF WaitFor
  <2>2. Backoff.jitter # "custom" => d <= Backoff.maxDelayMs
    BY <1>1, RetryAssumption, BackoffCapped
  <2> QED
    BY <1>1, <1>2, <2>1, <2>2 DEF DelayFits
<1>3. CASE loop[c] = "poll"
  BY <1>1, <1>3 DEF DelayFits
<1>4. CASE loop[c] = "schedule" /\ WaitFor(c, PolicyDelays(Policy[c], attempt[c]), "pausing")
  <2>1. PICK d \in PolicyDelays(Policy[c], attempt[c]) : delay' = [delay EXCEPT ![c] = d]
    BY <1>4 DEF WaitFor
  <2>2. Policy[c] \in SUBSET Rules
    BY RetryAssumption
  <2>3. delay'[c] = d
    BY <1>1, <2>1
  <2> QED
    BY <1>1, <1>4, <2>2, <2>3, PolicyFits DEF DelayFits
<1> QED
  BY <1>2, <1>3, <1>4 DEF GoesOn

\* A step that leaves the delays of those that wait alone.
LEMMA WaitsKeep ==
  ASSUME DelayInv, RetryInv',
         \A c \in Clients : phase'[c] # "idle" => attempt'[c] >= 1,
         \A c \in Clients : phase'[c] \in Waits =>
           phase[c] \in Waits /\ loop'[c] = loop[c] /\ delay'[c] = delay[c]
  PROVE  DelayInv'
BY DEF DelayInv, DelayFits

\* The steps of which the loops are made, as far as delays go.
LEMMA MoveFits ==
  ASSUME DelayInv, RetryInv', NEW c \in Clients, NEW p, Goto(c, p),
         phase[c] # "idle", p \in Waits => phase[c] \in Waits
  PROVE  DelayInv'
<1>1. phase \in [Clients -> {"idle", "ready", "calling", "failed", "hook", "pausing", "sleeping"}]
  BY DEF DelayInv, RetryInv, RetryTypeOK
<1> QED
  BY <1>1, WaitsKeep DEF Goto, DelayInv

LEMMA EndFits ==
  ASSUME DelayInv, RetryInv', NEW c \in Clients, NEW r, Resolve(c, r)
  PROVE  DelayInv'
<1>1. phase \in [Clients -> {"idle", "ready", "calling", "failed", "hook", "pausing", "sleeping"}]
      /\ DOMAIN delay = Clients
  BY DEF DelayInv, RetryInv, RetryTypeOK
<1> QED
  BY <1>1, WaitsKeep DEF Resolve, DelayInv, Waits

LEMMA RoundFits ==
  ASSUME DelayInv, RetryInv', NEW c \in Clients, NextAttempt(c)
  PROVE  DelayInv'
<1>1. /\ phase \in [Clients -> {"idle", "ready", "calling", "failed", "hook", "pausing", "sleeping"}]
      /\ DOMAIN delay = Clients /\ attempt \in [Clients -> Nat]
  BY DEF DelayInv, RetryInv, RetryTypeOK
<1> QED
  BY <1>1, WaitsKeep DEF NextAttempt, DelayInv, Waits

\* Each step of a loop on its own.
LEMMA LoopFits == ASSUME DelayInv, RetryInv', NEW c \in Clients, RetryStep(c) PROVE DelayInv'
<1>1. CASE EndsAborted(c) \/ GivesUp(c) \/ HookThrows(c)
  BY <1>1, EndFits DEF EndsAborted, GivesUp, HookThrows
<1>2. CASE HookReturns(c)
  BY <1>2, MoveFits DEF HookReturns, Waits
<1>3. CASE Pause(c)
  BY <1>3, EndFits, RoundFits, MoveFits DEF Pause, Waits
<1>4. CASE TimerFires(c)
  BY <1>4, RoundFits DEF TimerFires
<1>5. CASE GoesOn(c)
  <2>1. DelayFits(c)'
    BY <1>5, GoesOnFits
  <2>2. /\ loop' = loop /\ attempt' = attempt /\ phase[c] # "idle"
        /\ \A d \in Clients \ {c} : phase'[d] = phase[d] /\ delay'[d] = delay[d]
    <3>1. phase \in [Clients -> {"idle", "ready", "calling", "failed", "hook", "pausing", "sleeping"}]
          /\ DOMAIN delay = Clients
      BY DEF DelayInv, RetryInv, RetryTypeOK
    <3> QED
      BY <1>5, <3>1 DEF GoesOn, WaitFor
  <2>3. ASSUME NEW d \in Clients, phase'[d] \in Waits PROVE DelayFits(d)'
    BY <2>1, <2>2, <2>3 DEF DelayInv, DelayFits
  <2>4. \A d \in Clients : phase'[d] # "idle" => attempt'[d] >= 1
    BY <2>2 DEF DelayInv
  <2> QED
    BY <2>3, <2>4 DEF DelayInv
<1> QED
  BY <1>1, <1>2, <1>3, <1>4, <1>5 DEF RetryStep

\* Each step of the composition.
LEMMA DelaysKeep == DelayInv /\ [Next]_vars => DelayInv'
<1> SUFFICES ASSUME DelayInv, [Next]_vars PROVE DelayInv'
  OBVIOUS
<1>0. RetryInv'
  BY ClientsKeep DEF DelayInv
<1>1. /\ phase \in [Clients -> {"idle", "ready", "calling", "failed", "hook", "pausing", "sleeping"}]
      /\ attempt \in [Clients -> Nat]
  BY DEF DelayInv, RetryInv, RetryTypeOK
<1>2. ASSUME NEW c \in Clients, Attempt(c) \/ AttemptDenied(c) PROVE DelayInv'
  BY <1>0, <1>2, MoveFits DEF Attempt, AttemptDenied, AttemptStarts, Waits
<1>3. ASSUME NEW c \in Clients, OperationSucceeds(c) PROVE DelayInv'
  BY <1>0, <1>3, EndFits DEF OperationSucceeds
<1>4. ASSUME NEW c \in Clients, SuccessLost(c) \/ OperationFails(c) PROVE DelayInv'
  BY <1>0, <1>4, MoveFits DEF SuccessLost, OperationFails, Waits
<1>5. UNCHANGED <<loop, phase, attempt, delay, result>> => DelayInv'
  BY <1>0, WaitsKeep DEF DelayInv
<1>6. ASSUME NEW c \in Clients, Begin(c) PROVE DelayInv'
  <2>1. /\ phase' = [phase EXCEPT ![c] = "ready"] /\ attempt' = [attempt EXCEPT ![c] = 1]
        /\ delay' = delay /\ \A d \in Clients \ {c} : loop'[d] = loop[d]
    BY <1>6 DEF Begin, DelayInv, RetryInv, RetryTypeOK
  <2> QED
    BY <1>0, <1>1, <2>1, WaitsKeep DEF DelayInv, Waits
<1>7. ASSUME NEW c \in Clients, Abort(c) PROVE DelayInv'
  BY <1>0, <1>5, <1>7, EndFits DEF Abort, Wake
<1>8. OutageBeginsOrEnds \/ UNCHANGED vars \/ UNCHANGED retryVars
        => UNCHANGED <<loop, phase, attempt, delay, result>>
  BY DEF OutageBeginsOrEnds, vars, retryVars
<1> QED
  BY <1>0, <1>2, <1>3, <1>4, <1>5, <1>6, <1>7, <1>8, LoopFits DEF Next, RetryOnly

\* Attempts and delays stay within the options of the loop, whatever these are
\* and whatever else happens: an exponential delay is capped however often the
\* loop has come round, and combined rules neither cut a fixed delay short nor
\* wait longer than one of them asks (src/retry.ts:41-63, src/schedule.ts:92-200).
THEOREM LoopsKeepToOptions == Spec => []WithinOptions
<1>1. Init => DelayInv
  <2>1. ASSUME RetryInit, NEW c \in Clients PROVE AttemptsAllowed(c)
    BY <2>1, RetryAssumption, RuleAttempts DEF RetryInit, AttemptsAllowed
  <2> QED
    BY <2>1 DEF Init, RetryInit, RetryInv, RetryTypeOK, MayAttempt, DelayInv, Waits
<1>2. DelayInv => WithinOptions
  BY DEF DelayInv, Waits, RetryInv, RetryTypeOK, WithinOptions
<1> QED
  BY <1>1, <1>2, DelaysKeep, PTL DEF Spec
=============================================================================
