------------------------------- MODULE Retry -------------------------------
(***************************************************************************)
(* The retry loops of yieldless: safeRetry of src/retry.ts, poll of        *)
(* src/timer.ts and runScheduled of src/schedule.ts.  The three differ in  *)
(* what they do between a failed attempt and the sleep before the next.    *)
(* A timer fires at any moment after it was set, and the time a loop has   *)
(* taken so far, as Date.now() tells it, is any of a few.  For a poll,     *)
(* `aborted` also stands for its timeout.                                  *)
(***************************************************************************)
EXTENDS Signals, Schedule

CONSTANTS
  Loops,       \* the loops each client may run: "retry", "poll", "schedule"
  MaxAttempts, \* options.maxAttempts of a retry or a poll
  Backoff,     \* the options of a retry
  IntervalMs,  \* those of a poll
  Policy,      \* the policy of each schedule
  ElapsedMs    \* the times a loop may have taken

ASSUME RetryAssumption ==
  /\ Loops \in [Clients -> SUBSET {"retry", "poll", "schedule"}]
  /\ MaxAttempts \in Nat \ {0}
  /\ Backoff \in [baseDelayMs : Nat, factor : Nat \ {0}, maxDelayMs : Nat,
                  jitter : {"none", "full", "custom"}]
  /\ Policy \in [Clients -> SUBSET Rules]

VARIABLES
  loop,    \* the loop each client runs or ran last
  phase,   \* where the loop of each client stands
  attempt,
  delay,   \* what the next sleep takes, 0 between sleeps
  result   \* what the last loop of the client resolved to

retryVars == <<loop, phase, attempt, delay, result, aborted>>

RetryInit ==
  /\ loop \in [Clients -> {"retry", "poll", "schedule"}] /\ \A c \in Clients : loop[c] \in Loops[c]
  /\ phase = [c \in Clients |-> "idle"]
  /\ attempt = [c \in Clients |-> 0]
  /\ delay = [c \in Clients |-> 0]
  /\ result = [c \in Clients |-> "none"]
  /\ aborted = {}

Goto(c, p) == phase' = [phase EXCEPT ![c] = p] /\ UNCHANGED <<loop, attempt, delay, result>>

Resolve(c, r) ==
  /\ phase' = [phase EXCEPT ![c] = "idle"]
  /\ result' = [result EXCEPT ![c] = r]
  /\ delay' = [delay EXCEPT ![c] = 0]
  /\ UNCHANGED <<loop, attempt>>

\* A client calls safeRetry(), poll() or runScheduled().
Begin(c) ==
  /\ phase[c] = "idle"
  /\ loop' \in {[loop EXCEPT ![c] = kind] : kind \in Loops[c]}
  /\ phase' = [phase EXCEPT ![c] = "ready"]
  /\ attempt' = [attempt EXCEPT ![c] = 1]
  /\ result' = [result EXCEPT ![c] = "none"]
  /\ UNCHANGED <<delay, aborted>>

\* Erroneous variant: an attempt starts without a look at the signal.
UncheckedAttemptStarts(c) == phase[c] = "ready"

\* The head of the loop: an aborted loop ends, another attempts.
AttemptStarts(c) == phase[c] = "ready" /\ c \notin aborted

EndsAborted(c) ==
  /\ phase[c] = "ready" /\ c \in aborted
  /\ Resolve(c, "aborted")
  /\ UNCHANGED aborted

\* Whether there may be another attempt, by its number or by the policy.
AttemptLeft(c) ==
  \/ loop[c] # "schedule" /\ attempt[c] < MaxAttempts
  \/ loop[c] = "schedule" /\ \E ms \in ElapsedMs : PolicyContinues(Policy[c], attempt[c], ms)

\* After a failed attempt.  A policy is asked unless the signal has fired;
\* safeRetry() and poll() look at the signal only in the sleep, but their
\* shouldRetry() or shouldContinue() may end them.
GivesUp(c) ==
  /\ phase[c] = "failed"
  /\ loop[c] = "schedule" =>
       c \in aborted \/ \E ms \in ElapsedMs : ~PolicyContinues(Policy[c], attempt[c], ms)
  /\ Resolve(c, "failed")
  /\ UNCHANGED aborted

WaitFor(c, delays, p) ==
  /\ delay' \in {[delay EXCEPT ![c] = delayMs] : delayMs \in delays}
  /\ phase' = [phase EXCEPT ![c] = p]
  /\ UNCHANGED <<loop, attempt, result>>

GoesOn(c) ==
  /\ phase[c] = "failed"
  /\ AttemptLeft(c)
  /\ \/ loop[c] = "retry" /\ WaitFor(c, ComputeDelay(Backoff, attempt[c]), "hook")
     \/ loop[c] = "poll" /\ WaitFor(c, {IntervalMs}, "pausing")
     \/ /\ loop[c] = "schedule" /\ c \notin aborted
        /\ WaitFor(c, PolicyDelays(Policy[c], attempt[c]), "pausing")
  /\ UNCHANGED aborted

\* onRetry() resolves, or throws and so ends the loop.
HookReturns(c) == phase[c] = "hook" /\ Goto(c, "pausing") /\ UNCHANGED aborted
HookThrows(c) == phase[c] = "hook" /\ Resolve(c, "failed") /\ UNCHANGED aborted

NextAttempt(c) ==
  /\ phase' = [phase EXCEPT ![c] = "ready"]
  /\ attempt' = [attempt EXCEPT ![c] = @ + 1]
  /\ delay' = [delay EXCEPT ![c] = 0]
  /\ UNCHANGED <<loop, result>>

\* sleep(): nothing to wait for, or a timer and a listener.
Pause(c) ==
  /\ phase[c] = "pausing"
  /\ \/ c \in aborted /\ Resolve(c, "aborted")
     \/ c \notin aborted /\ delay[c] <= 0 /\ NextAttempt(c)
     \/ c \notin aborted /\ delay[c] > 0 /\ Goto(c, "sleeping")
  /\ UNCHANGED aborted

TimerFires(c) == phase[c] = "sleeping" /\ NextAttempt(c) /\ UNCHANGED aborted

\* Erroneous variant: the listener clears the timer and settles nothing.
WakeLost(c) ==
  \/ phase[c] = "sleeping" /\ Goto(c, "lost")
  \/ phase[c] # "sleeping" /\ UNCHANGED <<loop, phase, attempt, delay, result>>

\* What the abort listener of a sleep does.
Wake(c) ==
  \/ phase[c] = "sleeping" /\ Resolve(c, "aborted")
  \/ phase[c] # "sleeping" /\ UNCHANGED <<loop, phase, attempt, delay, result>>

Abort(c) == Fire(c) /\ Wake(c)

RetryStep(c) ==
  EndsAborted(c) \/ GivesUp(c) \/ GoesOn(c) \/ HookReturns(c) \/ HookThrows(c)
    \/ Pause(c) \/ TimerFires(c)

-----------------------------------------------------------------------------
\* No rule allows fewer attempts than the loop has made: the limit of a retry
\* or a poll, or the strictest maxAttempts() of a policy.
AttemptsAllowed(c) ==
  /\ loop[c] # "schedule" => attempt[c] <= MaxAttempts
  /\ loop[c] = "schedule" =>
       \A rule \in Policy[c] : rule.kind = "maxAttempts" => attempt[c] <= rule.attempts

RetryTypeOK ==
  /\ loop \in [Clients -> {"retry", "poll", "schedule"}]
  /\ phase \in [Clients -> {"idle", "ready", "calling", "failed", "hook", "pausing", "sleeping"}]
  /\ attempt \in [Clients -> Nat]
  /\ DOMAIN delay = Clients
  /\ result \in [Clients -> {"none", "ok", "failed", "aborted"}]
  /\ aborted \subseteq AbortableClients
  /\ \A c \in Clients : AttemptsAllowed(c)

\* What a loop is about to sleep: a backoff no longer than its cap, and under a
\* policy no less than any fixed delay of it and no more than its longest.
DelayFits(c) ==
  /\ loop[c] = "retry" /\ Backoff.jitter # "custom" => delay[c] <= Backoff.maxDelayMs
  /\ loop[c] = "schedule" =>
       /\ \A rule \in Policy[c] : rule.kind = "fixedDelay" => rule.delayMs <= delay[c]
       /\ \/ delay[c] = 0
          \/ \E rule \in Policy[c] :
               \/ rule.kind = "fixedDelay" /\ delay[c] = rule.delayMs
               \/ /\ rule.kind = "exponentialBackoff"
                  /\ rule.jitter = "custom" \/ delay[c] <= rule.maxDelayMs

\* Attempts and sleeps stay within the options, whichever rules are combined
\* and however often the loop came round (src/schedule.ts:160-200,
\* src/retry.ts:41-63).
WithinOptions ==
  \A c \in Clients :
    /\ AttemptsAllowed(c)
    /\ phase[c] \in {"hook", "pausing", "sleeping"} => DelayFits(c)
=============================================================================
