------------------------------ MODULE Schedule ------------------------------
(***************************************************************************)
(* The policies of src/schedule.ts and the delays of src/retry.ts.  A      *)
(* policy is a set of the rules composeSchedules() combines, since their   *)
(* order makes no difference; a rule is a record of its options.  Where    *)
(* jitter leaves a delay open the operators give the set of them.          *)
(***************************************************************************)
EXTENDS Integers

CONSTANT JitterResults \* what a jitter function of the caller's may return

Least(a, b) == IF a <= b THEN a ELSE b

\* normalizeDelay
NormalizeDelay(delayMs) == IF delayMs < 0 THEN 0 ELSE delayMs

CappedDelay(backoff, attempt) ==
  Least(backoff.baseDelayMs * backoff.factor ^ (attempt - 1), backoff.maxDelayMs)

\* computeDelay of src/retry.ts, which takes what a jitter function returns.
ComputeDelay(backoff, attempt) ==
  CASE backoff.jitter = "none" -> {CappedDelay(backoff, attempt)}
    [] backoff.jitter = "full" -> 0 .. CappedDelay(backoff, attempt)
    [] backoff.jitter = "custom" -> JitterResults

\* applyJitter of src/schedule.ts, which does not let it be negative.
ApplyJitter(backoff, attempt) ==
  {NormalizeDelay(delayMs) : delayMs \in ComputeDelay(backoff, attempt)}

\* Whether a rule lets a loop go on after so many attempts and so much time.
RuleContinues(rule, attempt, elapsedMs) ==
  /\ rule.kind # "stopSchedule"
  /\ rule.kind = "maxAttempts" => attempt < rule.attempts
  /\ rule.kind = "maxElapsedTime" => elapsedMs < rule.maxElapsedMs

\* The delays it may ask for.
RuleDelays(rule, attempt) ==
  CASE rule.kind = "fixedDelay" -> {rule.delayMs}
    [] rule.kind = "exponentialBackoff" -> ApplyJitter(rule, attempt)
    [] OTHER -> {0}

\* composeSchedules: one rule is enough to stop, and the largest delay wins.
PolicyContinues(policy, attempt, elapsedMs) ==
  \A rule \in policy : RuleContinues(rule, attempt, elapsedMs)

\* Erroneous variant: the smallest delay wins.
SmallestDelays(policy, attempt) ==
  {delayMs \in UNION {RuleDelays(rule, attempt) : rule \in policy} :
     \A rule \in policy : \E other \in RuleDelays(rule, attempt) : delayMs <= other}

PolicyDelays(policy, attempt) ==
  {delayMs \in {0} \cup UNION {RuleDelays(rule, attempt) : rule \in policy} :
     \A rule \in policy : \E other \in RuleDelays(rule, attempt) : other <= delayMs}

Rules ==
  [kind : {"continueNow", "stopSchedule"}]
    \cup [kind : {"fixedDelay"}, delayMs : Nat]
    \cup [kind : {"maxAttempts"}, attempts : Nat \ {0}]
    \cup [kind : {"maxElapsedTime"}, maxElapsedMs : Nat]
    \cup [kind : {"exponentialBackoff"}, baseDelayMs : Nat, factor : Nat \ {0},
          maxDelayMs : Nat, jitter : {"none", "full", "custom"}]
=============================================================================
