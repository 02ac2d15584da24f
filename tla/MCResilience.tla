---------------------------- MODULE MCResilience ----------------------------
(***************************************************************************)
(* TLC instance of Resilience: a safeRetry() with full jitter or a poll()  *)
(* of two attempts and a runScheduled() of up to three under a policy of   *)
(* five rules, all of which may be aborted, share a breaker.               *)
(***************************************************************************)
EXTENDS Resilience

CONSTANTS c1, c2

MCClients == {c1, c2}
MCAbortableClients == {c1, c2}
MCLoops == [c \in MCClients |-> IF c = c1 THEN {"retry", "poll"} ELSE {"schedule"}]

MCBackoff == [baseDelayMs |-> 1, factor |-> 2, maxDelayMs |-> 1, jitter |-> "full"]
MCRules ==
  {[kind |-> "continueNow"],
   [kind |-> "fixedDelay", delayMs |-> 1],
   [kind |-> "exponentialBackoff", baseDelayMs |-> 1, factor |-> 3, maxDelayMs |-> 2, jitter |-> "none"],
   [kind |-> "maxAttempts", attempts |-> 3],
   [kind |-> "maxElapsedTime", maxElapsedMs |-> 5]}
MCPolicy == [c \in MCClients |-> IF c = c1 THEN {} ELSE MCRules]
MCJitterResults == {-1, 2}
=============================================================================
