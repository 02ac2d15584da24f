---------------------------- MODULE RateLimiter ----------------------------
(***************************************************************************)
(* The fixed-window rate limiter of src/limiter.ts (createRateLimiter).    *)
(* take() reserves a slot in the current window, or in the next one when   *)
(* the window is used up, and sleeps until that window starts.             *)
(*                                                                         *)
(* now is Date.now(), a wall clock: it may be set back.  sleep counts the  *)
(* time a timer has left; a timer that is due fires at any later moment,   *)
(* for the event loop may be late.                                         *)
(***************************************************************************)
EXTENDS Integers, Sequences, Signals

CONSTANTS
  Limit,    \* options.limit
  Interval, \* options.intervalMs, in clock ticks; 0 is accepted
  MaxTime,  \* bound on the clock
  MaxTakes  \* bound on the number of reservations

ASSUME RateAssumption ==
  /\ Limit \in Nat \ {0}
  /\ Interval \in Nat
  /\ MaxTime \in Nat
  /\ MaxTakes \in Nat

VARIABLES
  now,
  windowStart,  \* the window of the last reservation
  usedInWindow,
  slot,         \* where the take() of each client stands
  sleep,        \* what is left on the timer of each client
  slots         \* history: the window start of every reservation, in order

rateVars == <<now, windowStart, usedInWindow, slot, sleep, slots, aborted>>

RateInit ==
  /\ now = 0
  /\ windowStart = 0
  /\ usedInWindow = 0
  /\ slot = [c \in Clients |-> "none"]
  /\ sleep = [c \in Clients |-> 0]
  /\ slots = <<>>

\* reserveSlot(): a clock past the window opens a new one; a full window
\* makes the reservation go into the next.
Fresh == now >= windowStart + Interval
Base == IF Fresh THEN now ELSE windowStart
Used == IF Fresh THEN 0 ELSE usedInWindow

\* Erroneous variant: one reservation too many per window.
FullLate == Used > Limit

Full == Used >= Limit

ReserveSlot ==
  /\ windowStart' = IF Full THEN Base + Interval ELSE Base
  /\ usedInWindow' = IF Full THEN 1 ELSE Used + 1
  /\ slots' = Append(slots, windowStart')

\* take(): at once if the slot is not in the future, else a timer and a listener.
Take(c) ==
  /\ slot[c] = "none"
  /\ \/ /\ c \in aborted
        /\ slot' = [slot EXCEPT ![c] = "failed"]
        /\ UNCHANGED <<windowStart, usedInWindow, sleep, slots>>
     \/ /\ c \notin aborted
        /\ Len(slots) < MaxTakes
        /\ ReserveSlot
        /\ \/ /\ windowStart' <= now
              /\ slot' = [slot EXCEPT ![c] = "admitted"]
              /\ UNCHANGED sleep
           \/ /\ windowStart' > now
              /\ slot' = [slot EXCEPT ![c] = "waiting"]
              /\ sleep' = [sleep EXCEPT ![c] = windowStart' - now]
  /\ UNCHANGED <<now, aborted>>

\* The timer of a waiting take fires.
TimerFires(c) ==
  /\ slot[c] = "waiting"
  /\ sleep[c] = 0
  /\ slot' = [slot EXCEPT ![c] = "admitted"]
  /\ UNCHANGED <<now, windowStart, usedInWindow, sleep, slots, aborted>>

\* The awaiting code goes on and may take again.
Spend(c) ==
  /\ slot[c] = "admitted"
  /\ slot' = [slot EXCEPT ![c] = "none"]
  /\ UNCHANGED <<now, windowStart, usedInWindow, sleep, slots, aborted>>

\* onAbort: the timer is cleared and the take rejects; its reservation stays used.
GiveUpSlot(c) ==
  /\ slot' = [slot EXCEPT ![c] = IF @ = "waiting" THEN "failed" ELSE @]
  /\ sleep' = [sleep EXCEPT ![c] = 0]
  /\ UNCHANGED <<now, windowStart, usedInWindow, slots>>

AbortTake(c) == Fire(c) /\ GiveUpSlot(c)

\* clear(reason): every pending take rejects; no reservation is given back.
ClearTakes ==
  /\ \E c \in Clients : slot[c] = "waiting"
  /\ slot' = [c \in Clients |-> IF slot[c] = "waiting" THEN "failed" ELSE slot[c]]
  /\ sleep' = [c \in Clients |-> 0]
  /\ UNCHANGED <<now, windowStart, usedInWindow, slots, aborted>>

Tick ==
  /\ now < MaxTime
  /\ now' = now + 1
  /\ sleep' = [c \in Clients |-> IF sleep[c] > 0 THEN sleep[c] - 1 ELSE 0]
  /\ UNCHANGED <<windowStart, usedInWindow, slot, slots, aborted>>

\* The wall clock is adjusted backwards.
ClockSetBack ==
  /\ now > 0
  /\ now' \in 0 .. now - 1
  /\ UNCHANGED <<windowStart, usedInWindow, slot, sleep, slots, aborted>>

RateNext ==
  \/ \E c \in Clients : Take(c) \/ TimerFires(c) \/ Spend(c) \/ AbortTake(c)
  \/ ClearTakes \/ Tick \/ ClockSetBack

RateSpec == RateInit /\ aborted = {} /\ [][RateNext]_rateVars

-----------------------------------------------------------------------------
RateTypeOK ==
  /\ now \in Nat
  /\ windowStart \in Nat
  /\ usedInWindow \in 0 .. Limit
  /\ slot \in [Clients -> {"none", "waiting", "admitted", "failed"}]
  /\ sleep \in [Clients -> Nat]
  /\ slots \in Seq(Nat)

\* The budget of src/limiter.ts:235-251: of any Limit + 1 successive
\* reservations the last is at least one interval after the first, whatever
\* the takes, aborts and clears in between and however the clock jumps.
SlotsSpaced ==
  \A i \in 1 .. Len(slots) :
    i + Limit <= Len(slots) => slots[i] + Interval <= slots[i + Limit]
=============================================================================
