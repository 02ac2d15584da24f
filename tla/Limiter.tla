------------------------------ MODULE Limiter ------------------------------
(***************************************************************************)
(* A rate limiter in front of a semaphore, the composition README.md:386   *)
(* of the repository shows: a client first takes a slot of the window, and *)
(* then runs its operation under withPermit(), with one signal for both.   *)
(* Clients without a signal may also try for a permit without waiting.     *)
(***************************************************************************)
EXTENDS Semaphore, RateLimiter

vars == <<semVars, rateVars>>
semOnly == <<available, waiters, permit>>
rateOnly == <<now, windowStart, usedInWindow, slot, sleep, slots>>

Init == SemInit /\ RateInit

\* await api.take({ signal })
Pace(c) == permit[c] \in Idle /\ Take(c) /\ UNCHANGED semOnly

\* withPermit(database, operation, { signal }) once the take has resolved.
Enter(c) == Spend(c) /\ Acquire(c)

TryEnter(c) ==
  /\ c \notin AbortableClients
  /\ slot[c] = "none"
  /\ TryAcquire(c)
  /\ UNCHANGED rateOnly

\* The operation settles and the finally block of withPermit() releases.
Leave(c) == Release(c) /\ UNCHANGED rateOnly

LeaveAgain(c) == ReleaseAgain(c) /\ UNCHANGED rateOnly

\* One signal for the take and the acquisition: both listeners run.
Abort(c) == Fire(c) /\ GiveUp(c) /\ GiveUpSlot(c)

RateStep ==
  /\ \/ \E c \in Clients : TimerFires(c)
     \/ ClearTakes \/ Tick \/ ClockSetBack
  /\ UNCHANGED semOnly

Next ==
  \/ \E c \in Clients :
       Pace(c) \/ Enter(c) \/ TryEnter(c) \/ Leave(c) \/ LeaveAgain(c) \/ Abort(c)
  \/ RateStep

Spec == Init /\ [][Next]_vars

\* Every operation settles, and its finally block then releases.
FairSpec == Spec /\ \A c \in Clients : WF_vars(Leave(c))

-----------------------------------------------------------------------------
TypeOK == SemTypeOK /\ RateTypeOK

\* A signal that fires before the operation holds its permit stops it: neither
\* the limiter nor the semaphore lets a cancelled client through, whichever of
\* the two it is waiting in.
NoStartAfterAbort ==
  [][\A c \in aborted : permit'[c] = "held" => permit[c] = "held"]_vars

\* Every client in the line gets a permit or leaves it, however often others
\* come back through acquire() or tryAcquire().
LineMoves == \A c \in Clients : permit[c] = "waiting" ~> permit[c] # "waiting"
=============================================================================
