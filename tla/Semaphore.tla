----------------------------- MODULE Semaphore -----------------------------
(***************************************************************************)
(* The counting semaphore of src/limiter.ts (createSemaphore).  Acquire,   *)
(* tryAcquire, release and the abort listener each run to completion, so   *)
(* each is one action.  A client makes one acquisition at a time, as often *)
(* as it likes; withPermit() is an acquisition whose release comes from    *)
(* the finally block that follows the operation.  A client that has        *)
(* released keeps its dead permit and may call release() on it again.      *)
(***************************************************************************)
EXTENDS Naturals, FiniteSets, Sequences, SequencesExt, WaitingLine, Signals

CONSTANT Permits \* the capacity

ASSUME PermitsAssumption == Permits \in Nat \ {0}

VARIABLES
  available, \* permits nobody holds
  waiters,   \* clients waiting for one, oldest first
  permit     \* where each client stands

semVars == <<available, waiters, permit, aborted>>

Idle == {"none", "released"}

SemInit ==
  /\ available = Permits
  /\ waiters = <<>>
  /\ permit = [c \in Clients |-> "none"]
  /\ aborted = {}

Holders == {c \in Clients : permit[c] = "held"}

\* acquire(): rejected if the signal has fired, else a permit or a place in line.
Acquire(c) ==
  /\ permit[c] \in Idle
  /\ \/ /\ c \in aborted
        /\ permit' = [permit EXCEPT ![c] = "failed"]
        /\ UNCHANGED <<available, waiters>>
     \/ /\ c \notin aborted /\ available > 0
        /\ available' = available - 1
        /\ permit' = [permit EXCEPT ![c] = "held"]
        /\ UNCHANGED waiters
     \/ /\ c \notin aborted /\ available <= 0
        /\ waiters' = Append(waiters, c)
        /\ permit' = [permit EXCEPT ![c] = "waiting"]
        /\ UNCHANGED available
  /\ UNCHANGED aborted

\* tryAcquire() looks at available and at nothing else.
TryAcquire(c) ==
  /\ permit[c] \in Idle
  /\ available > 0
  /\ available' = available - 1
  /\ permit' = [permit EXCEPT ![c] = "held"]
  /\ UNCHANGED <<waiters, aborted>>

\* Erroneous variant: a permit given back wakes nobody.
GivePermitToNobody ==
  /\ available' = available + 1
  /\ UNCHANGED waiters

\* Erroneous variant: the newest waiter is served first.
GivePermitNewestFirst ==
  /\ available' = IF waiters = <<>> THEN available + 1 ELSE available
  /\ waiters' = IF waiters = <<>> THEN waiters ELSE Front(waiters)

\* A permit given back goes to the client that has waited longest.
GivePermit ==
  /\ available' = IF waiters = <<>> THEN available + 1 ELSE available
  /\ waiters' = IF waiters = <<>> THEN waiters ELSE Tail(waiters)

\* release() of a live permit.
Release(c) ==
  /\ permit[c] = "held"
  /\ GivePermit
  /\ permit' = [x \in Clients |->
                  IF x = c THEN "released"
                  ELSE IF permit[x] = "waiting" /\ x \notin ToSet(waiters') THEN "held"
                  ELSE permit[x]]
  /\ UNCHANGED aborted

\* Erroneous variant: release() without its released flag.
ReleaseTwice(c) ==
  /\ permit[c] = "released"
  /\ available' = available + 1
  /\ UNCHANGED <<waiters, permit, aborted>>

\* release() of a permit released before.
ReleaseAgain(c) ==
  /\ permit[c] = "released"
  /\ UNCHANGED semVars

\* Erroneous variant: a waiting acquisition registers no listener.
GiveUpDeaf(c) == UNCHANGED <<available, waiters, permit>>

\* onAbort: a waiting acquisition leaves the line and rejects; a permit that
\* was handed over already stays with its client.
GiveUp(c) ==
  /\ waiters' = LeaveLine(waiters, c)
  /\ permit' = [permit EXCEPT ![c] = IF @ = "waiting" THEN "failed" ELSE @]
  /\ UNCHANGED available

AbortAcquire(c) == Fire(c) /\ GiveUp(c)

SemNext ==
  \E c \in Clients :
    Acquire(c) \/ TryAcquire(c) \/ Release(c) \/ ReleaseAgain(c) \/ AbortAcquire(c)

SemSpec == SemInit /\ [][SemNext]_semVars

-----------------------------------------------------------------------------
SemTypeOK ==
  /\ available \in Nat
  /\ waiters \in Seq(Clients)
  /\ permit \in [Clients -> {"none", "waiting", "held", "released", "failed"}]
  /\ aborted \subseteq AbortableClients

\* No permit is lost or made up by any order of acquisitions, hand-overs,
\* repeated releases and aborts, so at most Permits operations run at once.
PermitConservation == available + Cardinality(Holders) = Permits

\* The line is the waiting clients, each once.
LineIsWaiting ==
  /\ IsInjective(waiters)
  /\ ToSet(waiters) = {c \in Clients : permit[c] = "waiting"}

\* Nobody waits while a permit is free, so tryAcquire() cannot overtake a
\* waiter and no release is lost on an aborted one.
NoIdlePermit == waiters # <<>> => available = 0

\* First come, first served: a client is given a permit out of the line only
\* when everybody before it has left the line.
FirstComeFirstServed ==
  [][\A i, j \in 1 .. Len(waiters) :
       i < j /\ permit'[waiters[j]] = "held" => permit'[waiters[i]] # "waiting"]_semVars
=============================================================================
