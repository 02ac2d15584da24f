--------------------------- MODULE LimiterProofs ---------------------------
(***************************************************************************)
(* Theorems about the semaphore, the rate limiter and their composition,   *)
(* for every set of clients, capacity, limit and interval.                 *)
(***************************************************************************)
EXTENDS Limiter, WaitingLineProofs, FiniteSetTheorems

-----------------------------------------------------------------------------
(***************************************************************************)
(* The semaphore.  Conservation needs to know that the line is exactly the *)
(* waiting clients, each once: otherwise a release could serve a client    *)
(* twice, or one that has given up.                                        *)
(***************************************************************************)
SemInv == SemTypeOK /\ LineIsWaiting /\ PermitConservation /\ NoIdlePermit

\* The clients that hold a permit can be counted, one more or one less.
LEMMA HoldersFinite ==
  /\ IsFiniteSet(Holders)
  /\ Cardinality(Holders) \in Nat
  /\ \A c \in Clients : c \notin Holders =>
       Cardinality(Holders \cup {c}) = Cardinality(Holders) + 1
  /\ \A c \in Holders : Cardinality(Holders \ {c}) = Cardinality(Holders) - 1
<1>1. IsFiniteSet(Holders)
  BY FS_Subset, SignalsAssumption DEF Holders
<1> QED
  BY <1>1, FS_CardinalityType, FS_AddElement, FS_RemoveElement

\* Nothing is held and nobody waits when a semaphore is made.
LEMMA SemInitInv == SemInit => SemInv
<1> SUFFICES ASSUME SemInit PROVE SemInv
  OBVIOUS
<1> USE DEF SemInit
<1>1. SemTypeOK
  BY PermitsAssumption DEF SemTypeOK
<1>2. LineIsWaiting
  BY DEF LineIsWaiting, ToSet, IsInjective
<1>3. Holders = {}
  BY DEF Holders
<1>4. PermitConservation
  BY <1>3, FS_EmptySet, PermitsAssumption DEF PermitConservation
<1> QED
  BY <1>1, <1>2, <1>4 DEF SemInv, NoIdlePermit

\* Taking a free permit keeps the invariant, whoever waits.
LEMMA PermitTaken ==
  ASSUME SemInv, NEW c \in Clients,
         permit[c] \in Idle, available > 0,
         available' = available - 1,
         permit' = [permit EXCEPT ![c] = "held"],
         UNCHANGED <<waiters, aborted>>
  PROVE  SemInv'
<1> USE DEF SemInv, SemTypeOK
<1>1. SemTypeOK'
  OBVIOUS
<1>2. LineIsWaiting'
  BY DEF LineIsWaiting, Idle
<1>3. Holders' = Holders \cup {c} /\ c \notin Holders
  BY DEF Holders, Idle
<1>4. PermitConservation'
  BY <1>3, HoldersFinite DEF PermitConservation
<1>5. NoIdlePermit'
  BY DEF NoIdlePermit
<1> QED
  BY <1>1, <1>2, <1>4, <1>5

\* acquire() keeps the invariant.
LEMMA AcquireInv ==
  ASSUME SemInv, NEW c \in Clients, Acquire(c)
  PROVE  SemInv'
<1> USE DEF SemInv, SemTypeOK
<1>0. permit[c] \in Idle /\ UNCHANGED aborted
  BY DEF Acquire
<1>1. CASE /\ permit' = [permit EXCEPT ![c] = "failed"]
           /\ UNCHANGED <<available, waiters>>
  <2>1. SemTypeOK' /\ NoIdlePermit'
    BY <1>0, <1>1 DEF NoIdlePermit
  <2>2. LineIsWaiting'
    BY <1>0, <1>1 DEF LineIsWaiting, Idle
  <2>3. Holders' = Holders
    BY <1>0, <1>1 DEF Holders, Idle
  <2> QED
    BY <1>1, <2>1, <2>2, <2>3 DEF PermitConservation
<1>2. CASE /\ available > 0
           /\ available' = available - 1
           /\ permit' = [permit EXCEPT ![c] = "held"]
           /\ UNCHANGED waiters
  BY <1>0, <1>2, PermitTaken
<1>3. CASE /\ available <= 0
           /\ waiters' = Append(waiters, c)
           /\ permit' = [permit EXCEPT ![c] = "waiting"]
           /\ UNCHANGED available
  <2>1. c \notin ToSet(waiters)
    BY <1>0 DEF LineIsWaiting, Idle
  <2>2. /\ waiters' \in Seq(Clients)
        /\ ToSet(waiters') = ToSet(waiters) \cup {c}
        /\ IsInjective(waiters')
    BY <1>3, <2>1, JoinLine DEF LineIsWaiting
  <2>3. SemTypeOK'
    BY <1>0, <1>3, <2>2
  <2>4. LineIsWaiting'
    BY <1>0, <1>3, <2>2 DEF LineIsWaiting
  <2>5. Holders' = Holders
    BY <1>0, <1>3 DEF Holders, Idle
  <2>6. PermitConservation' /\ NoIdlePermit'
    BY <1>3, <2>5 DEF PermitConservation, NoIdlePermit
  <2> QED
    BY <2>3, <2>4, <2>6
<1> QED
  BY <1>1, <1>2, <1>3 DEF Acquire

\* release() gives the permit to the oldest waiter, or back to the semaphore.
LEMMA ReleaseInv ==
  ASSUME SemInv, NEW c \in Clients, Release(c)
  PROVE  SemInv'
<1> USE DEF SemInv, SemTypeOK
<1>0. /\ c \in Holders
      /\ UNCHANGED aborted
      /\ permit' = [x \in Clients |->
                      IF x = c THEN "released"
                      ELSE IF permit[x] = "waiting" /\ x \notin ToSet(waiters') THEN "held"
                      ELSE permit[x]]
  BY DEF Release, Holders
<1>1. CASE waiters = <<>>
  <2>1. available' = available + 1 /\ waiters' = waiters
    BY <1>1 DEF Release, GivePermit
  <2>2. SemTypeOK' /\ NoIdlePermit'
    BY <1>0, <1>1, <2>1 DEF NoIdlePermit
  <2>3. \A x \in Clients : permit'[x] = IF x = c THEN "released" ELSE permit[x]
    BY <1>0, <2>1 DEF LineIsWaiting
  <2>4. LineIsWaiting'
    BY <1>0, <2>1, <2>3 DEF LineIsWaiting, Holders
  <2>5. Holders' = Holders \ {c}
    BY <1>0, <2>3 DEF Holders
  <2>6. Cardinality(Holders') = Cardinality(Holders) - 1
    BY <1>0, <2>5, HoldersFinite
  <2>7. PermitConservation'
    BY <2>1, <2>6, HoldersFinite, PermitsAssumption DEF PermitConservation
  <2> QED
    BY <2>2, <2>4, <2>7
<1>2. CASE waiters # <<>>
  <2> DEFINE h == Head(waiters)
  <2>1. available' = available /\ waiters' = Tail(waiters)
    BY <1>2 DEF Release, GivePermit
  <2>2. /\ h \in ToSet(waiters)
        /\ waiters' \in Seq(Clients)
        /\ ToSet(waiters') = ToSet(waiters) \ {h}
        /\ IsInjective(waiters')
    BY <1>2, <2>1, ShiftLine DEF LineIsWaiting
  <2> HIDE DEF h
  <2>3. h \in Clients /\ permit[h] = "waiting" /\ h # c
    BY <1>0, <2>2 DEF LineIsWaiting, Holders
  <2>4. \A x \in Clients : permit'[x] = IF x = c THEN "released"
                                       ELSE IF x = h THEN "held" ELSE permit[x]
    BY <1>0, <2>2, <2>3 DEF LineIsWaiting
  <2>5. SemTypeOK'
    BY <1>0, <2>1, <2>2
  <2>6. LineIsWaiting'
    BY <1>0, <2>2, <2>3, <2>4 DEF LineIsWaiting, Holders
  <2>7. Holders' = (Holders \ {c}) \cup {h}
    BY <1>0, <2>3, <2>4 DEF Holders
  <2>8. Cardinality(Holders') = Cardinality(Holders)
    <3>1. /\ IsFiniteSet(Holders \ {c})
          /\ Cardinality(Holders \ {c}) = Cardinality(Holders) - 1
      BY <1>0, HoldersFinite, FS_Subset
    <3>2. h \notin Holders \ {c}
      BY <2>3 DEF Holders
    <3>3. Cardinality((Holders \ {c}) \cup {h}) = Cardinality(Holders \ {c}) + 1
      BY <3>1, <3>2, FS_AddElement
    <3> QED
      BY <2>7, <3>1, <3>3, HoldersFinite
  <2>9. PermitConservation' /\ NoIdlePermit'
    BY <1>2, <2>1, <2>8 DEF PermitConservation, NoIdlePermit
  <2> QED
    BY <2>5, <2>6, <2>9
<1> QED
  BY <1>1, <1>2

\* A signal that fires takes its client out of the line, and no permit.
LEMMA GiveUpInv ==
  ASSUME SemInv, NEW c \in Clients, Fire(c), GiveUp(c)
  PROVE  SemInv'
<1> USE DEF SemInv, SemTypeOK
<1>1. /\ waiters' = LeaveLine(waiters, c)
      /\ permit' = [permit EXCEPT ![c] = IF permit[c] = "waiting" THEN "failed" ELSE permit[c]]
      /\ available' = available
      /\ aborted' \subseteq AbortableClients
  BY DEF Fire, GiveUp
<1>2. /\ waiters' \in Seq(Clients)
      /\ ToSet(waiters') = ToSet(waiters) \ {c}
      /\ IsInjective(waiters')
  BY <1>1, GiveUpLine DEF LineIsWaiting
<1>3. SemTypeOK'
  BY <1>1, <1>2
<1>4. LineIsWaiting'
  BY <1>1, <1>2 DEF LineIsWaiting
<1>5. Holders' = Holders
  BY <1>1 DEF Holders
<1>6. waiters = <<>> => waiters' = <<>>
  <2>1. waiters = <<>> => ToSet(waiters) = {}
    BY EmptyLine
  <2>2. ToSet(waiters') = {} => waiters' = <<>>
    BY <1>2, EmptyLine
  <2> QED
    BY <1>2, <2>1, <2>2
<1>7. PermitConservation' /\ NoIdlePermit'
  BY <1>1, <1>5, <1>6 DEF PermitConservation, NoIdlePermit
<1> QED
  BY <1>3, <1>4, <1>7

\* Every step of the semaphore keeps its invariant.
LEMMA SemStepInv == SemInv /\ [SemNext]_semVars => SemInv'
<1> SUFFICES ASSUME SemInv, [SemNext]_semVars PROVE SemInv'
  OBVIOUS
<1>1. ASSUME NEW c \in Clients, Acquire(c) PROVE SemInv'
  BY <1>1, AcquireInv
<1>2. ASSUME NEW c \in Clients, TryAcquire(c) PROVE SemInv'
  BY <1>2, PermitTaken DEF TryAcquire
<1>3. ASSUME NEW c \in Clients, Release(c) PROVE SemInv'
  BY <1>3, ReleaseInv
<1>4. ASSUME NEW c \in Clients, AbortAcquire(c) PROVE SemInv'
  BY <1>4, GiveUpInv DEF AbortAcquire
<1>5. CASE UNCHANGED semVars
  BY <1>5 DEF semVars, SemInv, SemTypeOK, LineIsWaiting, PermitConservation, Holders, NoIdlePermit
<1>6. ASSUME NEW c \in Clients, ReleaseAgain(c) PROVE SemInv'
  BY <1>5, <1>6 DEF ReleaseAgain
<1> QED
  BY <1>1, <1>2, <1>3, <1>4, <1>5, <1>6 DEF SemNext

\* Permits are neither lost nor made up, and none is free while somebody
\* waits, by any interleaving of acquisitions, releases and aborts
\* (src/limiter.ts:96-186).
THEOREM SemaphoreSafe == SemSpec => [](SemTypeOK /\ PermitConservation /\ NoIdlePermit)
<1>1. SemInv => SemTypeOK /\ PermitConservation /\ NoIdlePermit
  BY DEF SemInv
<1> QED
  BY <1>1, SemInitInv, SemStepInv, PTL DEF SemSpec

-----------------------------------------------------------------------------
(***************************************************************************)
(* The rate limiter.  The last usedInWindow reservations are those of the  *)
(* current window, and every earlier one is at least an interval older.    *)
(***************************************************************************)
Apart(s, start, used) ==
  /\ used <= Len(s)
  /\ \A i \in 1 .. Len(s) :
       IF i > Len(s) - used THEN s[i] = start ELSE s[i] + Interval <= start

Spaced(s) == \A i \in 1 .. Len(s) : i + Limit <= Len(s) => s[i] + Interval <= s[i + Limit]

WindowsApart == Apart(slots, windowStart, usedInWindow)

RateInv == RateTypeOK /\ WindowsApart /\ SlotsSpaced

\* A limiter that was just made has reserved nothing.
LEMMA RateInitInv == RateInit => RateInv
  BY RateAssumption DEF RateInit, RateInv, RateTypeOK, WindowsApart, Apart, SlotsSpaced

\* One more slot in a sequence of slots: in the window, which has room, or at
\* least an interval after its start.
LEMMA OneMoreSlot ==
  ASSUME NEW s \in Seq(Nat), NEW start \in Nat, NEW used \in 0 .. Limit,
         NEW start2 \in Nat, NEW used2 \in Nat,
         Apart(s, start, used), Spaced(s),
         \/ start2 >= start + Interval /\ used2 = 1
         \/ start2 = start /\ used < Limit /\ used2 = used + 1
  PROVE  Apart(Append(s, start2), start2, used2) /\ Spaced(Append(s, start2))
<1> DEFINE n == Len(s)
           t == Append(s, start2)
<1>1. /\ n \in Nat
      /\ \A i \in 1 .. n : s[i] \in Nat
      /\ Len(t) = n + 1
      /\ \A i \in 1 .. n : t[i] = s[i]
      /\ t[n + 1] = start2
  BY LenProperties, ElementOfSeq, AppendProperties
<1>2. /\ used <= n
      /\ \A i \in 1 .. n : IF i > n - used THEN s[i] = start ELSE s[i] + Interval <= start
      /\ \A i \in 1 .. n : i + Limit <= n => s[i] + Interval <= s[i + Limit]
  BY DEF Apart, Spaced
<1> HIDE DEF n, t
<1> USE RateAssumption
<1>3. \A i \in 1 .. n : s[i] <= start
  BY <1>1, <1>2
<1>4. ASSUME NEW i \in 1 .. n + 1
      PROVE  IF i > n + 1 - used2 THEN t[i] = start2 ELSE t[i] + Interval <= start2
  <2>1. CASE i = n + 1
    BY <2>1, <1>1
  <2>2. CASE i \in 1 .. n
    BY <2>2, <1>1, <1>2, <1>3
  <2> QED
    BY <2>1, <2>2, <1>1
<1>5. ASSUME NEW i \in 1 .. n + 1, i + Limit <= n + 1
      PROVE  t[i] + Interval <= t[i + Limit]
  <2>0. i \in 1 .. n
    BY <1>5, <1>1
  <2>1. CASE i + Limit <= n
    BY <2>0, <2>1, <1>1, <1>2
  <2>2. CASE i + Limit = n + 1
    <3>1. t[i] = s[i] /\ t[i + Limit] = start2
      BY <2>0, <2>2, <1>1
    <3>2. CASE start2 >= start + Interval
      BY <2>0, <3>1, <3>2, <1>1, <1>3
    <3>3. CASE start2 = start /\ used < Limit
      <4>1. ~(i > n - used)
        BY <2>0, <2>2, <3>3, <1>1
      <4> QED
        BY <2>0, <3>1, <3>3, <4>1, <1>2
    <3> QED
      BY <3>2, <3>3
  <2> QED
    BY <1>5, <1>1, <2>1, <2>2
<1>6. used2 <= n + 1
  BY <1>1, <1>2
<1>7. Apart(t, start2, used2)
  BY <1>1, <1>4, <1>6 DEF Apart
<1>8. Spaced(t)
  BY <1>1, <1>5 DEF Spaced
<1> QED
  BY <1>7, <1>8 DEF t

\* A reservation keeps the windows apart and the slots spaced.
LEMMA ReserveInv ==
  ASSUME RateInv, ReserveSlot
  PROVE  /\ windowStart' \in Nat /\ usedInWindow' \in 0 .. Limit /\ slots' \in Seq(Nat)
         /\ WindowsApart' /\ SlotsSpaced'
<1> USE RateAssumption DEF RateInv, RateTypeOK
<1>1. /\ windowStart' = IF Full THEN Base + Interval ELSE Base
      /\ usedInWindow' = IF Full THEN 1 ELSE Used + 1
      /\ slots' = Append(slots, windowStart')
  BY DEF ReserveSlot
<1>2. \/ /\ windowStart' >= windowStart + Interval
         /\ usedInWindow' = 1
      \/ /\ windowStart' = windowStart
         /\ usedInWindow < Limit
         /\ usedInWindow' = usedInWindow + 1
  BY <1>1 DEF Full, Base, Used, Fresh
<1>3. windowStart' \in Nat /\ usedInWindow' \in 0 .. Limit
  BY <1>1, <1>2 DEF Base
<1>4. slots' \in Seq(Nat)
  BY <1>1, <1>3, AppendProperties
<1>5. Apart(slots, windowStart, usedInWindow) /\ Spaced(slots)
  BY DEF WindowsApart, Spaced, SlotsSpaced
<1>6. Apart(slots', windowStart', usedInWindow') /\ Spaced(slots')
  BY <1>1, <1>2, <1>3, <1>5, OneMoreSlot
<1> QED
  BY <1>3, <1>4, <1>6 DEF WindowsApart, Spaced, SlotsSpaced

\* A step that reserves nothing keeps the windows as they are.
LEMMA NothingReserved ==
  ASSUME RateInv, UNCHANGED <<windowStart, usedInWindow, slots>>, RateTypeOK'
  PROVE  RateInv'
  BY DEF RateInv, WindowsApart, Apart, SlotsSpaced

\* Every step of the rate limiter keeps its invariant.
LEMMA RateStepInv == RateInv /\ [RateNext]_rateVars => RateInv'
<1> SUFFICES ASSUME RateInv, [RateNext]_rateVars PROVE RateInv'
  OBVIOUS
<1>0. RateTypeOK
  BY DEF RateInv
<1>1. ASSUME NEW c \in Clients, Take(c) PROVE RateInv'
  <2>0. UNCHANGED now
    BY <1>1 DEF Take
  <2>1. CASE /\ slot' = [slot EXCEPT ![c] = "failed"]
             /\ UNCHANGED <<windowStart, usedInWindow, sleep, slots>>
    BY <1>0, <2>0, <2>1, NothingReserved DEF RateTypeOK
  <2>2. CASE ReserveSlot /\ windowStart' <= now
             /\ slot' = [slot EXCEPT ![c] = "admitted"] /\ UNCHANGED sleep
    BY <1>0, <2>0, <2>2, ReserveInv DEF RateInv, RateTypeOK
  <2>3. CASE ReserveSlot /\ windowStart' > now
             /\ slot' = [slot EXCEPT ![c] = "waiting"]
             /\ sleep' = [sleep EXCEPT ![c] = windowStart' - now]
    <3>1. windowStart' \in Nat
      BY <2>3, ReserveInv
    <3>2. \A x, y \in Nat : x > y => x - y \in Nat
      OBVIOUS
    <3>3. windowStart' - now \in Nat
      BY <1>0, <2>3, <3>1, <3>2 DEF RateTypeOK
    <3> QED
      BY <1>0, <2>0, <2>3, <3>3, ReserveInv DEF RateInv, RateTypeOK
  <2> QED
    BY <1>1, <2>1, <2>2, <2>3 DEF Take
<1>2. ASSUME NEW c \in Clients, TimerFires(c) \/ Spend(c) PROVE RateInv'
  BY <1>0, <1>2, NothingReserved DEF TimerFires, Spend, RateTypeOK
<1>3. ASSUME NEW c \in Clients, AbortTake(c) PROVE RateInv'
  BY <1>0, <1>3, NothingReserved DEF AbortTake, GiveUpSlot, RateTypeOK
<1>4. CASE ClearTakes
  BY <1>0, <1>4, NothingReserved DEF ClearTakes, RateTypeOK
<1>5. CASE Tick
  BY <1>0, <1>5, NothingReserved DEF Tick, RateTypeOK
<1>6. CASE ClockSetBack
  BY <1>0, <1>6, NothingReserved DEF ClockSetBack, RateTypeOK
<1>7. CASE UNCHANGED rateVars
  BY <1>0, <1>7, NothingReserved DEF rateVars, RateTypeOK
<1> QED
  BY <1>1, <1>2, <1>3, <1>4, <1>5, <1>6, <1>7 DEF RateNext

\* The budget of the rate limiter holds for every Limit and Interval
\* (src/limiter.ts:235-251), whatever the wall clock does.
THEOREM BudgetKept == RateSpec => [](RateTypeOK /\ SlotsSpaced)
<1>1. RateInv => RateTypeOK /\ SlotsSpaced
  BY DEF RateInv
<1> QED
  BY <1>1, RateInitInv, RateStepInv, PTL DEF RateSpec

-----------------------------------------------------------------------------
(***************************************************************************)
(* The composition: each step is a step of the semaphore, of the rate      *)
(* limiter or of both, so it keeps the promises of each.                   *)
(***************************************************************************)

\* What a step of the composition is to its two parts.
LEMMA StepOfBoth == [Next]_vars => [SemNext]_semVars /\ [RateNext]_rateVars
<1> SUFFICES ASSUME [Next]_vars PROVE [SemNext]_semVars /\ [RateNext]_rateVars
  OBVIOUS
<1> USE DEF semVars, rateVars, semOnly, rateOnly, SemNext, RateNext
<1>1. ASSUME NEW c \in Clients, Pace(c) PROVE [SemNext]_semVars /\ [RateNext]_rateVars
  BY <1>1 DEF Pace, Take
<1>2. ASSUME NEW c \in Clients, Enter(c) PROVE [SemNext]_semVars /\ [RateNext]_rateVars
  BY <1>2 DEF Enter
<1>3. ASSUME NEW c \in Clients, TryEnter(c) PROVE [SemNext]_semVars /\ [RateNext]_rateVars
  BY <1>3 DEF TryEnter, TryAcquire
<1>4. ASSUME NEW c \in Clients, Leave(c) PROVE [SemNext]_semVars /\ [RateNext]_rateVars
  BY <1>4 DEF Leave, Release
<1>5. ASSUME NEW c \in Clients, LeaveAgain(c) PROVE [SemNext]_semVars /\ [RateNext]_rateVars
  BY <1>5 DEF LeaveAgain, ReleaseAgain
<1>6. ASSUME NEW c \in Clients, Abort(c) PROVE [SemNext]_semVars /\ [RateNext]_rateVars
  BY <1>6 DEF Abort, AbortAcquire, AbortTake
<1>7. CASE RateStep
  BY <1>7 DEF RateStep, TimerFires, ClearTakes, Tick, ClockSetBack
<1>8. CASE UNCHANGED vars
  BY <1>8 DEF vars
<1> QED
  BY <1>1, <1>2, <1>3, <1>4, <1>5, <1>6, <1>7, <1>8 DEF Next

\* The composition implements both primitives: neither can be driven, through
\* the other, into something it does not do alone.
THEOREM Composed == Spec => SemSpec /\ RateSpec
<1>1. Init => SemInit /\ RateInit /\ aborted = {}
  BY DEF Init, SemInit
<1> QED
  BY <1>1, StepOfBoth, PTL DEF Spec, SemSpec, RateSpec

\* At most Permits operations run at once, no client waits while a permit is
\* free, and the reservations keep to the budget, in every run of the
\* composition.
THEOREM LimiterSafe ==
  Spec => [](TypeOK /\ PermitConservation /\ NoIdlePermit /\ SlotsSpaced)
  BY Composed, SemaphoreSafe, BudgetKept, PTL DEF TypeOK

-----------------------------------------------------------------------------
(***************************************************************************)
(* Order and cancellation: only the client at the head of the line is ever *)
(* handed a permit, and a client whose signal has fired is not in the line *)
(* any more.                                                               *)
(***************************************************************************)

\* Somebody in the line waits.
LEMMA LineWaits ==
  ASSUME SemInv, NEW j \in 1 .. Len(waiters)
  PROVE  waiters[j] \in Clients /\ permit[waiters[j]] = "waiting"
<1>1. waiters[j] \in ToSet(waiters)
  BY LineElements DEF SemInv, SemTypeOK
<1> QED
  BY <1>1 DEF SemInv, LineIsWaiting

\* Whoever is not at the head of the line is handed nothing.
LEMMA OnlyHeadIsServed ==
  ASSUME SemInv, [SemNext]_semVars, NEW j \in 2 .. Len(waiters)
  PROVE  permit'[waiters[j]] # "held"
<1>0. PICK w : w = waiters[j]
  OBVIOUS
<1>1. w \in Clients /\ permit[w] = "waiting" /\ permit \in [Clients -> {"none", "waiting", "held", "released", "failed"}]
  <2>1. j \in 1 .. Len(waiters)
    BY LenProperties DEF SemInv, SemTypeOK
  <2> QED
    BY <1>0, <2>1, LineWaits DEF SemInv, SemTypeOK
<1>2. ASSUME NEW c \in Clients, Acquire(c) \/ TryAcquire(c) PROVE permit'[w] # "held"
  BY <1>1, <1>2 DEF Acquire, TryAcquire, Idle
<1>3. ASSUME NEW c \in Clients, Release(c) PROVE permit'[w] # "held"
  <2>1. waiters \in Seq(Clients) /\ waiters # <<>> /\ waiters' = Tail(waiters)
    BY <1>3, EmptySeq DEF Release, GivePermit, SemInv, SemTypeOK
  <2>2. w \in ToSet(Tail(waiters))
    <3>1. Tail(waiters) \in Seq(Clients) /\ Len(Tail(waiters)) = Len(waiters) - 1
          /\ \A i \in 1 .. Len(waiters) - 1 : Tail(waiters)[i] = waiters[i + 1]
      BY <2>1, HeadTailProperties
    <3>2. j - 1 \in 1 .. Len(waiters) - 1 /\ (j - 1) + 1 = j
      BY <2>1, LenProperties
    <3>3. Tail(waiters)[j - 1] = w
      BY <1>0, <3>1, <3>2
    <3> QED
      BY <3>1, <3>2, <3>3, LineElements
  <2>3. w # c
    BY <1>1, <1>3 DEF Release
  <2>4. permit' = [x \in Clients |->
                     IF x = c THEN "released"
                     ELSE IF permit[x] = "waiting" /\ x \notin ToSet(Tail(waiters)) THEN "held"
                     ELSE permit[x]]
    BY <1>3, <2>1, Zenon DEF Release
  <2> QED
    BY <1>1, <2>2, <2>3, <2>4
<1>4. ASSUME NEW c \in Clients, ReleaseAgain(c) PROVE permit'[w] # "held"
  BY <1>1, <1>4 DEF ReleaseAgain, semVars
<1>5. ASSUME NEW c \in Clients, AbortAcquire(c) PROVE permit'[w] # "held"
  BY <1>1, <1>5 DEF AbortAcquire, GiveUp
<1>6. CASE UNCHANGED semVars
  BY <1>0, <1>1, <1>6 DEF semVars
<1> QED
  BY <1>0, <1>2, <1>3, <1>4, <1>5, <1>6 DEF SemNext

\* First come, first served, whatever the others abort, release or try
\* (src/limiter.ts:96-186).
THEOREM ServedInOrder == SemSpec => FirstComeFirstServed
<1>1. SemInv /\ [SemNext]_semVars
        => [\A i, j \in 1 .. Len(waiters) :
              i < j /\ permit'[waiters[j]] = "held" => permit'[waiters[i]] # "waiting"]_semVars
  <2> SUFFICES ASSUME SemInv, [SemNext]_semVars, NEW i \in 1 .. Len(waiters),
                      NEW j \in 1 .. Len(waiters), i < j
               PROVE  permit'[waiters[j]] # "held"
    OBVIOUS
  <2>1. j \in 2 .. Len(waiters)
    BY LenProperties DEF SemInv, SemTypeOK
  <2> QED
    BY <2>1, OnlyHeadIsServed
<1> QED
  BY <1>1, SemInitInv, SemStepInv, PTL DEF SemSpec, FirstComeFirstServed

\* A client whose signal has fired is not waiting for a permit.
NobodyWaitsAborted == \A c \in aborted : permit[c] # "waiting"

\* Nobody who is cancelled gets a permit, or into the line.
LEMMA CancelledStayOut ==
  ASSUME SemInv, NobodyWaitsAborted, [Next]_vars
  PROVE  /\ \A c \in aborted : permit'[c] = "held" => permit[c] = "held"
         /\ NobodyWaitsAborted'
<1>0. /\ permit \in [Clients -> {"none", "waiting", "held", "released", "failed"}]
      /\ aborted \subseteq AbortableClients /\ AbortableClients \subseteq Clients
  BY SignalsAssumption DEF SemInv, SemTypeOK
<1> USE <1>0 DEF NobodyWaitsAborted
<1>1. ASSUME NEW c \in Clients, Pace(c) PROVE UNCHANGED <<permit, aborted>>
  BY <1>1 DEF Pace, Take, semOnly
<1>2. CASE RateStep
  BY <1>2 DEF RateStep, semOnly, TimerFires, ClearTakes, Tick, ClockSetBack
<1>3. CASE UNCHANGED vars
  BY <1>3 DEF vars, semVars
<1>4. ASSUME NEW c \in Clients, LeaveAgain(c) PROVE UNCHANGED <<permit, aborted>>
  BY <1>4 DEF LeaveAgain, ReleaseAgain, semVars
<1>5. ASSUME NEW c \in Clients, Enter(c)
      PROVE  /\ \A d \in aborted : permit'[d] = "held" => permit[d] = "held"
             /\ NobodyWaitsAborted'
  BY <1>5 DEF Enter, Acquire
<1>6. ASSUME NEW c \in Clients, TryEnter(c)
      PROVE  /\ \A d \in aborted : permit'[d] = "held" => permit[d] = "held"
             /\ NobodyWaitsAborted'
  BY <1>6 DEF TryEnter, TryAcquire
<1>7. ASSUME NEW c \in Clients, Leave(c)
      PROVE  /\ \A d \in aborted : permit'[d] = "held" => permit[d] = "held"
             /\ NobodyWaitsAborted'
  BY <1>7 DEF Leave, Release
<1>8. ASSUME NEW c \in Clients, Abort(c)
      PROVE  /\ \A d \in aborted : permit'[d] = "held" => permit[d] = "held"
             /\ NobodyWaitsAborted'
  BY <1>8 DEF Abort, Fire, GiveUp
<1> QED
  BY <1>1, <1>2, <1>3, <1>4, <1>5, <1>6, <1>7, <1>8 DEF Next

\* A signal that fires in the rate limiter, between the two or in the line of
\* the semaphore keeps its client from starting (src/limiter.ts:148-177,
\* 254-289).
THEOREM CancelledNeverStart == Spec => NoStartAfterAbort
<1>1. Init => SemInv /\ NobodyWaitsAborted
  BY SemInitInv DEF Init, SemInit, NobodyWaitsAborted
<1>2. SemInv /\ [Next]_vars => SemInv'
  BY StepOfBoth, SemStepInv
<1>3. SemInv /\ NobodyWaitsAborted /\ [Next]_vars
        => /\ [\A c \in aborted : permit'[c] = "held" => permit[c] = "held"]_vars
           /\ NobodyWaitsAborted'
  BY CancelledStayOut
<1> QED
  BY <1>1, <1>2, <1>3, PTL DEF Spec, NoStartAfterAbort
=============================================================================
